SPECIFICATION Spec
CONSTANTS
  b1=b1 t1=t1 t2=t2 t3=t3 r1=r1 h1=h1 h2=h2 s1=s1
  Batch={b1}
  BatchId<-OwnIds
  Tx={t1,t2,t3}
  Groups<-TwoThenOne
  Request={r1}
  RequestBatch<-PostsB1
  Handler={h1,h2}
  Sweep={}
  None=None
  NoHash=NoHash
  Faults=FALSE
  Expiry=TRUE
  Redelivery=FALSE
INVARIANTS TypeOK GroupOrder SuccessIsReal OnceInv NextGroupStartedOnce SavesHaveAnnouncer
PROPERTIES InvalidNeverSuccessful
\* Every batch is decided or stuck, and the network has nothing left to do.
CHECK_DEADLOCK FALSE
