SPECIFICATION QuietSpec
CONSTANTS
  b1=b1 b2=b2 b3=b3 t1=t1 t2=t2 t3=t3 r1=r1 r2=r2 r3=r3 h1=h1 s1=s1
  Batch={b1,b2,b3}
  BatchId<-SharedId
  Tx={t1,t2,t3}
  Groups<-Shapes
  Request={r1,r2,r3}
  RequestBatch<-PostsEach
  Handler={h1}
  Sweep={s1}
  None=None
  NoHash=NoHash
  Faults=FALSE
  Expiry=FALSE
  Redelivery=FALSE
INVARIANTS QuietInv
PROPERTIES StatusIsDecidedOnce BatchIsDecided SavesAreAnnounced
CHECK_DEADLOCK FALSE
