------------------------ MODULE NftProcessing_proofs ------------------------
(***************************************************************************)
(* Proofs that the processing of an NFT keeps its type, and of what an     *)
(* acknowledged message means, for any number of workers, messages, media  *)
(* files and versions, with crashes, faults and expiring keys.  The        *)
(* argument: a cache only holds what the database has; a run reaches its   *)
(* media when the metadata is stored, and its assets when the media are;   *)
(* a thumbnail call that a waiting run still owns is for each of its items. *)
(***************************************************************************)
EXTENDS NftProcessing, TLAPS

Moving(r) == r.pc # "idle"
Guarded(r) == r.pc \in {"lock", "fetch"}
Refreshing(r) == r.pc \in {"try", "lock", "fetch", "save", "cache"}

MetadataRun(r) ==
    r.phase = "metadata" =>
        /\ r.pc \in {"idle", "nft", "read", "try", "lock", "fetch", "save", "cache"}
        /\ r.left \subseteq {None}
        /\ r.pc \notin {"try", "lock", "fetch"} => r.left = {}
        /\ Guarded(r) => r.uri = None
        /\ Refreshing(r) => r.metadata \in Metadata

MediaRun(r) ==
    r.phase = "media" =>
        /\ r.pc \in {"read", "try", "lock", "fetch", "save", "cache", "wait", "ack"}
        /\ r.left \subseteq Uri
        /\ Guarded(r) => r.uri \in Uri
        /\ Refreshing(r) => r.media \in Media
        /\ r.pc \in {"wait", "ack"} => Uri = {}

AssetRun(r) ==
    r.phase = "asset" =>
        /\ r.pc \in {"try", "lock", "fetch", "wait", "ack"}
        /\ r.left \subseteq Uri
        /\ Guarded(r) => r.uri \in Uri
        /\ r.media \in Media

\* What the phase of a run says of the database.
StoredBefore(r, d) ==
    /\ r.phase # "metadata" => d["metadata"] # None
    /\ r.phase = "asset" => d["media"] # None
    /\ r.pc = "cache" => d[r.phase] # None

RunInv(r, d) ==
    /\ r \in Run
    /\ Moving(r) => r.job \in Job
    /\ MetadataRun(r) /\ MediaRun(r) /\ AssetRun(r)
    /\ StoredBefore(r, d)

RunsInv == \A w \in Worker : RunInv(run[w], db)

\* A message is with one worker at a time, and was not received at its limit.
JobsInv ==
    /\ \A w \in Worker : Moving(run[w]) => jobs[run[w].job].where = "worker"
    /\ \A w, v \in Worker : Moving(run[w]) /\ Moving(run[v]) /\ run[w].job = run[v].job => w = v
    /\ \A j \in Job : jobs[j].where \in {"worker", "retry"} => jobs[j].attempt < RetryLimit

\* The caches hold nothing the database never had.
CachesInv == \A k \in Kind : \A m \in copies[k] : m # None => db[k] # None

\* Only a waiting run has calls of its own; one that is done left a thumbnail.
CallsInv ==
    \A t \in tasks : ~t.abandoned =>
        /\ run[t.worker].pc = "wait"
        /\ t.pc = "done" /\ t.uri \in Secure => t.uri \in thumbs

\* A waiting run has a call for each of its items.
WaitingInv ==
    \A w \in Worker : run[w].pc = "wait" /\ "skipThumbnail" \notin Settings(w) =>
        \A u \in Secure : run[w].media[u] = "sized" =>
            \E t \in tasks : t.worker = w /\ t.uri = u /\ ~t.abandoned

IInv == TypeOK /\ RunsInv /\ JobsInv /\ CachesInv /\ CallsInv /\ WaitingInv /\ AckMeansThumbnails

----------------------------------------------------------------------------
(* The parts of the state *)

ChainType ==
    /\ version \in 0..MaxVersion /\ indexed \in 0..version
    /\ events \subseteq {"create", "update"} \X (1..MaxVersion)
    /\ recent \in BOOLEAN

StoreType ==
    /\ DOMAIN db = Kind /\ DOMAIN copies = Kind
    /\ \A k \in Kind : db[k] \in Value(k) \cup {None}
    /\ \A k \in Kind : copies[k] \subseteq Value(k) \cup {None}
    /\ busy \subseteq Key
    /\ assets \subseteq Uri /\ thumbs \subseteq Uri

LEMMA TypeParts ==
    TypeOK <=> /\ ChainType /\ StoreType /\ jobs \in [Job -> JobState]
               /\ run \in [Worker -> Run] /\ tasks \subseteq Task
BY DEF TypeOK, ChainType, StoreType

\* A run at rest says nothing.
LEMMA IdleRun == ASSUME NEW d PROVE RunInv(Idle, d)
<1>1. Idle \in Run
  BY NftAssumption DEF Idle, Run, PC
<1> QED  BY <1>1 DEF Idle, RunInv, Moving, MetadataRun, MediaRun, AssetRun, StoredBefore,
            Guarded, Refreshing

LEMMA InitIInv == Init => IInv
<1> SUFFICES ASSUME Init PROVE IInv
  OBVIOUS
<1> USE DEF Init
<1>1. \A w \in Worker : run[w] = Idle /\ run[w].pc = "idle"
  BY DEF Idle
<1>2. RunsInv
  BY <1>1, IdleRun DEF RunsInv
<1>3. TypeOK
  <2>1. jobs \in [Job -> JobState]
    BY NftAssumption DEF Free, JobState, Flag
  <2>2. run \in [Worker -> Run]
    BY IdleRun DEF RunInv
  <2> QED  BY <2>1, <2>2, NftAssumption DEF TypeOK, Kind
<1>4. JobsInv
  BY <1>1 DEF JobsInv, Moving, Free
<1>5. CachesInv /\ CallsInv /\ WaitingInv /\ AckMeansThumbnails
  BY <1>1 DEF CachesInv, CallsInv, WaitingInv, AckMeansThumbnails
<1> QED  BY <1>2, <1>3, <1>4, <1>5 DEF IInv

\* The runs keep their invariant when the database only gains records.
Gains(d, e) == \A k \in Kind : d[k] # None => e[k] # None

LEMMA GainsRun ==
    ASSUME NEW d, NEW e, Gains(d, e), NEW r, RunInv(r, d)
    PROVE  RunInv(r, e)
<1>1. r.phase \in {"metadata", "media", "asset"}
  BY DEF RunInv, Run
<1>2. r.pc = "cache" => r.phase \in Kind
  BY <1>1 DEF RunInv, AssetRun, Kind
<1>3. StoredBefore(r, e)
  BY <1>2 DEF RunInv, StoredBefore, Gains, Kind
<1> QED  BY <1>3 DEF RunInv

----------------------------------------------------------------------------
(* What steps leave as it was *)

\* The messages that workers have stay theirs.
JobsKept ==
    /\ jobs' \in [Job -> JobState]
    /\ \A j \in Job : jobs[j].where = "worker" =>
          jobs'[j].where = "worker" /\ jobs'[j].settings = jobs[j].settings
    /\ \A j \in Job : jobs'[j].where \in {"worker", "retry"} => jobs'[j].attempt < RetryLimit

\* The types of what no worker has, and what the caches and the database promise.
StoresMove ==
    /\ ChainType' /\ StoreType'
    /\ CachesInv' /\ Gains(db, db') /\ thumbs \subseteq thumbs'

LEMMA StoresStay == ASSUME IInv, ChainType', UNCHANGED storeVars PROVE StoresMove
BY DEF IInv, TypeOK, StoreType, storeVars, CachesInv, Gains, StoresMove

LEMMA JobsStay == ASSUME IInv, UNCHANGED jobs PROVE JobsKept
BY DEF IInv, TypeOK, JobsInv, JobsKept

\* A step in which no worker and no call takes part.
LEMMA WorkersStay ==
    ASSUME IInv, StoresMove, JobsKept, UNCHANGED <<run, tasks>>
    PROVE  IInv'
<1>1. TypeOK'
  BY TypeParts DEF IInv, StoresMove, JobsKept, TypeOK, ChainType, StoreType
<1>2. RunsInv'
  BY GainsRun DEF IInv, RunsInv, StoresMove
<1>3. \A w \in Worker : Moving(run[w]) => run[w].job \in Job
  BY DEF IInv, RunsInv, RunInv
<1>4. JobsInv'
  BY <1>3 DEF IInv, JobsInv, JobsKept
<1>5. CallsInv'
  BY DEF IInv, CallsInv, StoresMove
<1>6. \A w \in Worker : Moving(run[w]) => Settings(w)' = Settings(w)
  BY <1>3 DEF IInv, JobsInv, JobsKept, Settings
<1>7. WaitingInv'
  BY <1>6 DEF IInv, WaitingInv, Moving
<1>8. AckMeansThumbnails'
  BY <1>6 DEF IInv, AckMeansThumbnails, Moving, StoresMove
<1> QED  BY <1>1, <1>2, <1>4, <1>5, <1>7, <1>8 DEF IInv, StoresMove

\* A step of one run, which neither starts nor ends, and does not leave its wait.
LEMMA RunMoves ==
    ASSUME IInv, NEW w \in Worker, NEW r, Becomes(w, r),
           Moving(run[w]), run[w].pc # "wait", Moving(r), r.job = run[w].job,
           r.pc # "ack", r.pc = "wait" => Uri = {}, RunInv(r, db'),
           StoresMove, UNCHANGED <<jobs, tasks>>
    PROVE  IInv'
<1>0. run \in [Worker -> Run]
  BY DEF IInv, TypeOK
<1>1. run'[w] = r /\ \A v \in Worker \ {w} : run'[v] = run[v]
  BY <1>0 DEF Becomes
<1>2. run' \in [Worker -> Run]
  BY <1>0 DEF Becomes, RunInv
<1>3. TypeOK'
  BY <1>2, TypeParts DEF IInv, StoresMove, TypeOK, ChainType, StoreType
<1>4. RunsInv'
  BY <1>1, GainsRun DEF IInv, RunsInv, StoresMove
<1>5. JobsInv'
  BY <1>1 DEF IInv, JobsInv
<1>6. CallsInv'
  BY <1>1 DEF IInv, CallsInv, StoresMove, TypeOK, Task
<1>7. \A v \in Worker \ {w} : Settings(v)' = Settings(v)
  BY <1>1 DEF Settings
<1>8. WaitingInv'
  BY <1>1, <1>7, NftAssumption DEF IInv, WaitingInv
<1>9. AckMeansThumbnails'
  BY <1>1, <1>7 DEF IInv, AckMeansThumbnails, StoresMove
<1> QED  BY <1>3, <1>4, <1>5, <1>6, <1>8, <1>9 DEF IInv, StoresMove

\* A step that ends a run; the message it had is no worker's any more.
LEMMA RunEnds ==
    ASSUME IInv, NEW w \in Worker, Becomes(w, Idle), Moving(run[w]), NEW m \in JobState,
           m.where # "worker", m.where = "retry" => m.attempt < RetryLimit,
           jobs' = [jobs EXCEPT ![run[w].job] = m],
           tasks' \subseteq Task,
           \A t \in tasks' : ~t.abandoned => t \in tasks /\ t.worker # w,
           \A t \in tasks : t.worker # w => t \in tasks',
           UNCHANGED <<chainVars, storeVars>>
    PROVE  IInv'
<1>0. run \in [Worker -> Run] /\ jobs \in [Job -> JobState]
  BY DEF IInv, TypeOK
<1>1. run'[w] = Idle /\ ~Moving(run'[w]) /\ \A v \in Worker \ {w} : run'[v] = run[v]
  BY <1>0 DEF Becomes, Idle, Moving
<1>2. run' \in [Worker -> Run]
  BY <1>0, IdleRun DEF Becomes, RunInv
<1>3. \A v \in Worker : Moving(run[v]) => run[v].job \in Job
  BY DEF IInv, RunsInv, RunInv
<1>4. /\ jobs' \in [Job -> JobState] /\ jobs'[run[w].job] = m
      /\ \A j \in Job \ {run[w].job} : jobs'[j] = jobs[j]
  BY <1>0, <1>3
<1>5. \A v \in Worker \ {w} : Moving(run[v]) => jobs'[run[v].job] = jobs[run[v].job]
  BY <1>3, <1>4 DEF IInv, JobsInv
<1>6. TypeOK'
  BY <1>2, <1>4 DEF IInv, TypeOK, chainVars, storeVars
<1>7. RunsInv'
  BY <1>1, IdleRun DEF IInv, RunsInv, storeVars
<1>8. JobsInv'
  BY <1>1, <1>3, <1>4, <1>5 DEF IInv, JobsInv
<1>9. CachesInv'
  BY DEF IInv, CachesInv, storeVars
<1>10. CallsInv'
  BY <1>1 DEF IInv, CallsInv, storeVars, TypeOK, Task
<1>11. \A v \in Worker \ {w} : Moving(run[v]) => Settings(v)' = Settings(v)
  BY <1>1, <1>5 DEF Settings
<1>12. WaitingInv'
  BY <1>1, <1>11 DEF IInv, WaitingInv, Moving, Idle
<1>13. AckMeansThumbnails'
  BY <1>1, <1>11 DEF IInv, AckMeansThumbnails, Moving, Idle, storeVars
<1> QED  BY <1>6, <1>7, <1>8, <1>9, <1>10, <1>12, <1>13 DEF IInv

----------------------------------------------------------------------------
(* Jobs are sent *)

\* A message that is sent takes a free place.
LEMMA SendKeepsJobs ==
    ASSUME IInv, NEW S, S \subseteq SUBSET Flag, NEW e \in 0..MaxVersion, Send(S, e)
    PROVE  JobsKept
<1> DEFINE sent(s) == [where |-> "queue", settings |-> s, attempt |-> 0, event |-> e]
<1>1. PICK f \in [S -> FreeJobs] :
        jobs' = [j \in Job |-> IF \E s \in S : f[s] = j THEN sent(CHOOSE s \in S : f[s] = j)
                                                        ELSE jobs[j]]
  BY DEF Send
<1>2. jobs \in [Job -> JobState]
  BY DEF IInv, TypeOK
<1>3. \A s \in S : sent(s) \in JobState
  BY NftAssumption DEF JobState
<1>4. ASSUME NEW j \in Job, \E s \in S : f[s] = j
      PROVE  /\ jobs[j].where = "free" /\ jobs'[j].where = "queue"
             /\ jobs'[j] \in JobState
  <2>1. PICK s \in S : f[s] = j
    BY <1>4
  <2>2. jobs[j].where = "free"
    BY <2>1 DEF FreeJobs
  <2>3. PICK u \in S : jobs'[j] = sent(u)
    BY <1>1, <1>4
  <2> QED  BY <1>3, <2>2, <2>3
<1>5. ASSUME NEW j \in Job, ~\E s \in S : f[s] = j
      PROVE  jobs'[j] = jobs[j]
  BY <1>1, <1>5
<1> HIDE DEF sent
<1>6. jobs' \in [Job -> JobState]
  <2>1. \A j \in Job : jobs'[j] \in JobState
    BY <1>2, <1>4, <1>5
  <2>2. jobs' = [j \in Job |-> jobs'[j]]
    BY <1>1
  <2> QED  BY <2>1, <2>2
<1>7. \A j \in Job : jobs[j].where = "worker" =>
          jobs'[j].where = "worker" /\ jobs'[j].settings = jobs[j].settings
  BY <1>4, <1>5
<1>8. \A j \in Job : jobs'[j].where \in {"worker", "retry"} => jobs'[j].attempt < RetryLimit
  BY <1>4, <1>5 DEF IInv, JobsInv
<1> QED  BY <1>6, <1>7, <1>8 DEF JobsKept

LEMMA AddKeepsJobs ==
    ASSUME IInv, NEW s \in SUBSET Flag, NEW e \in 0..MaxVersion, AddProcessNftQueueJob(s, e)
    PROVE  JobsKept
<1>1. PICK b \in BOOLEAN : Send(IF b THEN {s} ELSE {}, e)
  BY DEF AddProcessNftQueueJob
<1> QED  BY <1>1, SendKeepsJobs

LEMMA ChainSteps ==
    ASSUME IInv, SetAttributes \/ IndexNft \/ DayPasses
    PROVE  IInv'
<1>1. ChainType'
  <2>1. ChainType
    BY TypeParts DEF IInv
  <2>2. version \in 0..MaxVersion /\ indexed \in 0..version /\ MaxVersion \in Nat
    BY <2>1, NftAssumption DEF ChainType
  <2>3. CASE SetAttributes
    <3>1. version' \in 1..MaxVersion /\ indexed' \in 0..version'
      BY <2>2, <2>3 DEF SetAttributes
    <3>2. events' \subseteq {"create", "update"} \X (1..MaxVersion)
      BY <2>1, <2>2, <2>3, <3>1 DEF SetAttributes, ChainType
    <3> QED  BY <2>1, <2>3, <3>1, <3>2 DEF SetAttributes, ChainType
  <2>4. CASE IndexNft
    BY <2>1, <2>2, <2>4 DEF IndexNft, ChainType
  <2>5. CASE DayPasses
    BY <2>1, <2>5 DEF DayPasses, ChainType
  <2> QED  BY <2>3, <2>4, <2>5
<1>2. UNCHANGED <<storeVars, jobs, run, tasks>>
  BY DEF SetAttributes, IndexNft, DayPasses
<1> QED  BY <1>1, <1>2, StoresStay, JobsStay, WorkersStay

LEMMA EventSteps ==
    ASSUME IInv, HandleNftCreateEvent \/ HandleNftUpdateAttributesEvent
    PROVE  IInv'
<1>1. UNCHANGED <<version, indexed, recent, storeVars, run, tasks>> /\ events' \subseteq events
  BY DEF HandleNftCreateEvent, HandleNftUpdateAttributesEvent
<1>2. ChainType'
  BY <1>1, TypeParts DEF IInv, ChainType
<1>3. CASE UNCHANGED jobs
  BY <1>1, <1>2, <1>3, StoresStay, JobsStay, WorkersStay
<1>4. {"uploadAsset"} \in SUBSET Flag /\ {"forceMetadata"} \in SUBSET Flag
  BY DEF Flag
<1>5. CASE AddProcessNftQueueJob({"uploadAsset"}, 0)
  <2>1. JobsKept
    BY <1>4, <1>5, AddKeepsJobs, NftAssumption
  <2> QED  BY <1>1, <1>2, <2>1, StoresStay, WorkersStay
<1>6. ASSUME NEW e \in events, AddProcessNftQueueJob({"forceMetadata"}, e[2])
      PROVE  IInv'
  <2>1. e[2] \in 0..MaxVersion
    BY NftAssumption DEF IInv, TypeOK
  <2>2. JobsKept
    BY <1>4, <1>6, <2>1, AddKeepsJobs
  <2> QED  BY <1>1, <1>2, <2>2, StoresStay, WorkersStay
<1> QED  BY <1>3, <1>5, <1>6 DEF HandleNftCreateEvent, HandleNftUpdateAttributesEvent

LEMMA TriggerSteps ==
    ASSUME IInv, \/ Process \/ TriggerProcessFailedMetadata
                 \/ TriggerProcessNftsForLast24Hours \/ TriggerProcessNftsForLastYear
    PROVE  IInv'
<1>1. UNCHANGED <<chainVars, storeVars, run, tasks>>
  BY DEF Process, TriggerProcessFailedMetadata, TriggerProcessNftsForLast24Hours,
         TriggerProcessNftsForLastYear, Cron
<1>2. ChainType'
  BY <1>1, TypeParts DEF IInv, ChainType, chainVars
<1>3. JobsKept
  <2>0. 0 \in 0..MaxVersion /\ {} \in SUBSET Flag
    BY NftAssumption
  <2>1. CASE Process
    BY <2>0, <2>1, RequestAssumption, AddKeepsJobs DEF Process
  <2>2. CASE TriggerProcessFailedMetadata
    <3>1. PICK b \in BOOLEAN : Send(IF b THEN {{"forceMetadata"}} ELSE {}, 0)
      BY <2>2 DEF TriggerProcessFailedMetadata
    <3>2. (IF b THEN {{"forceMetadata"}} ELSE {}) \subseteq SUBSET Flag
      BY DEF Flag
    <3> QED  BY <2>0, <3>1, <3>2, SendKeepsJobs
  <2>3. CASE TriggerProcessNftsForLast24Hours
    <3>1. \E S \in SUBSET {{"uploadAsset"}, {"forceMetadata"}, {"forceMedia"}} : Send(S, 0)
      BY <2>3 DEF TriggerProcessNftsForLast24Hours
    <3>2. {{"uploadAsset"}, {"forceMetadata"}, {"forceMedia"}} \subseteq SUBSET Flag
      BY DEF Flag
    <3> QED  BY <2>0, <3>1, <3>2, SendKeepsJobs
  <2>4. CASE TriggerProcessNftsForLastYear
    BY <2>0, <2>4, AddKeepsJobs, JobsStay DEF TriggerProcessNftsForLastYear
  <2> QED  BY <2>1, <2>2, <2>3, <2>4
<1> QED  BY <1>1, <1>2, <1>3, StoresStay, WorkersStay

----------------------------------------------------------------------------
(* The steps of a run *)

\* What a run in progress is.
LEMMA RunFacts ==
    ASSUME IInv, NEW w \in Worker
    PROVE  /\ RunInv(run[w], db)
           /\ Moving(run[w]) => /\ run[w].job \in Job
                                /\ jobs[run[w].job] \in JobState
                                /\ jobs[run[w].job].where = "worker"
                                /\ jobs[run[w].job].attempt < RetryLimit
           /\ tasks \subseteq Task /\ StoreType /\ ChainType
BY TypeParts DEF IInv, RunsInv, RunInv, JobsInv

\* The records that a run's steps make of it.
LEMMA FetchedRun ==
    ASSUME NEW d, NEW r, RunInv(r, d), Guarded(r)
    PROVE  RunInv(Fetched(r), d) /\ Moving(Fetched(r)) /\ Fetched(r).job = r.job
<1> DEFINE f == Fetched(r)
<1>1. /\ f.pc = "try" /\ f.left = r.left \ {r.uri} /\ f.uri = None /\ f.job = r.job
      /\ f.version = r.version /\ f.phase = r.phase /\ f.metadata = r.metadata
      /\ f.media = r.media /\ f.found = r.found /\ f \in Run
  BY DEF Fetched, RunInv, Run, PC
<1> HIDE DEF f
<1>2. MetadataRun(f) /\ MediaRun(f) /\ AssetRun(f) /\ StoredBefore(f, d)
  BY <1>1 DEF RunInv, MetadataRun, MediaRun, AssetRun, StoredBefore, Guarded, Refreshing
<1>3. RunInv(f, d) /\ Moving(f)
  BY <1>1, <1>2 DEF RunInv, Moving, Guarded
<1> QED  BY <1>1, <1>3 DEF f

LEMMA MetadataEndsRun ==
    ASSUME NEW d, NEW r, RunInv(r, d), Moving(r),
           r.phase = "metadata", r.left = {}, d["metadata"] # None
    PROVE  LET f == MetadataEnds(r)
           IN  RunInv(f, d) /\ Moving(f) /\ f.job = r.job /\ f.pc = "read"
<1> DEFINE f == MetadataEnds(r)
<1>0. r \in Run
  BY DEF RunInv
<1>1. /\ f.pc = "read" /\ f.left = {} /\ f.job = r.job /\ f.phase = "media"
      /\ f.version = 0 /\ f.metadata = None /\ f.found = FALSE
      /\ f.uri = r.uri /\ f.media = r.media
  BY <1>0 DEF MetadataEnds, Run
<1>2. f \in Run
  <2>1. "read" \in PC /\ 0 \in 0..MaxVersion /\ "media" \in {"metadata", "media", "asset"}
    BY NftAssumption DEF PC
  <2> QED  BY <1>0, <2>1 DEF Run, MetadataEnds
<1> HIDE DEF f
<1>3. MetadataRun(f) /\ MediaRun(f) /\ AssetRun(f) /\ StoredBefore(f, d)
  BY <1>1 DEF MetadataRun, MediaRun, AssetRun, StoredBefore, Guarded, Refreshing
<1>4. RunInv(f, d) /\ Moving(f)
  BY <1>1, <1>2, <1>3 DEF RunInv, Moving
<1> QED  BY <1>1, <1>4 DEF f

LEMMA StartMetadataRun ==
    ASSUME NEW d, NEW r, RunInv(r, d), Moving(r), r.phase = "metadata"
    PROVE  LET f == StartMetadata(r)
           IN  RunInv(f, d) /\ Moving(f) /\ f.job = r.job /\ f.pc = "try"
<1> DEFINE f == StartMetadata(r)
<1>0. r \in Run /\ Empty \in Metadata
  BY NftAssumption DEF RunInv, Metadata, Empty
<1>1. /\ f.pc = "try" /\ f.left = {None} /\ f.job = r.job /\ f.phase = "metadata"
      /\ f.metadata \in Metadata
  BY <1>0 DEF StartMetadata, Run
<1>2. f \in Run
  <2>1. "try" \in PC
    BY DEF PC
  <2> QED  BY <1>0, <2>1 DEF Run, StartMetadata
<1> HIDE DEF f
<1>3. MetadataRun(f) /\ MediaRun(f) /\ AssetRun(f) /\ StoredBefore(f, d)
  BY <1>1 DEF MetadataRun, MediaRun, AssetRun, StoredBefore, Guarded
<1>4. RunInv(f, d) /\ Moving(f)
  BY <1>1, <1>2, <1>3 DEF RunInv, Moving
<1> QED  BY <1>1, <1>4 DEF f

LEMMA StartMediaRun ==
    ASSUME NEW d, NEW r, RunInv(r, d), Moving(r), r.phase = "media"
    PROVE  LET f == StartMedia(r)
           IN  /\ RunInv(f, d) /\ Moving(f) /\ f.job = r.job
               /\ f.pc \in {"try", "wait"} /\ (f.pc = "wait" => Uri = {})
<1> DEFINE f == StartMedia(r)
<1>0. r \in Run /\ NoItems \in Media
  BY DEF RunInv, Media, NoItems
<1>1. /\ f.job = r.job /\ f.phase = "media" /\ f.left \subseteq Uri
      /\ IF Uri = {} THEN f.pc = "wait" ELSE f.pc = "try" /\ f.media \in Media
  BY <1>0 DEF StartMedia, Run, RunInv, MediaRun
<1>2. f \in Run
  <2>1. "try" \in PC /\ "wait" \in PC
    BY DEF PC
  <2>2. CASE Uri = {}
    BY <1>0, <2>1, <2>2 DEF Run, StartMedia
  <2>3. CASE Uri # {}
    BY <1>0, <2>1, <2>3 DEF Run, StartMedia
  <2> QED  BY <2>2, <2>3
<1> HIDE DEF f
<1>3. StoredBefore(f, d)
  BY <1>1 DEF StoredBefore, RunInv
<1>4. MetadataRun(f) /\ MediaRun(f) /\ AssetRun(f)
  BY <1>1 DEF MetadataRun, MediaRun, AssetRun, Guarded, Refreshing
<1>5. RunInv(f, d) /\ Moving(f)
  BY <1>1, <1>2, <1>3, <1>4 DEF RunInv, Moving
<1> QED  BY <1>1, <1>5 DEF f

LEMMA StartAssetsRun ==
    ASSUME NEW d, NEW w, NEW r \in Run, r.job \in Job, r.media \in Media,
           d["metadata"] # None, d["media"] # None
    PROVE  LET f == StartAssets(w, r)
           IN  RunInv(f, d) /\ Moving(f) /\ f.job = r.job /\ f.pc = "try"
<1> DEFINE f == StartAssets(w, r)
<1>0. Items(r.media) \subseteq Uri
  BY DEF Items, Media
<1>1. /\ f.pc = "try" /\ f.left \subseteq Uri /\ f.job = r.job /\ f.phase = "asset"
      /\ f.media = r.media
  BY <1>0 DEF StartAssets, Run
<1>2. f \in Run
  <2>1. "try" \in PC
    BY DEF PC
  <2>2. (IF "uploadAsset" \in Settings(w) THEN Items(r.media) ELSE {}) \in SUBSET (Uri \cup {None})
    BY <1>0
  <2> QED  BY <2>1, <2>2 DEF Run, StartAssets
<1> HIDE DEF f
<1>3. MetadataRun(f) /\ MediaRun(f) /\ AssetRun(f) /\ StoredBefore(f, d)
  BY <1>1 DEF MetadataRun, MediaRun, AssetRun, StoredBefore, Guarded
<1>4. RunInv(f, d) /\ Moving(f)
  BY <1>1, <1>2, <1>3 DEF RunInv, Moving
<1> QED  BY <1>1, <1>4 DEF f

\* The stores when a cache is given what the database has, or a key is set or deleted.
LEMMA CacheGains ==
    ASSUME IInv, NEW k \in Kind, NEW m \in Value(k) \cup {None}, m # None => db[k] # None,
           copies' = [copies EXCEPT ![k] = @ \cup {m}],
           UNCHANGED <<chainVars, db, busy, assets, thumbs>>
    PROVE  StoresMove
<1>1. DOMAIN copies = Kind
  BY DEF IInv, TypeOK
<1>2. /\ DOMAIN copies' = Kind
      /\ \A l \in Kind : copies'[l] = IF l = k THEN copies[l] \cup {m} ELSE copies[l]
  BY <1>1
<1>3. ChainType' /\ StoreType'
  BY <1>2, TypeParts DEF IInv, ChainType, StoreType, chainVars
<1>4. CachesInv'
  BY <1>2 DEF IInv, CachesInv
<1> QED  BY <1>3, <1>4 DEF StoresMove, Gains

LEMMA KeysMove ==
    ASSUME IInv, busy' \subseteq Key, assets' \subseteq Uri,
           thumbs' \subseteq Uri, thumbs \subseteq thumbs',
           UNCHANGED <<chainVars, db, copies>>
    PROVE  StoresMove
<1>1. ChainType' /\ StoreType'
  BY TypeParts DEF IInv, ChainType, StoreType, chainVars
<1> QED  BY <1>1 DEF IInv, CachesInv, StoresMove, Gains

LEMMA GetSingleNftMoves ==
    ASSUME IInv, NEW w \in Worker, run[w].pc = "nft", indexed > 0, NEW v \in {indexed, version},
           Becomes(w, [run[w] EXCEPT !.pc = "read", !.version = v]),
           UNCHANGED <<chainVars, storeVars, jobs, tasks>>
    PROVE  IInv'
<1> DEFINE r == run[w]
           f == [r EXCEPT !.pc = "read", !.version = v]
<1>0. RunInv(r, db) /\ ChainType /\ r \in Run
  BY RunFacts DEF RunInv
<1>1. v \in 0..MaxVersion
  BY <1>0, NftAssumption DEF ChainType
<1>2. f.pc = "read" /\ f.job = r.job /\ f.phase = r.phase /\ f.left = r.left /\ f \in Run
  <2>1. "read" \in PC
    BY DEF PC
  <2> QED  BY <1>0, <1>1, <2>1 DEF Run
<1>3. r.phase = "metadata" /\ r.left = {}
  BY <1>0 DEF RunInv, Run, MetadataRun, MediaRun, AssetRun
<1>4. Moving(r) /\ r.pc # "wait"
  BY DEF Moving
<1>5. Becomes(w, f)
  OBVIOUS
<1> HIDE DEF f
<1>6. RunInv(f, db) /\ Moving(f)
  BY <1>0, <1>2, <1>3, <1>4 DEF RunInv, Moving, MetadataRun, MediaRun, AssetRun, StoredBefore,
                                Guarded, Refreshing
<1>7. RunInv(f, db')
  BY <1>6 DEF storeVars
<1>8. StoresMove
  BY <1>0, StoresStay DEF ChainType, chainVars
<1> QED  BY <1>2, <1>4, <1>5, <1>6, <1>7, <1>8, RunMoves

LEMMA ReadMetadataStep == ASSUME IInv, NEW w \in Worker, ReadMetadata(w) PROVE IInv'
<1> DEFINE r == run[w]
<1>1. PICK m \in Answers("metadata") :
        /\ copies' = [copies EXCEPT !["metadata"] = @ \cup {m}]
        /\ Becomes(w, IF m = None \/ "forceMetadata" \in Settings(w)
                        THEN StartMetadata(r) ELSE MetadataEnds(r))
  BY DEF ReadMetadata
<1>2. /\ r.pc = "read" /\ r.phase = "metadata" /\ Moving(r) /\ r.pc # "wait"
      /\ UNCHANGED <<chainVars, db, busy, assets, thumbs, jobs, tasks>>
  BY DEF ReadMetadata, Moving
<1>3. /\ "metadata" \in Kind /\ m \in Value("metadata") \cup {None}
      /\ (m # None => db["metadata"] # None)
  BY DEF IInv, TypeOK, Answers, CachesInv, Kind
<1>4. StoresMove
  BY <1>1, <1>2, <1>3, CacheGains
<1>5. RunInv(r, db) /\ r.left = {}
  BY <1>2, RunFacts DEF RunInv, MetadataRun
<1>6. CASE m = None \/ "forceMetadata" \in Settings(w)
  <2>1. Becomes(w, StartMetadata(r))
    BY <1>1, <1>6
  <2>2. RunInv(StartMetadata(r), db')
    BY <1>2, <1>5, StartMetadataRun
  <2>3. /\ Moving(StartMetadata(r)) /\ StartMetadata(r).job = r.job
        /\ StartMetadata(r).pc = "try"
    BY <1>2, <1>5, StartMetadataRun
  <2> QED  BY <1>2, <1>4, <2>1, <2>2, <2>3, RunMoves
<1>7. CASE ~(m = None \/ "forceMetadata" \in Settings(w))
  <2>1. Becomes(w, MetadataEnds(r))
    BY <1>1, <1>7
  <2>2. /\ RunInv(MetadataEnds(r), db) /\ Moving(MetadataEnds(r))
        /\ MetadataEnds(r).job = r.job /\ MetadataEnds(r).pc = "read"
    BY <1>2, <1>3, <1>5, <1>7, MetadataEndsRun
  <2>3. RunInv(MetadataEnds(r), db')
    BY <1>2, <2>2
  <2> QED  BY <1>2, <1>4, <2>1, <2>2, <2>3, RunMoves
<1> QED  BY <1>6, <1>7

LEMMA ReadMediaStep == ASSUME IInv, NEW w \in Worker, ReadMedia(w) PROVE IInv'
<1> DEFINE r == run[w]
<1>1. PICK c \in Answers("media") :
        /\ copies' = [copies EXCEPT !["media"] = @ \cup {c}]
        /\ Becomes(w, IF c = None \/ "forceMedia" \in Settings(w)
                        THEN StartMedia(r) ELSE StartAssets(w, [r EXCEPT !.media = c]))
  BY DEF ReadMedia
<1>2. /\ r.pc = "read" /\ r.phase = "media" /\ Moving(r) /\ r.pc # "wait"
      /\ UNCHANGED <<chainVars, db, busy, assets, thumbs, jobs, tasks>>
  BY DEF ReadMedia, Moving
<1>3. "media" \in Kind /\ c \in Value("media") \cup {None} /\ (c # None => db["media"] # None)
  BY DEF IInv, TypeOK, Answers, CachesInv, Kind
<1>4. StoresMove
  BY <1>1, <1>2, <1>3, CacheGains
<1>5. RunInv(r, db) /\ r \in Run /\ r.job \in Job /\ db["metadata"] # None
  BY <1>2, RunFacts DEF RunInv, StoredBefore
<1>6. CASE c = None \/ "forceMedia" \in Settings(w)
  <2> DEFINE f == StartMedia(r)
  <2>1. Becomes(w, f)
    BY <1>1, <1>6
  <2>2. /\ RunInv(f, db) /\ Moving(f) /\ f.job = r.job
        /\ f.pc \in {"try", "wait"} /\ (f.pc = "wait" => Uri = {})
    BY <1>2, <1>5, StartMediaRun
  <2>3. RunInv(f, db')
    BY <1>2, <2>2
  <2> HIDE DEF f
  <2> QED  BY <1>2, <1>4, <2>1, <2>2, <2>3, RunMoves
<1>7. CASE ~(c = None \/ "forceMedia" \in Settings(w))
  <2> DEFINE q == [r EXCEPT !.media = c]
             f == StartAssets(w, q)
  <2>1. Becomes(w, f)
    BY <1>1, <1>7
  <2>2. c \in Media
    BY <1>3, <1>7 DEF Value
  <2>3. q \in Run /\ q.job = r.job /\ q.media = c
    BY <1>5, <2>2 DEF Run
  <2> HIDE DEF q
  <2>4. RunInv(f, db) /\ Moving(f) /\ f.job = r.job /\ f.pc = "try"
    BY <1>3, <1>5, <1>7, <2>2, <2>3, StartAssetsRun
  <2>5. RunInv(f, db')
    BY <1>2, <2>4
  <2> HIDE DEF f
  <2> QED  BY <1>2, <1>4, <2>1, <2>4, <2>5, RunMoves
<1> QED  BY <1>6, <1>7

\* A run that goes on to another resource.
LEMMA TryKeyStep == ASSUME IInv, NEW w \in Worker, TryKey(w) PROVE IInv'
<1> DEFINE r == run[w]
<1>1. /\ r.pc = "try" /\ Moving(r) /\ r.pc # "wait" /\ RunInv(r, db) /\ r \in Run
      /\ UNCHANGED <<chainVars, storeVars, jobs, tasks>>
  BY RunFacts DEF TryKey, Moving, RunInv
<1>2. StoresMove
  BY <1>1, RunFacts, StoresStay DEF ChainType, chainVars
<1>3. PICK u \in r.left : \/ Becomes(w, [r EXCEPT !.left = @ \ {u}])
                          \/ Becomes(w, [r EXCEPT !.pc = "lock", !.uri = u])
  BY DEF TryKey
<1>4. CASE Becomes(w, [r EXCEPT !.left = @ \ {u}])
  <2> DEFINE f == [r EXCEPT !.left = @ \ {u}]
  <2>1. /\ f.pc = r.pc /\ f.job = r.job /\ f.phase = r.phase /\ f.left \subseteq r.left
        /\ f.metadata = r.metadata /\ f.media = r.media /\ f.uri = r.uri /\ f \in Run
    BY <1>1 DEF Run
  <2>2. Becomes(w, f)
    BY <1>4
  <2> HIDE DEF f
  <2>3. RunInv(f, db) /\ Moving(f)
    BY <1>1, <2>1 DEF RunInv, Moving, MetadataRun, MediaRun, AssetRun, StoredBefore,
                      Guarded, Refreshing
  <2>4. RunInv(f, db')
    BY <1>1, <2>3 DEF storeVars
  <2> QED  BY <1>1, <1>2, <2>1, <2>2, <2>3, <2>4, RunMoves
<1>5. CASE Becomes(w, [r EXCEPT !.pc = "lock", !.uri = u])
  <2> DEFINE f == [r EXCEPT !.pc = "lock", !.uri = u]
  <2>0. "lock" \in PC /\ u \in Uri \cup {None}
    BY <1>1 DEF PC, Run
  <2>1. /\ f.pc = "lock" /\ f.job = r.job /\ f.phase = r.phase /\ f.left = r.left
        /\ f.metadata = r.metadata /\ f.media = r.media /\ f.uri = u /\ f \in Run
    BY <1>1, <2>0 DEF Run
  <2>2. Becomes(w, f)
    BY <1>5
  <2> HIDE DEF f
  <2>3. RunInv(f, db) /\ Moving(f)
    BY <1>1, <1>3, <2>1 DEF RunInv, Moving, MetadataRun, MediaRun, AssetRun, StoredBefore,
                            Guarded, Refreshing
  <2>4. RunInv(f, db')
    BY <1>1, <2>3 DEF storeVars
  <2> QED  BY <1>1, <1>2, <2>1, <2>2, <2>3, <2>4, RunMoves
<1> QED  BY <1>3, <1>4, <1>5

\* The key that a run holds is one of executeOptimistic's.
LEMMA RunKey ==
    ASSUME NEW d, NEW r, RunInv(r, d), Guarded(r)
    PROVE  <<r.phase, r.uri>> \in Key
BY DEF RunInv, Run, Guarded, MetadataRun, MediaRun, AssetRun, Key

LEMMA SetKeyStep == ASSUME IInv, NEW w \in Worker, SetKey(w) PROVE IInv'
<1> DEFINE r == run[w]
           f == [r EXCEPT !.pc = "fetch"]
<1>1. /\ r.pc = "lock" /\ Moving(r) /\ r.pc # "wait" /\ RunInv(r, db) /\ r \in Run /\ Guarded(r)
      /\ UNCHANGED <<chainVars, db, copies, assets, thumbs, jobs, tasks>>
      /\ Becomes(w, f)
  BY RunFacts DEF SetKey, Moving, Guarded, RunInv
<1>2. StoresMove
  <2>1. busy' \subseteq Key
    BY <1>1, RunKey, RunFacts DEF SetKey, StoreType
  <2> QED  BY <1>1, <2>1, KeysMove, RunFacts DEF StoreType
<1>3. /\ f.pc = "fetch" /\ f.job = r.job /\ f.phase = r.phase /\ f.left = r.left
      /\ f.metadata = r.metadata /\ f.media = r.media /\ f.uri = r.uri /\ f \in Run
  <2>1. "fetch" \in PC
    BY DEF PC
  <2> QED  BY <1>1, <2>1 DEF Run
<1> HIDE DEF f
<1>4. RunInv(f, db) /\ Moving(f)
  BY <1>1, <1>3 DEF RunInv, Moving, MetadataRun, MediaRun, AssetRun, StoredBefore,
                    Guarded, Refreshing
<1>5. RunInv(f, db')
  BY <1>1, <1>4
<1> QED  BY <1>1, <1>2, <1>3, <1>4, <1>5, RunMoves

\* A run that fetched a resource, or gave it up, with its result m.
LEMMA FetchMoves ==
    ASSUME IInv, NEW w \in Worker, Guarded(run[w]), NEW f, Becomes(w, f),
           RunInv(f, db), f.pc = "try", f.job = run[w].job,
           busy' \subseteq busy, assets' \subseteq Uri,
           UNCHANGED <<chainVars, db, copies, thumbs, jobs, tasks>>
    PROVE  IInv'
<1>1. StoresMove
  BY KeysMove, RunFacts DEF StoreType
<1>2. Moving(run[w]) /\ run[w].pc # "wait" /\ Moving(f)
  BY DEF Guarded, Moving
<1>3. RunInv(f, db')
  OBVIOUS
<1> QED  BY <1>1, <1>2, <1>3, RunMoves

LEMMA FetchMetadataStep == ASSUME IInv, NEW w \in Worker, FetchMetadata(w) PROVE IInv'
<1> DEFINE r == run[w]
           f == Fetched(r)
<1>1. PICK m \in Contents(r.version) : Becomes(w, [f EXCEPT !.metadata = m])
  BY DEF FetchMetadata
<1>2. /\ r.phase = "metadata" /\ Guarded(r) /\ RunInv(r, db) /\ r \in Run /\ busy' \subseteq busy
      /\ assets' \subseteq Uri
      /\ UNCHANGED <<chainVars, db, copies, assets, thumbs, jobs, tasks>>
  BY RunFacts DEF FetchMetadata, Guarded, Unlocked, RunInv, StoreType
<1>3. m \in Metadata
  <2>1. r.version \in 0..MaxVersion /\ 0 \in 0..MaxVersion
    BY <1>2, NftAssumption DEF Run
  <2>2. CASE m = Empty
    BY <2>1, <2>2 DEF Metadata, Empty
  <2>3. CASE m = [kind |-> "content", version |-> r.version]
    BY <2>1, <2>3 DEF Metadata
  <2>4. CASE m \in [kind : FetchError, version : {0}]
    <3>1. m.kind \in {"retryable", "failed"} /\ m = [kind |-> m.kind, version |-> 0]
      BY <2>4, NftAssumption
    <3> QED  BY <2>1, <3>1 DEF Metadata
  <2> QED  BY <1>1, <2>2, <2>3, <2>4 DEF Contents
<1>4. RunInv(f, db) /\ f.job = r.job /\ f.pc = "try" /\ f.phase = "metadata"
  BY <1>2, FetchedRun DEF Fetched, Run
<1> HIDE DEF f
<1> DEFINE g == [f EXCEPT !.metadata = m]
<1>5. /\ g.pc = "try" /\ g.job = r.job /\ g.phase = "metadata" /\ g.left = f.left
      /\ g.metadata = m /\ g \in Run
  BY <1>3, <1>4 DEF RunInv, Run
<1>6. Becomes(w, g)
  BY <1>1
<1> HIDE DEF g
<1>7. RunInv(g, db)
  BY <1>3, <1>4, <1>5 DEF RunInv, Moving, MetadataRun, MediaRun, AssetRun, StoredBefore, Guarded
<1> QED  BY <1>2, <1>5, <1>6, <1>7, FetchMoves

LEMMA FetchMediaStep == ASSUME IInv, NEW w \in Worker, FetchMedia(w) PROVE IInv'
<1> DEFINE r == run[w]
           f == Fetched(r)
<1>1. /\ r.phase = "media" /\ Guarded(r) /\ RunInv(r, db) /\ r \in Run /\ busy' \subseteq busy
      /\ assets' \subseteq Uri
      /\ UNCHANGED <<chainVars, db, copies, assets, thumbs, jobs, tasks>>
  BY RunFacts DEF FetchMedia, Guarded, Unlocked, RunInv, StoreType
<1>2. /\ RunInv(f, db) /\ f.job = r.job /\ f.pc = "try" /\ f.phase = "media"
      /\ f.media = r.media /\ r.media \in Media /\ r.uri \in Uri
  BY <1>1, FetchedRun DEF Fetched, Run, RunInv, MediaRun, Guarded, Refreshing
<1>3. CASE Becomes(w, f)
  <2> HIDE DEF f
  <2> QED  BY <1>1, <1>2, <1>3, FetchMoves
<1>4. ASSUME NEW o \in {"absent", "sized", "large"}, Becomes(w, [f EXCEPT !.media[r.uri] = o])
      PROVE  IInv'
  <2> HIDE DEF f
  <2> DEFINE g == [f EXCEPT !.media[r.uri] = o]
  <2>1. f \in Run /\ [f.media EXCEPT ![r.uri] = o] \in Media
    BY <1>2 DEF RunInv, Media
  <2>2. g = [f EXCEPT !.media = [f.media EXCEPT ![r.uri] = o]]
    BY <2>1 DEF Run
  <2>3. /\ g.pc = "try" /\ g.job = r.job /\ g.phase = "media" /\ g.left = f.left
        /\ g.media \in Media /\ g \in Run
    BY <1>2, <2>1, <2>2 DEF Run
  <2>4. Becomes(w, g)
    BY <1>4
  <2> HIDE DEF g
  <2>5. RunInv(g, db)
    BY <1>2, <2>3 DEF RunInv, Moving, MetadataRun, MediaRun, AssetRun, StoredBefore, Guarded
  <2> QED  BY <1>1, <2>3, <2>4, <2>5, FetchMoves
<1> QED  BY <1>3, <1>4 DEF FetchMedia

LEMMA FetchAssetStep == ASSUME IInv, NEW w \in Worker, FetchAsset(w) PROVE IInv'
<1> DEFINE r == run[w]
           f == Fetched(r)
<1>1. /\ r.phase = "asset" /\ Guarded(r) /\ RunInv(r, db) /\ r \in Run /\ busy' \subseteq busy
      /\ UNCHANGED <<chainVars, db, copies, thumbs, jobs, tasks>> /\ Becomes(w, f)
  BY RunFacts DEF FetchAsset, Guarded, Unlocked, RunInv
<1>2. RunInv(f, db) /\ f.job = r.job /\ f.pc = "try"
  BY <1>1, FetchedRun DEF Fetched, Run
<1>3. assets' \subseteq Uri
  BY <1>1, RunFacts DEF FetchAsset, RunInv, AssetRun, StoreType
<1> HIDE DEF f
<1> QED  BY <1>1, <1>2, <1>3, FetchMoves

LEMMA FindRecordStep == ASSUME IInv, NEW w \in Worker, FindRecord(w) PROVE IInv'
<1> DEFINE r == run[w]
           f == [r EXCEPT !.pc = "save", !.found = (db[r.phase] # None)]
<1>1. /\ r.phase \in Kind /\ r.pc = "try" /\ r.left = {} /\ Moving(r) /\ r.pc # "wait"
      /\ RunInv(r, db) /\ r \in Run
      /\ UNCHANGED <<chainVars, storeVars, jobs, tasks>> /\ Becomes(w, f)
  BY RunFacts DEF FindRecord, Fetching, Moving, RunInv
<1>2. StoresMove
  BY <1>1, RunFacts, StoresStay DEF ChainType, chainVars
<1>3. /\ f.pc = "save" /\ f.job = r.job /\ f.phase = r.phase /\ f.left = {}
      /\ f.metadata = r.metadata /\ f.media = r.media /\ f \in Run
  <2>1. "save" \in PC /\ (db[r.phase] # None) \in BOOLEAN
    BY DEF PC
  <2> QED  BY <1>1, <2>1 DEF Run
<1> HIDE DEF f
<1>4. RunInv(f, db) /\ Moving(f)
  BY <1>1, <1>3 DEF RunInv, Moving, MetadataRun, MediaRun, AssetRun, StoredBefore,
                    Guarded, Refreshing, Kind
<1>5. RunInv(f, db')
  BY <1>1, <1>4 DEF storeVars
<1> QED  BY <1>1, <1>2, <1>3, <1>4, <1>5, RunMoves

\* What a run found for its phase.
LEMMA Result ==
    ASSUME NEW d, NEW r, RunInv(r, d), r.pc \in {"save", "cache"}
    PROVE  /\ r.phase \in Kind /\ r[r.phase] \in Value(r.phase) /\ r[r.phase] # None
           /\ r.phase = "metadata" => r[r.phase] = r.metadata
           /\ r.phase = "media" => r[r.phase] = r.media
<1>1. r.phase \in Kind
  BY DEF RunInv, Run, AssetRun, Kind
<1>2. CASE r.phase = "metadata"
  BY <1>2, NullAssumption DEF RunInv, MetadataRun, Refreshing, Value, Kind
<1>3. CASE r.phase = "media"
  BY <1>3, NullAssumption DEF RunInv, MediaRun, Refreshing, Value, Kind
<1> QED  BY <1>1, <1>2, <1>3 DEF Kind

\* A save leaves a record, its own or the one that it found.
LEMMA SaveRecordStep == ASSUME IInv, NEW w \in Worker, SaveRecord(w) PROVE IInv'
<1> DEFINE r == run[w]
           f == [r EXCEPT !.pc = "cache"]
<1>1. /\ r.pc = "save" /\ Moving(r) /\ r.pc # "wait" /\ RunInv(r, db) /\ r \in Run
      /\ UNCHANGED <<chainVars, copies, busy, assets, thumbs, jobs, tasks>> /\ Becomes(w, f)
  BY RunFacts DEF SaveRecord, Moving, RunInv
<1>2. r.phase \in Kind /\ r[r.phase] \in Value(r.phase) /\ r[r.phase] # None
  BY <1>1, Result
<1>3. DOMAIN db = Kind /\ \A k \in Kind : db[k] \in Value(k) \cup {None}
  BY DEF IInv, TypeOK
<1>4. /\ DOMAIN db' = Kind /\ \A k \in Kind : db'[k] \in Value(k) \cup {None}
      /\ Gains(db, db') /\ db'[r.phase] # None
  <2>1. CASE r.found \/ db[r.phase] = None
    <3>1. db' = [db EXCEPT ![r.phase] = r[r.phase]]
      BY <2>1 DEF SaveRecord
    <3> QED  BY <1>2, <1>3, <3>1 DEF Gains
  <2>2. CASE ~(r.found \/ db[r.phase] = None)
    <3>1. db' = db
      BY <2>2 DEF SaveRecord
    <3> QED  BY <1>3, <2>2, <3>1 DEF Gains
  <2> QED  BY <2>1, <2>2
<1>5. StoresMove
  <2>1. ChainType' /\ StoreType'
    BY <1>1, <1>4, RunFacts DEF ChainType, StoreType, chainVars
  <2>2. CachesInv'
    BY <1>1, <1>4 DEF IInv, CachesInv, Gains
  <2> QED  BY <1>1, <1>4, <2>1, <2>2 DEF StoresMove
<1>6. /\ f.pc = "cache" /\ f.job = r.job /\ f.phase = r.phase /\ f.left = r.left
      /\ f.metadata = r.metadata /\ f.media = r.media /\ f \in Run
  <2>1. "cache" \in PC
    BY DEF PC
  <2> QED  BY <1>1, <2>1 DEF Run
<1> HIDE DEF f
<1>7. RunInv(r, db')
  BY <1>1, <1>4, GainsRun
<1>8. RunInv(f, db') /\ Moving(f)
  BY <1>1, <1>2, <1>4, <1>6, <1>7 DEF RunInv, Moving, MetadataRun, MediaRun, AssetRun,
                                      StoredBefore, Guarded, Refreshing, Kind
<1> QED  BY <1>1, <1>5, <1>6, <1>8, RunMoves

LEMMA CacheRecordStep == ASSUME IInv, NEW w \in Worker, CacheRecord(w) PROVE IInv'
<1> DEFINE r == run[w]
<1>1. /\ r.pc = "cache" /\ Moving(r) /\ r.pc # "wait" /\ RunInv(r, db) /\ r \in Run
      /\ r.job \in Job
      /\ UNCHANGED <<chainVars, db, busy, assets, thumbs, jobs, tasks>>
      /\ copies' = [copies EXCEPT ![r.phase] = @ \cup {r[r.phase]}]
  BY RunFacts DEF CacheRecord, Moving, RunInv
<1>2. /\ r.phase \in Kind /\ r[r.phase] \in Value(r.phase) /\ db[r.phase] # None
  BY <1>1, Result DEF RunInv, StoredBefore
<1>3. StoresMove
  BY <1>1, <1>2, CacheGains
<1>4. CASE r.phase = "metadata"
  <2> DEFINE f == MetadataEnds(r)
  <2>1. Becomes(w, f)
    BY <1>4 DEF CacheRecord
  <2>2. r.left = {} /\ db["metadata"] # None
    BY <1>1, <1>2, <1>4 DEF RunInv, MetadataRun
  <2>3. RunInv(f, db) /\ Moving(f) /\ f.job = r.job /\ f.pc = "read"
    BY <1>1, <1>4, <2>2, MetadataEndsRun
  <2> HIDE DEF f
  <2>4. RunInv(f, db')
    BY <1>1, <2>3
  <2> QED  BY <1>1, <1>3, <2>1, <2>3, <2>4, RunMoves
<1>5. CASE r.phase = "media"
  <2> DEFINE f == StartAssets(w, r)
  <2>1. Becomes(w, f)
    BY <1>5 DEF CacheRecord
  <2>2. r.media \in Media /\ db["metadata"] # None /\ db["media"] # None
    BY <1>1, <1>2, <1>5 DEF RunInv, MediaRun, Refreshing, StoredBefore
  <2>3. RunInv(f, db) /\ Moving(f) /\ f.job = r.job /\ f.pc = "try"
    BY <1>1, <2>2, StartAssetsRun
  <2> HIDE DEF f
  <2>4. RunInv(f, db')
    BY <1>1, <2>3
  <2> QED  BY <1>1, <1>3, <2>1, <2>3, <2>4, RunMoves
<1> QED  BY <1>2, <1>4, <1>5 DEF Kind

----------------------------------------------------------------------------
(* A run starts, waits for its thumbnails and ends *)

LEMMA ReceiveStep == ASSUME IInv, NEW w \in Worker, NEW j \in Job, Receive(w, j) PROVE IInv'
<1>0. /\ run \in [Worker -> Run] /\ jobs \in [Job -> JobState] /\ RetryLimit \in Nat
      /\ RunInv(run[w], db)
      /\ run[w].pc = "idle" /\ jobs[j].where = "queue" /\ UNCHANGED <<chainVars, storeVars, tasks>>
  BY RunFacts, NftAssumption DEF IInv, TypeOK, Receive
<1>1. StoresMove
  BY <1>0, RunFacts, StoresStay DEF ChainType, chainVars
<1>2. CASE jobs' = [jobs EXCEPT ![j] = Free] /\ UNCHANGED run
  <2>1. Free \in JobState /\ Free.where = "free"
    BY NftAssumption DEF Free, JobState
  <2>2. jobs' \in [Job -> JobState] /\ \A i \in Job : jobs'[i] = IF i = j THEN Free ELSE jobs[i]
    BY <1>0, <1>2, <2>1
  <2>3. JobsKept
    BY <1>0, <2>1, <2>2 DEF IInv, JobsInv, JobsKept
  <2> QED  BY <1>0, <1>1, <1>2, <2>3, WorkersStay
<1>3. CASE /\ ~RetriesSpent(jobs[j]) /\ jobs' = [jobs EXCEPT ![j].where = "worker"]
           /\ Becomes(w, [Idle EXCEPT !.pc = "nft", !.job = j])
  <2> DEFINE f == [Idle EXCEPT !.pc = "nft", !.job = j]
  <2>1. /\ f.pc = "nft" /\ f.job = j /\ f.phase = "metadata" /\ f.left = {} /\ f \in Run
    <3>1. "nft" \in PC /\ Idle \in Run /\ Idle.left = {} /\ Idle.phase = "metadata"
      BY IdleRun DEF PC, RunInv, Idle
    <3> QED  BY <3>1 DEF Run
  <2>2. run' = [run EXCEPT ![w] = f]
    BY <1>3 DEF Becomes
  <2> HIDE DEF f
  <2>3. RunInv(f, db)
    BY <2>1 DEF RunInv, MetadataRun, MediaRun, AssetRun, StoredBefore, Guarded, Refreshing
  <2>4. run'[w] = f /\ (\A v \in Worker \ {w} : run'[v] = run[v]) /\ run' \in [Worker -> Run]
    BY <1>0, <2>1, <2>2
  <2>5. /\ jobs' \in [Job -> JobState] /\ jobs'[j].where = "worker"
        /\ jobs'[j].attempt < RetryLimit
        /\ \A i \in Job \ {j} : jobs'[i] = jobs[i]
    <3>1. jobs[j] \in JobState /\ jobs[j].attempt \in 0..RetryLimit
      BY <1>0 DEF JobState
    <3>2. jobs[j].attempt < RetryLimit
      BY <1>0, <1>3, <3>1 DEF RetriesSpent
    <3>3. [jobs[j] EXCEPT !.where = "worker"] \in JobState
      BY <3>1 DEF JobState
    <3> QED  BY <1>0, <1>3, <3>1, <3>2, <3>3 DEF JobState
  <2>6. \A v \in Worker : Moving(run[v]) => run[v].job \in Job \ {j}
    BY <1>0, RunFacts
  <2>7. TypeOK'
    BY <1>0, <1>1, <2>4, <2>5, TypeParts DEF StoresMove, IInv, TypeOK, ChainType, StoreType
  <2>8. RunsInv'
    BY <1>0, <2>3, <2>4 DEF IInv, RunsInv, storeVars
  <2>9. JobsInv'
    BY <2>1, <2>4, <2>5, <2>6 DEF IInv, JobsInv
  <2>10. CallsInv'
    BY <1>0, <2>4 DEF IInv, CallsInv, TypeOK, Task, storeVars
  <2>11. \A v \in Worker \ {w} : Moving(run[v]) => Settings(v)' = Settings(v)
    BY <2>4, <2>5, <2>6 DEF Settings
  <2>12. WaitingInv'
    BY <1>0, <2>1, <2>4, <2>11 DEF IInv, WaitingInv, Moving
  <2>13. AckMeansThumbnails'
    BY <1>0, <2>1, <2>4, <2>11 DEF IInv, AckMeansThumbnails, Moving, storeVars
  <2> QED  BY <1>1, <2>7, <2>8, <2>9, <2>10, <2>12, <2>13 DEF IInv, StoresMove
<1> QED  BY <1>2, <1>3 DEF Receive

\* Between a run's calls for thumbnails and their end, only its own state moves.
LEMMA WaitMoves ==
    ASSUME IInv, NEW w \in Worker, NEW f, Becomes(w, f), Moving(run[w]), RunInv(f, db),
           f.pc \in {"wait", "ack"}, f.job = run[w].job, f.media = run[w].media,
           tasks' \subseteq Task,
           \A t \in Task : t.worker # w => (t \in tasks <=> t \in tasks'),
           \A t \in tasks' : t.worker = w /\ ~t.abandoned =>
               f.pc = "wait" /\ (t.pc = "done" /\ t.uri \in Secure => t.uri \in thumbs),
           "skipThumbnail" \notin Settings(w) =>
               \A u \in Secure : f.media[u] = "sized" =>
                   /\ f.pc = "wait" => \E t \in tasks' : t.worker = w /\ t.uri = u /\ ~t.abandoned
                   /\ f.pc = "ack" => u \in thumbs \cup f.left,
           UNCHANGED <<chainVars, storeVars, jobs>>
    PROVE  IInv'
<1>0. run \in [Worker -> Run] /\ f \in Run /\ Moving(f) /\ tasks \subseteq Task
  BY RunFacts DEF IInv, TypeOK, RunInv, Moving
<1>1. run'[w] = f /\ (\A v \in Worker \ {w} : run'[v] = run[v]) /\ run' \in [Worker -> Run]
  BY <1>0 DEF Becomes
<1>2. StoresMove
  BY RunFacts, StoresStay DEF ChainType, chainVars
<1>3. TypeOK'
  BY <1>1, <1>2, TypeParts DEF StoresMove, IInv, TypeOK, ChainType, StoreType
<1>4. RunsInv'
  BY <1>1 DEF IInv, RunsInv, storeVars
<1>5. JobsInv'
  BY <1>1 DEF IInv, JobsInv
<1>6. CallsInv'
  BY <1>0, <1>1 DEF IInv, CallsInv, storeVars, Task
<1>7. \A v \in Worker : Settings(v)' = Settings(v)
  BY <1>1 DEF Settings
<1>8. WaitingInv'
  <2> SUFFICES ASSUME NEW v \in Worker, run'[v].pc = "wait", "skipThumbnail" \notin Settings(v),
                      NEW u \in Secure, run'[v].media[u] = "sized"
               PROVE  \E t \in tasks' : t.worker = v /\ t.uri = u /\ ~t.abandoned
    BY <1>7 DEF WaitingInv
  <2>1. CASE v = w
    BY <1>1, <2>1
  <2>2. CASE v # w
    <3>1. PICK t \in tasks : t.worker = v /\ t.uri = u /\ ~t.abandoned
      BY <1>1, <2>2 DEF IInv, WaitingInv
    <3> QED  BY <1>0, <2>2, <3>1
  <2> QED  BY <2>1, <2>2
<1>9. AckMeansThumbnails'
  BY <1>1, <1>7 DEF IInv, AckMeansThumbnails, storeVars
<1> QED  BY <1>2, <1>3, <1>4, <1>5, <1>6, <1>8, <1>9 DEF IInv, StoresMove

LEMMA StartThumbnailsStep == ASSUME IInv, NEW w \in Worker, StartThumbnails(w) PROVE IInv'
<1> DEFINE r == run[w]
           f == [r EXCEPT !.pc = "wait"]
           call(u) == [worker |-> w, uri |-> u, force |-> "forceThumbnail" \in Settings(w),
                       abandoned |-> FALSE, pc |-> "try"]
           sized == {v \in Uri : "skipThumbnail" \notin Settings(w) /\ r.media[v] = "sized"}
<1>1. /\ r.pc = "try" /\ r.phase = "asset" /\ Moving(r) /\ RunInv(r, db) /\ r \in Run
      /\ UNCHANGED <<chainVars, storeVars, jobs>> /\ Becomes(w, f)
      /\ tasks' = tasks \cup {call(u) : u \in sized}
  BY RunFacts DEF StartThumbnails, Fetching, Moving, RunInv
<1>2. /\ f.pc = "wait" /\ f.job = r.job /\ f.phase = r.phase /\ f.left = r.left
      /\ f.media = r.media /\ f \in Run
  <2>1. "wait" \in PC
    BY DEF PC
  <2> QED  BY <1>1, <2>1 DEF Run
<1> HIDE DEF f
<1>3. RunInv(f, db)
  BY <1>1, <1>2 DEF RunInv, Moving, MetadataRun, MediaRun, AssetRun, StoredBefore, Guarded
<1>4. \A u \in Uri : /\ call(u) \in Task /\ call(u).worker = w /\ call(u).uri = u
                     /\ ~call(u).abandoned /\ call(u).pc = "try"
  BY DEF Task
<1>5. tasks' \subseteq Task
  BY <1>1, <1>4, RunFacts
<1>6. \A t \in Task : t.worker # w => (t \in tasks <=> t \in tasks')
  BY <1>1, <1>4
<1>7. \A t \in tasks' : t.worker = w /\ ~t.abandoned => t.pc = "try"
  BY <1>1, <1>4 DEF IInv, CallsInv
<1>8. ASSUME "skipThumbnail" \notin Settings(w), NEW u \in Secure, f.media[u] = "sized"
      PROVE  \E t \in tasks' : t.worker = w /\ t.uri = u /\ ~t.abandoned
  <2>1. u \in sized
    BY <1>2, <1>8, NftAssumption
  <2>2. call(u) \in tasks'
    BY <1>1, <2>1
  <2> QED  BY <1>4, <2>1, <2>2
<1> QED  BY <1>1, <1>2, <1>3, <1>5, <1>6, <1>7, <1>8, WaitMoves

\* The message is given back, one attempt before the limit at most.
LEMMA RejectStep == ASSUME IInv, NEW w \in Worker, Moving(run[w]), Reject(w) PROVE IInv'
<1> DEFINE job == jobs[run[w].job]
           m == [job EXCEPT !.where = "retry"]
           ended == {u \in tasks : u.worker = w /\ u.pc \notin {"done", "skipped", "failed"}}
<1>1. /\ job \in JobState /\ job.attempt < RetryLimit
      /\ jobs \in [Job -> JobState] /\ run[w].job \in Job
  BY RunFacts DEF IInv, TypeOK
<1>2. m \in JobState /\ m.where = "retry" /\ m.attempt < RetryLimit
  BY <1>1 DEF JobState
<1>3. jobs' = [jobs EXCEPT ![run[w].job] = m]
  BY <1>1 DEF Reject
<1>4. \A t \in Task : /\ [t EXCEPT !.abandoned = TRUE] \in Task
                      /\ [t EXCEPT !.abandoned = TRUE].abandoned
  BY DEF Task
<1>5. /\ tasks' = {t \in tasks : t.worker # w \/ t.abandoned}
                    \cup {[t EXCEPT !.abandoned = TRUE] : t \in ended}
      /\ Becomes(w, Idle) /\ UNCHANGED <<chainVars, storeVars>>
  BY DEF Reject
<1>6. tasks \subseteq Task
  BY DEF IInv, TypeOK
<1>7. tasks' \subseteq Task
  BY <1>4, <1>5, <1>6
<1>8. \A t \in tasks' : ~t.abandoned => t \in tasks /\ t.worker # w
  BY <1>4, <1>5, <1>6
<1>9. \A t \in tasks : t.worker # w => t \in tasks'
  BY <1>5
<1> HIDE DEF m
<1> QED  BY <1>2, <1>3, <1>5, <1>7, <1>8, <1>9, RunEnds

LEMMA ThumbnailsEndStep == ASSUME IInv, NEW w \in Worker, ThumbnailsEnd(w) PROVE IInv'
<1> DEFINE r == run[w]
           left == {t.uri : t \in {u \in Tasks(w) : u.pc = "skipped"}}
           f == [r EXCEPT !.pc = "ack", !.left = left]
<1>1. r.pc = "wait" /\ Moving(r) /\ RunInv(r, db) /\ r \in Run /\ tasks \subseteq Task
  BY RunFacts DEF ThumbnailsEnd, Moving, RunInv
<1>2. CASE Reject(w)
  BY <1>1, <1>2, RejectStep
<1>3. CASE /\ \A t \in Tasks(w) : t.pc \in {"done", "skipped"}
           /\ Becomes(w, f) /\ tasks' = tasks \ Tasks(w)
           /\ UNCHANGED <<chainVars, storeVars, jobs>>
  <2>1. left \subseteq Uri
    BY <1>1 DEF Tasks, Task
  <2> HIDE DEF left
  <2>2. /\ f.pc = "ack" /\ f.job = r.job /\ f.phase = r.phase /\ f.left = left
        /\ f.media = r.media /\ f \in Run
    <3>1. "ack" \in PC /\ left \in SUBSET (Uri \cup {None})
      BY <2>1 DEF PC
    <3> QED  BY <1>1, <3>1 DEF Run
  <2> HIDE DEF f
  <2>3. RunInv(f, db)
    BY <1>1, <2>1, <2>2 DEF RunInv, Moving, MetadataRun, MediaRun, AssetRun, StoredBefore,
                            Guarded, Refreshing
  <2>4. tasks' \subseteq Task /\ \A t \in Task : t.worker # w => (t \in tasks <=> t \in tasks')
    BY <1>1, <1>3 DEF Tasks
  <2>5. \A t \in tasks' : ~(t.worker = w /\ ~t.abandoned)
    BY <1>3 DEF Tasks
  <2>6. ASSUME "skipThumbnail" \notin Settings(w), NEW u \in Secure, f.media[u] = "sized"
        PROVE  u \in thumbs \cup f.left
    <3>1. PICK t \in tasks : t.worker = w /\ t.uri = u /\ ~t.abandoned
      BY <1>1, <2>2, <2>6 DEF IInv, WaitingInv
    <3>2. t \in Tasks(w)
      BY <3>1 DEF Tasks
    <3>3. CASE t.pc = "done"
      BY <3>1, <3>3 DEF IInv, CallsInv
    <3>4. CASE t.pc = "skipped"
      BY <2>2, <3>1, <3>2, <3>4 DEF left
    <3> QED  BY <1>3, <3>2, <3>3, <3>4
  <2> QED  BY <1>1, <1>3, <2>2, <2>3, <2>4, <2>5, <2>6, WaitMoves
<1> QED  BY <1>2, <1>3 DEF ThumbnailsEnd

LEMMA AckStep == ASSUME IInv, NEW w \in Worker, Ack(w) PROVE IInv'
<1>1. /\ run[w].pc = "ack" /\ Moving(run[w]) /\ Becomes(w, Idle) /\ tasks \subseteq Task
      /\ jobs' = [jobs EXCEPT ![run[w].job] = Free] /\ UNCHANGED <<chainVars, storeVars, tasks>>
  BY RunFacts DEF Ack, Moving
<1>2. Free \in JobState /\ Free.where = "free"
  BY NftAssumption DEF Free, JobState
<1>3. \A t \in tasks : ~t.abandoned => t.worker # w
  BY <1>1 DEF IInv, CallsInv
<1> QED  BY <1>1, <1>2, <1>3, RunEnds

LEMMA CrashStep == ASSUME IInv, NEW w \in Worker, Crash(w) PROVE IInv'
<1> DEFINE job == jobs[run[w].job]
           m == [job EXCEPT !.where = "queue"]
<1>1. /\ Moving(run[w]) /\ Becomes(w, Idle) /\ tasks' = {t \in tasks : t.worker # w}
      /\ UNCHANGED <<chainVars, storeVars>> /\ tasks \subseteq Task
  BY RunFacts DEF Crash, Moving
<1>2. job \in JobState /\ jobs \in [Job -> JobState] /\ run[w].job \in Job
  BY <1>1, RunFacts DEF IInv, TypeOK
<1>3. m \in JobState /\ m.where = "queue"
  BY <1>2 DEF JobState
<1>4. jobs' = [jobs EXCEPT ![run[w].job] = m]
  BY <1>2 DEF Crash
<1>5. /\ tasks' \subseteq Task
      /\ \A t \in tasks' : ~t.abandoned => t \in tasks /\ t.worker # w
      /\ \A t \in tasks : t.worker # w => t \in tasks'
  BY <1>1
<1> HIDE DEF m
<1> QED  BY <1>1, <1>3, <1>4, <1>5, RunEnds

LEMMA FaultStep == ASSUME IInv, NEW w \in Worker, Fault(w) PROVE IInv'
<1> DEFINE r == run[w]
<1>1. Moving(r) /\ RunInv(r, db) /\ r \in Run
  BY RunFacts DEF Fault, Moving, RunInv
<1>2. CASE Reject(w)
  BY <1>1, <1>2, RejectStep
<1>3. CASE /\ r.pc \in {"lock", "fetch"} /\ Becomes(w, Fetched(r))
           /\ UNCHANGED <<chainVars, storeVars, jobs, tasks>>
  <2>1. Guarded(r) /\ busy' \subseteq busy /\ assets' \subseteq Uri
    BY <1>3, RunFacts DEF Guarded, storeVars, StoreType
  <2>2. RunInv(Fetched(r), db) /\ Fetched(r).job = r.job /\ Fetched(r).pc = "try"
    BY <1>1, <2>1, FetchedRun DEF Fetched, Run
  <2>3. UNCHANGED <<chainVars, db, copies, thumbs, jobs, tasks>>
    BY <1>3 DEF storeVars
  <2> QED  BY <1>3, <2>1, <2>2, <2>3, FetchMoves
<1> QED  BY <1>2, <1>3 DEF Fault

----------------------------------------------------------------------------
(* The calls for thumbnails, the queue and the keys *)

\* One call goes from pc to pc; when it is done, the thumbnail of its url is there.
LEMMA CallMoves ==
    ASSUME IInv, NEW t \in tasks, NEW pc, Goes(t, pc),
           pc \in {"lock", "fetch", "make", "hung", "done", "skipped", "failed"},
           pc = "done" /\ t.uri \in Secure => t.uri \in thumbs',
           StoresMove, UNCHANGED <<jobs, run>>
    PROVE  IInv'
<1> DEFINE s == [t EXCEPT !.pc = pc]
<1>1. tasks \subseteq Task
  BY DEF IInv, TypeOK
<1>2. /\ s \in Task /\ s.pc = pc /\ s.uri = t.uri /\ s.worker = t.worker
      /\ s.abandoned = t.abandoned
  BY <1>1 DEF Task
<1>3. /\ tasks' \subseteq (tasks \ {t}) \cup {s}
      /\ tasks \ {t} \subseteq tasks'
      /\ ~t.abandoned => s \in tasks'
  BY DEF Goes
<1> HIDE DEF s
<1>4. TypeOK'
  BY <1>1, <1>2, <1>3, TypeParts DEF IInv, StoresMove, TypeOK, ChainType, StoreType
<1>5. RunsInv'
  BY GainsRun DEF IInv, RunsInv, StoresMove
<1>6. JobsInv'
  BY DEF IInv, JobsInv
<1>7. CallsInv'
  BY <1>2, <1>3 DEF IInv, CallsInv, StoresMove
<1>8. \A w \in Worker : Settings(w)' = Settings(w)
  BY DEF Settings
<1>9. WaitingInv'
  <2> SUFFICES ASSUME NEW w \in Worker, run[w].pc = "wait", "skipThumbnail" \notin Settings(w),
                      NEW u \in Secure, run[w].media[u] = "sized"
               PROVE  \E q \in tasks' : q.worker = w /\ q.uri = u /\ ~q.abandoned
    BY <1>8 DEF WaitingInv
  <2>1. PICK q \in tasks : q.worker = w /\ q.uri = u /\ ~q.abandoned
    BY DEF IInv, WaitingInv
  <2>2. CASE q = t
    BY <1>2, <1>3, <2>1, <2>2
  <2>3. CASE q # t
    BY <1>3, <2>1, <2>3
  <2> QED  BY <2>2, <2>3
<1>10. AckMeansThumbnails'
  BY <1>8 DEF IInv, AckMeansThumbnails, StoresMove
<1> QED  BY <1>4, <1>5, <1>6, <1>7, <1>9, <1>10 DEF IInv, StoresMove

LEMMA CallKey == ASSUME NEW t \in Task PROVE <<"thumbnail", t.uri>> \in Key
BY DEF Task, Key

LEMMA TaskSteps == ASSUME IInv, NEW t \in tasks, TaskStep(t) PROVE IInv'
<1>0. t \in Task /\ StoreType
  BY TypeParts DEF IInv
<1>1. CASE TryThumbnail(t)
  <2>1. UNCHANGED <<chainVars, storeVars, jobs, run>>
    BY <1>1 DEF TryThumbnail
  <2>2. StoresMove
    BY <2>1, TypeParts, StoresStay DEF IInv, ChainType, chainVars
  <2>3. CASE t.uri \notin Secure /\ Goes(t, "done")
    BY <2>1, <2>2, <2>3, CallMoves
  <2>4. CASE Goes(t, "skipped")
    BY <2>1, <2>2, <2>4, CallMoves
  <2>5. CASE Goes(t, "lock")
    BY <2>1, <2>2, <2>5, CallMoves
  <2> QED  BY <1>1, <2>3, <2>4, <2>5 DEF TryThumbnail
<1>2. CASE LockThumbnail(t)
  <2>1. UNCHANGED <<chainVars, db, copies, assets, thumbs, jobs, run>> /\ Goes(t, "fetch")
    BY <1>2 DEF LockThumbnail
  <2>2. busy' \subseteq Key
    BY <1>0, <1>2, CallKey DEF LockThumbnail, StoreType
  <2>3. StoresMove
    BY <1>0, <2>1, <2>2, KeysMove DEF StoreType
  <2> QED  BY <2>1, <2>3, CallMoves
<1>3. CASE FetchThumbnail(t)
  <2>1. UNCHANGED <<chainVars, db, copies, assets, thumbs, jobs, run>> /\ busy' \subseteq busy
    BY <1>3 DEF FetchThumbnail
  <2>2. StoresMove
    BY <1>0, <2>1, KeysMove DEF StoreType
  <2>3. CASE Goes(t, "make")
    BY <2>1, <2>2, <2>3, CallMoves
  <2>4. CASE Goes(t, "failed")
    BY <2>1, <2>2, <2>4, CallMoves
  <2> QED  BY <1>3, <2>3, <2>4 DEF FetchThumbnail
<1>4. CASE MakeThumbnail(t)
  <2>1. UNCHANGED <<chainVars, db, copies, busy, assets, jobs, run>>
    BY <1>4 DEF MakeThumbnail
  <2>2. thumbs' \subseteq Uri /\ thumbs \subseteq thumbs'
    BY <1>0, <1>4 DEF MakeThumbnail, StoreType, Task
  <2>3. StoresMove
    BY <1>0, <2>1, <2>2, KeysMove DEF StoreType
  <2>4. CASE Goes(t, "done") /\ t.uri \in thumbs'
    BY <2>1, <2>3, <2>4, CallMoves
  <2>5. CASE Goes(t, "failed")
    BY <2>1, <2>3, <2>5, CallMoves
  <2>6. CASE Goes(t, "hung")
    BY <2>1, <2>3, <2>6, CallMoves
  <2> QED  BY <1>4, <2>4, <2>5, <2>6 DEF MakeThumbnail
<1> QED  BY <1>1, <1>2, <1>3, <1>4 DEF TaskStep

LEMMA RetryStep == ASSUME IInv, NEW j \in Job, Retry(j) PROVE IInv'
<1>1. /\ jobs[j].where = "retry" /\ jobs \in [Job -> JobState] /\ RetryLimit \in Nat
      /\ UNCHANGED <<chainVars, storeVars, run, tasks>>
  BY NftAssumption DEF Retry, IInv, TypeOK
<1>2. jobs[j] \in JobState /\ jobs[j].attempt \in 0..RetryLimit /\ jobs[j].attempt < RetryLimit
  BY <1>1 DEF IInv, JobsInv, JobState
<1> DEFINE m == [jobs[j] EXCEPT !.where = "queue", !.attempt = jobs[j].attempt + 1]
<1>3. m \in JobState /\ m.where = "queue"
  <2>1. jobs[j].attempt + 1 \in 0..RetryLimit /\ "queue" \in {"free", "queue", "worker", "retry"}
    BY <1>1, <1>2
  <2> QED  BY <1>2, <2>1 DEF JobState
<1>4. jobs' = [jobs EXCEPT ![j] = m]
  BY <1>1, <1>2 DEF Retry, JobState
<1> HIDE DEF m
<1>5. JobsKept
  BY <1>1, <1>3, <1>4 DEF IInv, JobsInv, JobsKept
<1> QED  BY <1>1, <1>5, StoresStay, WorkersStay, TypeParts DEF IInv, ChainType, chainVars

LEMMA ExpireKeyStep == ASSUME IInv, ExpireKey PROVE IInv'
<1>1. UNCHANGED <<chainVars, db, copies, assets, thumbs, jobs, run, tasks>> /\ busy' \subseteq busy
  BY DEF ExpireKey
<1>2. StoresMove
  BY <1>1, TypeParts, KeysMove DEF IInv, StoreType
<1> QED  BY <1>1, <1>2, JobsStay, WorkersStay

----------------------------------------------------------------------------
(* The theorems *)

LEMMA RunSteps == ASSUME IInv, NEW w \in Worker, RunStep(w) PROVE IInv'
<1>1. CASE GetSingleNft(w)
  <2>1. CASE Reject(w)
    BY <1>1, <2>1, RejectStep DEF GetSingleNft, Moving
  <2>2. ASSUME indexed > 0, NEW v \in {indexed, version},
               Becomes(w, [run[w] EXCEPT !.pc = "read", !.version = v]),
               UNCHANGED <<chainVars, storeVars, jobs, tasks>>
        PROVE  IInv'
    BY <1>1, <2>2, GetSingleNftMoves DEF GetSingleNft
  <2> QED  BY <1>1, <2>1, <2>2 DEF GetSingleNft
<1>2. CASE ReadMetadata(w) \/ ReadMedia(w)
  BY <1>2, ReadMetadataStep, ReadMediaStep
<1>3. CASE TryKey(w) \/ SetKey(w)
  BY <1>3, TryKeyStep, SetKeyStep
<1>4. CASE FetchMetadata(w) \/ FetchMedia(w) \/ FetchAsset(w)
  BY <1>4, FetchMetadataStep, FetchMediaStep, FetchAssetStep
<1>5. CASE FindRecord(w) \/ SaveRecord(w) \/ CacheRecord(w)
  BY <1>5, FindRecordStep, SaveRecordStep, CacheRecordStep
<1>6. CASE StartThumbnails(w) \/ ThumbnailsEnd(w) \/ Ack(w)
  BY <1>6, StartThumbnailsStep, ThumbnailsEndStep, AckStep
<1> QED  BY <1>1, <1>2, <1>3, <1>4, <1>5, <1>6 DEF RunStep

LEMMA StutterStep == ASSUME IInv, UNCHANGED vars PROVE IInv'
<1>1. ChainType' /\ UNCHANGED <<storeVars, jobs, run, tasks>>
  BY TypeParts DEF IInv, ChainType, chainVars, vars
<1> QED  BY <1>1, StoresStay, JobsStay, WorkersStay

\* The inductive invariant of the NFT's processing is kept by every step.
THEOREM StepIInv == IInv /\ [Next]_vars => IInv'
<1> SUFFICES ASSUME IInv, [Next]_vars PROVE IInv'
  OBVIOUS
<1>1. CASE SetAttributes \/ IndexNft \/ DayPasses
  BY <1>1, ChainSteps
<1>2. CASE HandleNftCreateEvent \/ HandleNftUpdateAttributesEvent
  BY <1>2, EventSteps
<1>3. CASE \/ Process \/ TriggerProcessFailedMetadata
           \/ TriggerProcessNftsForLast24Hours \/ TriggerProcessNftsForLastYear
  BY <1>3, TriggerSteps
<1>4. ASSUME NEW w \in Worker,
             (\E j \in Job : Receive(w, j)) \/ RunStep(w) \/ Fault(w) \/ Crash(w)
      PROVE  IInv'
  BY <1>4, ReceiveStep, RunSteps, FaultStep, CrashStep
<1>5. CASE \E t \in tasks : TaskStep(t)
  BY <1>5, TaskSteps
<1>6. CASE (\E j \in Job : Retry(j)) \/ ExpireKey
  BY <1>6, RetryStep, ExpireKeyStep
<1>7. CASE UNCHANGED vars
  BY <1>7, StutterStep
<1> QED  BY <1>1, <1>2, <1>3, <1>4, <1>5, <1>6, <1>7 DEF Next

\* It holds in every state, with crashes, faults and keys that expire.
THEOREM Invariance == Spec => []IInv
<1>1. Init => IInv
  BY InitIInv
<1>2. IInv /\ [Next]_vars => IInv'
  BY StepIInv
<1> QED  BY <1>1, <1>2, PTL DEF Spec

\* The variables keep their types: a message is not retried past its limit, and
\* the database and the caches hold what the fetches can end in.
THEOREM TypeCorrect == Spec => []TypeOK
<1>1. IInv => TypeOK
  BY DEF IInv
<1> QED  BY <1>1, Invariance, PTL

\* A message is acknowledged only when the NFT's metadata, and its media if it has
\* media files, are stored, although the run may only have looked at caches that
\* other runs fill, or lost the insert to another run (onNftCreated).
THEOREM AckStored == Spec => []AckMeansStored
<1>1. ASSUME IInv, NEW w \in Worker, run[w].pc = "ack"
      PROVE  db["metadata"] # None /\ (Uri # {} => db["media"] # None)
  <2>1. RunInv(run[w], db)
    BY <1>1 DEF IInv, RunsInv
  <2>2. run[w].phase \in {"metadata", "media", "asset"}
    BY <2>1 DEF RunInv, Run
  <2> QED  BY <1>1, <2>1, <2>2 DEF RunInv, StoredBefore, MetadataRun, MediaRun
<1>2. IInv => AckMeansStored
  BY <1>1 DEF AckMeansStored
<1> QED  BY <1>2, Invariance, PTL

\* A message is acknowledged only when each item of the run has its thumbnail in
\* S3, or a call that found another one busy left it out (generateThumbnail).
THEOREM AckThumbnails == Spec => []AckMeansThumbnails
<1>1. IInv => AckMeansThumbnails
  BY DEF IInv
<1> QED  BY <1>1, Invariance, PTL

=============================================================================
