--------------------------- MODULE NftProcessing ---------------------------
(***************************************************************************)
(* The processing of one NFT: notifier events, the NFT cron and the        *)
(* /nfts/process endpoints put jobs in the queue api-process-nfts; queue   *)
(* workers fetch its metadata and media, upload its assets and generate    *)
(* its thumbnails; a job that fails is retried through a dead-letter       *)
(* exchange until it reached the retry limit.                              *)
(*                                                                         *)
(* A step of a worker is the code between two awaits.  Fetches from the    *)
(* network are guarded by executeOptimistic: a key in Redis says that      *)
(* another run is busy with the same resource.  The key is looked up and   *)
(* set by two calls, and stays (12 hours) when the guarded call throws.    *)
(***************************************************************************)
EXTENDS Naturals, FiniteSets

CONSTANTS
    Uri,          \* the media files of the NFT
    Secure,       \* those whose url starts with https
    Audio,        \* those that are audio files
    Worker,       \* the runs of onNftCreated that can overlap
    Job,          \* the messages that can be in flight together (a bound)
    RetryLimit,   \* nftProcess.maxRetries
    MaxVersion,   \* how often the NFT's attributes are set (a bound)
    Linked,       \* versions of the attributes that name a metadata file
    FetchError,   \* the errors a metadata fetch can end in
    Requested,    \* the settings that /nfts/process is called with
    None,         \* null or undefined
    DefaultMedia, \* the placeholder that getNfts and getSingleNft put for no media
    CronActive,   \* the flag flags.processNfts, which the NFT cron looks at
    Expiry,       \* TRUE: the keys of executeOptimistic can expire
    Faults        \* TRUE: Redis and Mongo calls can fail and workers crash

ASSUME NftAssumption ==
    /\ Secure \subseteq Uri /\ Audio \subseteq Uri
    /\ RetryLimit \in Nat /\ MaxVersion \in Nat /\ Linked \subseteq 1..MaxVersion
    /\ FetchError \subseteq {"retryable", "failed"}
    /\ Faults \in BOOLEAN /\ Expiry \in BOOLEAN /\ CronActive \in BOOLEAN

Flag == {"forceMedia", "forceMetadata", "forceThumbnail", "skipThumbnail", "uploadAsset"}
ASSUME RequestAssumption == Requested \subseteq SUBSET Flag

----------------------------------------------------------------------------
(* Data *)

\* Metadata: the content that a version of the attributes links to; an error
\* with a retryable code (not_found, timeout) or with another one; or {}.
Metadata == [kind : {"content", "retryable", "failed", "empty"}, version : 0..MaxVersion]
Empty == [kind |-> "empty", version |-> 0]

\* Media: for each uri, no item, an item that gets a thumbnail, or one that is
\* too large and has the default thumbnail url.
Media == [Uri -> {"absent", "sized", "large"}]
NoItems == [u \in Uri |-> "absent"]
Items(media) == {u \in DOMAIN media : media[u] # "absent"}

Kind == {"metadata", "media"}
Value(kind) == IF kind = "metadata" THEN Metadata ELSE Media

ASSUME NullAssumption == None \notin Metadata \cup Media \cup Uri \cup Job

\* The keys of executeOptimistic.
Key == ({"metadata"} \X {None}) \cup ({"media", "asset", "thumbnail"} \X Uri)

PC == {"idle", "nft", "read", "try", "lock", "fetch", "find", "save", "cache", "wait", "ack"}

Run == [pc : PC,
        job : Job \cup {None},
        version : 0..MaxVersion,             \* of the attributes that were read
        phase : {"metadata", "media", "asset"},
        left : SUBSET (Uri \cup {None}),     \* still to fetch; at "ack": thumbnails left out
        uri : Uri \cup {None},               \* being fetched
        metadata : Metadata \cup {None},
        media : Media \cup {None},
        found : BOOLEAN]                     \* the database had a record

Idle == [pc |-> "idle", job |-> None, version |-> 0, phase |-> "metadata", left |-> {},
         uri |-> None, metadata |-> None, media |-> None, found |-> FALSE]

\* A generateThumbnail call; it is abandoned when its run ended by a reject.
Task == [worker : Worker, uri : Uri, force : BOOLEAN, abandoned : BOOLEAN,
         pc : {"try", "lock", "fetch", "make", "hung", "done", "skipped", "failed"}]

VARIABLES
    version,   \* the latest version of the attributes on chain
    indexed,   \* the version in the index; 0: the NFT is not there yet
    events,    \* notifier events on their way
    recent,    \* the NFT was minted in the last 24 hours
    jobs,      \* the messages
    db,        \* Mongo: db.metadata, db.media
    copies,    \* the values put in a cache, which some cache can still answer
    busy,      \* Redis: the keys of executeOptimistic
    assets,    \* S3: uploaded assets
    thumbs,    \* S3: generated thumbnails
    run,       \* the workers
    tasks      \* the generateThumbnail calls of the workers

chainVars == <<version, indexed, events, recent>>
storeVars == <<db, copies, busy, assets, thumbs>>
vars == <<chainVars, storeVars, jobs, run, tasks>>

JobState == [where : {"free", "queue", "worker", "retry"}, settings : SUBSET Flag,
             attempt : 0..RetryLimit,       \* its x-death count
             event : 0..MaxVersion]         \* history: the update event it was sent for

TypeOK ==
    /\ version \in 0..MaxVersion /\ indexed \in 0..version
    /\ events \subseteq {"create", "update"} \X (1..MaxVersion)
    /\ recent \in BOOLEAN
    /\ jobs \in [Job -> JobState]
    /\ DOMAIN db = Kind /\ DOMAIN copies = Kind
    /\ \A k \in Kind : db[k] \in Value(k) \cup {None}
    /\ \A k \in Kind : copies[k] \subseteq Value(k) \cup {None}
    /\ busy \subseteq Key
    /\ assets \subseteq Uri /\ thumbs \subseteq Uri
    /\ run \in [Worker -> Run]
    /\ tasks \subseteq Task

Free == [where |-> "free", settings |-> {}, attempt |-> 0, event |-> 0]

Init ==
    /\ version = 0 /\ indexed = 0 /\ events = {} /\ recent = TRUE
    /\ jobs = [j \in Job |-> Free]
    /\ db = [k \in Kind |-> None]
    /\ copies = [k \in Kind |-> {}]
    /\ busy = {} /\ assets = {} /\ thumbs = {}
    /\ run = [w \in Worker |-> Idle]
    /\ tasks = {}

\* What getOrSetCache can answer: a value some cache holds, or the database's.
Answers(k) == copies[k] \cup {db[k]}

----------------------------------------------------------------------------
(* The chain, its index and the notifier *)

\* The NFT is minted, or its attributes are updated.
SetAttributes ==
    /\ version < MaxVersion
    /\ version' = version + 1
    /\ events' = events \cup {<<IF version = 0 THEN "create" ELSE "update", version + 1>>}
    /\ UNCHANGED <<indexed, recent, storeVars, jobs, run, tasks>>

IndexNft ==
    /\ indexed < version
    /\ indexed' = version
    /\ UNCHANGED <<version, events, recent, storeVars, jobs, run, tasks>>

DayPasses ==
    /\ CronActive /\ indexed > 0 /\ recent
    /\ recent' = FALSE
    /\ UNCHANGED <<version, indexed, events, storeVars, jobs, run, tasks>>

----------------------------------------------------------------------------
(* Who sends jobs *)

FreeJobs == {j \in Job : jobs[j].where = "free"}

\* One message for each of the settings in S.
Send(S, event) ==
    \E f \in [S -> FreeJobs] :
        /\ \A s, u \in S : f[s] = f[u] => s = u
        /\ jobs' = [j \in Job |->
              IF \E s \in S : f[s] = j
                THEN [where |-> "queue", settings |-> CHOOSE s \in S : f[s] = j,
                      attempt |-> 0, event |-> event]
                ELSE jobs[j]]

Forces(settings) == settings \cap {"forceMedia", "forceMetadata", "forceThumbnail"} # {}

\* The media of an NFT as getNfts and getSingleNft answer it: never empty.
Shown(media) ==
    IF media = None \/ media = NoItems THEN DefaultMedia ELSE media

\* hasThumbnailGenerated for each item; there is no thumbnail of the placeholder.
HasThumbnails(media) ==
    media = None \/ (media # DefaultMedia /\ Items(media) \subseteq thumbs)

\* needsProcessing for an NFT with metadata m and media c.
NeedsProcessing(settings, m, c) ==
    \/ Forces(settings)
    \/ db["media"] = None
    \/ m = None
    \/ "skipThumbnail" \notin settings /\ ~HasThumbnails(c)
    \/ "uploadAsset" \in settings /\ ~(Items(db["media"]) \subseteq assets)

\* addProcessNftQueueJob: the NFT's metadata and media are read again.
AddProcessNftQueueJob(settings, event) ==
    \E m \in Answers("metadata"), c \in Answers("media") :
        Send(IF NeedsProcessing(settings, m, c) THEN {settings} ELSE {}, event)

\* handleNftCreateEvent: five seconds later the NFT is indexed, or given up.
HandleNftCreateEvent ==
    \E e \in events :
        /\ e[1] = "create"
        /\ events' = events \ {e}
        /\ \/ indexed = 0 /\ UNCHANGED jobs
           \/ /\ indexed > 0
              /\ \E m \in Answers("metadata"), c \in Answers("media") :
                    IF NeedsProcessing({}, m, Shown(c))
                      THEN AddProcessNftQueueJob({"uploadAsset"}, 0)
                      ELSE UNCHANGED jobs
        /\ UNCHANGED <<version, indexed, recent, storeVars, run, tasks>>

\* handleNftUpdateAttributesEvent: the job names the NFT, not its attributes.
HandleNftUpdateAttributesEvent ==
    \E e \in events :
        /\ e[1] = "update"
        /\ events' = events \ {e}
        /\ \/ indexed = 0 /\ UNCHANGED jobs
           \/ indexed > 0 /\ AddProcessNftQueueJob({"forceMetadata"}, e[2])
        /\ UNCHANGED <<version, indexed, recent, storeVars, run, tasks>>

\* POST /nfts/process.
Process ==
    /\ indexed > 0
    /\ \E s \in Requested : AddProcessNftQueueJob(s, 0)
    /\ UNCHANGED <<chainVars, storeVars, run, tasks>>

NeedsMetadataRefresh(m) ==
    /\ indexed \in Linked
    /\ m = None \/ m.kind \in {"empty", "retryable"}

NeedsMediaRefresh(c) == Uri # {} /\ (c = None \/ c = NoItems)
NeedsMetadataFetch(m) == m = None /\ indexed \in Linked
NeedsMediaFetch(c) == Uri # {} /\ c = None

Cron == CronActive /\ indexed > 0 /\ UNCHANGED <<chainVars, storeVars, run, tasks>>

TriggerProcessFailedMetadata ==
    /\ Cron /\ recent
    /\ \E m \in Answers("metadata") :
          Send(IF NeedsMetadataRefresh(m) THEN {{"forceMetadata"}} ELSE {}, 0)

\* Each addProcessNftQueueJob replaces the listed metadata and media of the NFT
\* by those it reads itself, which the checks after it look at.
TriggerProcessNftsForLast24Hours ==
    LET Reread(needed, kind, old) == IF needed THEN Answers(kind) ELSE {old} IN
    /\ Cron /\ recent
    /\ \E m0 \in Answers("metadata"), c0 \in Answers("media") :
       LET upload == NeedsProcessing({"uploadAsset"}, m0, Shown(c0)) IN
       \E m1 \in Reread(upload, "metadata", m0), c1 \in Reread(upload, "media", Shown(c0)) :
       \E c2 \in Reread(NeedsMetadataRefresh(m1), "media", c1) :
          Send({s \in {{"uploadAsset"}, {"forceMetadata"}, {"forceMedia"}} :
                  \/ s = {"uploadAsset"} /\ upload /\ NeedsProcessing(s, m1, c1)
                  \/ s = {"forceMetadata"} /\ NeedsMetadataRefresh(m1)
                  \/ s = {"forceMedia"} /\ NeedsMediaRefresh(c2)}, 0)

TriggerProcessNftsForLastYear ==
    /\ Cron
    /\ \E m \in Answers("metadata"), c \in Answers("media") :
          IF NeedsMediaFetch(Shown(c)) \/ NeedsMetadataFetch(m)
            THEN AddProcessNftQueueJob({}, 0)
            ELSE UNCHANGED jobs

----------------------------------------------------------------------------
(* The queue worker: onNftCreated *)

Becomes(w, r) == run' = [run EXCEPT ![w] = r]

\* Mutant: one retry too many.
RetriesSpentLate(job) == job.attempt > RetryLimit

\* Mutant: the x-death count is not found among the message's headers.
RetriesSpentNever(job) == RetryLimit = 0

RetriesSpent(job) == job.attempt >= RetryLimit

\* The message is taken from the queue, or dropped at the retry limit.
Receive(w, j) ==
    /\ run[w].pc = "idle" /\ jobs[j].where = "queue"
    /\ \/ /\ RetriesSpent(jobs[j])
          /\ jobs' = [jobs EXCEPT ![j] = Free]
          /\ UNCHANGED run
       \/ /\ ~RetriesSpent(jobs[j])
          /\ jobs' = [jobs EXCEPT ![j].where = "worker"]
          /\ Becomes(w, [Idle EXCEPT !.pc = "nft", !.job = j])
    /\ UNCHANGED <<chainVars, storeVars, tasks>>

\* channel.reject: the run is over, its thumbnail tasks go on without it.
Reject(w) ==
    /\ Becomes(w, Idle)
    /\ jobs' = [jobs EXCEPT ![run[w].job].where = "retry"]
    /\ tasks' = {t \in tasks : t.worker # w \/ t.abandoned}
                  \cup {[t EXCEPT !.abandoned = TRUE] :
                          t \in {u \in tasks : u.worker = w /\ u.pc \notin {"done", "skipped", "failed"}}}
    /\ UNCHANGED <<chainVars, storeVars>>

\* getSingleNft: the attributes come from the index, or, for an NFT whose owner
\* is known, from the owner's account.
GetSingleNft(w) ==
    /\ run[w].pc = "nft"
    /\ \/ indexed = 0 /\ Reject(w)
       \/ /\ indexed > 0
          /\ \E v \in {indexed, version} :
                Becomes(w, [run[w] EXCEPT !.pc = "read", !.version = v])
          /\ UNCHANGED <<chainVars, storeVars, jobs, tasks>>

Settings(w) == jobs[run[w].job].settings

StartMetadata(r) == [r EXCEPT !.pc = "try", !.left = {None}, !.metadata = Empty]
StartMedia(r) ==
    IF Uri = {} THEN [r EXCEPT !.pc = "wait", !.media = None]
    ELSE [r EXCEPT !.pc = "try", !.left = Uri, !.media = NoItems]

\* The run goes on to the media; it does not look at the metadata again.
MetadataEnds(r) == [r EXCEPT !.pc = "read", !.phase = "media",
                             !.version = 0, !.metadata = None, !.found = FALSE]

\* With its media at hand, the run goes on to the assets, then the thumbnails.
StartAssets(w, r) ==
    [r EXCEPT !.pc = "try", !.phase = "asset", !.found = FALSE,
              !.left = IF "uploadAsset" \in Settings(w) THEN Items(r.media) ELSE {}]

\* getMetadata, then getMedia, and the decision to refresh what they answer.
\* A value read from the database is kept in the caches.
ReadMetadata(w) ==
    LET r == run[w] IN
    /\ r.pc = "read" /\ r.phase = "metadata"
    /\ \E m \in Answers("metadata") :
          /\ copies' = [copies EXCEPT !["metadata"] = @ \cup {m}]
          /\ Becomes(w, IF m = None \/ "forceMetadata" \in Settings(w)
                          THEN StartMetadata(r)
                          ELSE MetadataEnds(r))
    /\ UNCHANGED <<chainVars, db, busy, assets, thumbs, jobs, tasks>>

ReadMedia(w) ==
    LET r == run[w] IN
    /\ r.pc = "read" /\ r.phase = "media"
    /\ \E c \in Answers("media") :
          /\ copies' = [copies EXCEPT !["media"] = @ \cup {c}]
          /\ Becomes(w, IF c = None \/ "forceMedia" \in Settings(w)
                          THEN StartMedia(r)
                          ELSE StartAssets(w, [r EXCEPT !.media = c]))
    /\ UNCHANGED <<chainVars, db, busy, assets, thumbs, jobs, tasks>>

\* executeOptimistic looks up its key: the resource is left out when another run
\* is busy with it.  An uploaded asset needs no run at all.
TryKey(w) ==
    LET r == run[w] IN
    /\ r.pc = "try"
    /\ \E u \in r.left :
          \/ /\ <<r.phase, u>> \in busy \/ (r.phase = "asset" /\ u \in assets)
             /\ Becomes(w, [r EXCEPT !.left = @ \ {u}])
          \/ /\ <<r.phase, u>> \notin busy
             /\ Becomes(w, [r EXCEPT !.pc = "lock", !.uri = u])
    /\ UNCHANGED <<chainVars, storeVars, jobs, tasks>>

\* ... and sets it.
SetKey(w) ==
    LET r == run[w] IN
    /\ r.pc = "lock"
    /\ busy' = busy \cup {<<r.phase, r.uri>>}
    /\ Becomes(w, [r EXCEPT !.pc = "fetch"])
    /\ UNCHANGED <<chainVars, db, copies, assets, thumbs, jobs, tasks>>

\* A guarded call that returns deletes its key; one that throws keeps it.
Unlocked(w) == busy' = busy \ {<<run[w].phase, run[w].uri>>}
Fetched(r) == [r EXCEPT !.pc = "try", !.left = @ \ {r.uri}, !.uri = None]

Contents(v) ==
    {Empty} \cup (IF v \in Linked
                   THEN {[kind |-> "content", version |-> v]}
                          \cup [kind : FetchError, version : {0}]
                   ELSE {})

FetchMetadata(w) ==
    LET r == run[w] IN
    /\ r.pc = "fetch" /\ r.phase = "metadata"
    /\ Unlocked(w)
    /\ \E m \in Contents(r.version) : Becomes(w, [Fetched(r) EXCEPT !.metadata = m])
    /\ UNCHANGED <<chainVars, db, copies, assets, thumbs, jobs, tasks>>

\* The HEAD request for a media file; its error leaves the file out.
FetchMedia(w) ==
    LET r == run[w] IN
    /\ r.pc = "fetch" /\ r.phase = "media"
    /\ \/ /\ Unlocked(w)
          /\ \E o \in {"absent", "sized", "large"} :
                Becomes(w, [Fetched(r) EXCEPT !.media[r.uri] = o])
       \/ UNCHANGED busy /\ Becomes(w, Fetched(r))
    /\ UNCHANGED <<chainVars, db, copies, assets, thumbs, jobs, tasks>>

\* The download of an asset and its upload to S3, whose errors are only logged.
FetchAsset(w) ==
    LET r == run[w] IN
    /\ r.pc = "fetch" /\ r.phase = "asset"
    /\ \/ Unlocked(w) /\ assets' \in {assets, assets \cup {r.uri}}
       \/ UNCHANGED <<busy, assets>>
    /\ Becomes(w, Fetched(r))
    /\ UNCHANGED <<chainVars, db, copies, thumbs, jobs, tasks>>

\* refreshMetadata and refreshMedia store what was fetched: setMetadata looks for
\* a record, and saves over it or inserts one; an insert that finds another
\* run's record fails, which save swallows.
Fetching(w, kind) == run[w].pc = "try" /\ run[w].phase = kind /\ run[w].left = {}

FindRecord(w) ==
    LET r == run[w] IN
    /\ r.phase \in Kind /\ Fetching(w, r.phase)
    /\ Becomes(w, [r EXCEPT !.pc = "save", !.found = (db[r.phase] # None)])
    /\ UNCHANGED <<chainVars, storeVars, jobs, tasks>>

\* Mutant: an empty result is not worth a record.
SaveRecordUnlessEmpty(w) ==
    LET r == run[w] IN
    /\ r.pc = "save"
    /\ db' = IF r[r.phase] # Empty /\ (r.found \/ db[r.phase] = None)
               THEN [db EXCEPT ![r.phase] = r[r.phase]] ELSE db
    /\ Becomes(w, [r EXCEPT !.pc = "cache"])
    /\ UNCHANGED <<chainVars, copies, busy, assets, thumbs, jobs, tasks>>

SaveRecord(w) ==
    LET r == run[w] IN
    /\ r.pc = "save"
    /\ db' = IF r.found \/ db[r.phase] = None
               THEN [db EXCEPT ![r.phase] = r[r.phase]] ELSE db
    /\ Becomes(w, [r EXCEPT !.pc = "cache"])
    /\ UNCHANGED <<chainVars, copies, busy, assets, thumbs, jobs, tasks>>

\* setCache and the refreshCacheKey event.
CacheRecord(w) ==
    LET r == run[w] IN
    /\ r.pc = "cache"
    /\ copies' = [copies EXCEPT ![r.phase] = @ \cup {r[r.phase]}]
    /\ Becomes(w, IF r.phase = "metadata" THEN MetadataEnds(r) ELSE StartAssets(w, r))
    /\ UNCHANGED <<chainVars, db, busy, assets, thumbs, jobs, tasks>>

\* One generateThumbnail for each item that gets a thumbnail, all at once.
StartThumbnails(w) ==
    LET r == run[w] IN
    /\ Fetching(w, "asset")
    /\ tasks' = tasks \cup
          {[worker |-> w, uri |-> u, force |-> "forceThumbnail" \in Settings(w),
            abandoned |-> FALSE, pc |-> "try"] :
           u \in {v \in Uri : "skipThumbnail" \notin Settings(w) /\ r.media[v] = "sized"}}
    /\ Becomes(w, [r EXCEPT !.pc = "wait"])
    /\ UNCHANGED <<chainVars, storeVars, jobs>>

Tasks(w) == {t \in tasks : t.worker = w /\ ~t.abandoned}

\* Mutant: Promise.allSettled: the calls ended, whichever way.
ThumbnailsSettled(w) ==
    /\ run[w].pc = "wait"
    /\ \A t \in Tasks(w) : t.pc \in {"done", "skipped", "failed"}
    /\ Becomes(w, [run[w] EXCEPT !.pc = "ack",
                     !.left = {t.uri : t \in {u \in Tasks(w) : u.pc = "skipped"}}])
    /\ tasks' = tasks \ Tasks(w)
    /\ UNCHANGED <<chainVars, storeVars, jobs>>

\* Promise.all: every call returned, or one threw.
ThumbnailsEnd(w) ==
    /\ run[w].pc = "wait"
    /\ \/ /\ \A t \in Tasks(w) : t.pc \in {"done", "skipped"}
          /\ Becomes(w, [run[w] EXCEPT !.pc = "ack",
                           !.left = {t.uri : t \in {u \in Tasks(w) : u.pc = "skipped"}}])
          /\ tasks' = tasks \ Tasks(w)
          /\ UNCHANGED <<chainVars, storeVars, jobs>>
       \/ (\E t \in Tasks(w) : t.pc = "failed") /\ Reject(w)

Ack(w) ==
    /\ run[w].pc = "ack"
    /\ jobs' = [jobs EXCEPT ![run[w].job] = Free]
    /\ Becomes(w, Idle)
    /\ UNCHANGED <<chainVars, storeVars, tasks>>

RunStep(w) ==
    \/ GetSingleNft(w) \/ ReadMetadata(w) \/ ReadMedia(w)
    \/ TryKey(w) \/ SetKey(w) \/ FetchMetadata(w) \/ FetchMedia(w) \/ FetchAsset(w)
    \/ FindRecord(w) \/ SaveRecord(w) \/ CacheRecord(w)
    \/ StartThumbnails(w) \/ ThumbnailsEnd(w) \/ Ack(w)

----------------------------------------------------------------------------
(* generateThumbnail *)

\* An abandoned call leaves no trace when it ends.
Goes(t, pc) ==
    tasks' = (tasks \ {t}) \cup
        (IF t.abandoned /\ pc \in {"done", "skipped", "failed"} THEN {}
         ELSE {[t EXCEPT !.pc = pc]})

\* There is nothing to do for a url without https, or while another call is busy.
TryThumbnail(t) ==
    /\ t.pc = "try"
    /\ \/ t.uri \notin Secure /\ Goes(t, "done")
       \/ t.uri \in Secure /\ <<"thumbnail", t.uri>> \in busy /\ Goes(t, "skipped")
       \/ t.uri \in Secure /\ <<"thumbnail", t.uri>> \notin busy /\ Goes(t, "lock")
    /\ UNCHANGED <<chainVars, storeVars, jobs, run>>

LockThumbnail(t) ==
    /\ t.pc = "lock"
    /\ busy' = busy \cup {<<"thumbnail", t.uri>>}
    /\ Goes(t, "fetch")
    /\ UNCHANGED <<chainVars, db, copies, assets, thumbs, jobs, run>>

\* The download of the media file; its error is thrown.
FetchThumbnail(t) ==
    /\ t.pc = "fetch"
    /\ \/ busy' = busy \ {<<"thumbnail", t.uri>>} /\ Goes(t, "make")
       \/ UNCHANGED busy /\ Goes(t, "failed")
    /\ UNCHANGED <<chainVars, db, copies, assets, thumbs, jobs, run>>

\* A thumbnail that exists is kept unless forced; one that cannot be extracted or
\* uploaded throws; ffmpeg's error for an audio file is never waited for.
MakeThumbnail(t) ==
    /\ t.pc = "make"
    /\ \/ /\ ~t.force /\ t.uri \in thumbs
          /\ Goes(t, "done") /\ UNCHANGED thumbs
       \/ thumbs' = thumbs \cup {t.uri} /\ Goes(t, "done")
       \/ UNCHANGED thumbs /\ Goes(t, "failed")
       \/ t.uri \in Audio /\ UNCHANGED thumbs /\ Goes(t, "hung")
    /\ UNCHANGED <<chainVars, db, copies, busy, assets, jobs, run>>

TaskStep(t) == TryThumbnail(t) \/ LockThumbnail(t) \/ FetchThumbnail(t) \/ MakeThumbnail(t)

----------------------------------------------------------------------------
(* The queue, time and failures *)

\* The dead-letter exchange brings a rejected message back, one x-death later
\* (not counted further than one past the limit).
Retry(j) ==
    /\ jobs[j].where = "retry"
    /\ jobs' = [jobs EXCEPT ![j].where = "queue",
                            ![j].attempt = IF @ > RetryLimit THEN @ ELSE @ + 1]
    /\ UNCHANGED <<chainVars, storeVars, run, tasks>>

\* The time-to-live of a key of executeOptimistic.
ExpireKey ==
    /\ Expiry
    /\ \E k \in busy : busy' = busy \ {k}
    /\ UNCHANGED <<chainVars, db, copies, assets, thumbs, jobs, run, tasks>>

\* An error of Redis, Mongo or the index rejects the message, but costs a media
\* file or an asset only itself.
Fault(w) ==
    LET r == run[w]
        file == r.phase \in {"media", "asset"} /\ r.pc \in {"lock", "fetch"}
    IN
    /\ Faults /\ r.pc \notin {"idle", "wait", "ack"}
    /\ \/ ~file /\ Reject(w)
       \/ /\ file /\ Becomes(w, Fetched(r))
          /\ UNCHANGED <<chainVars, storeVars, jobs, tasks>>

\* The worker's process ends: the message goes back, without an x-death.
Crash(w) ==
    /\ Faults /\ run[w].pc # "idle"
    /\ Becomes(w, Idle)
    /\ jobs' = [jobs EXCEPT ![run[w].job].where = "queue"]
    /\ tasks' = {t \in tasks : t.worker # w}
    /\ UNCHANGED <<chainVars, storeVars>>

Next ==
    \/ SetAttributes \/ IndexNft \/ DayPasses
    \/ HandleNftCreateEvent \/ HandleNftUpdateAttributesEvent \/ Process
    \/ TriggerProcessFailedMetadata \/ TriggerProcessNftsForLast24Hours
    \/ TriggerProcessNftsForLastYear
    \/ \E w \in Worker : (\E j \in Job : Receive(w, j)) \/ RunStep(w) \/ Fault(w) \/ Crash(w)
    \/ \E t \in tasks : TaskStep(t)
    \/ \E j \in Job : Retry(j)
    \/ ExpireKey

Spec == Init /\ [][Next]_vars

----------------------------------------------------------------------------
(* Properties *)

\* A message is acknowledged as processed only when the NFT has a metadata record
\* in the database and, if it has media files, a media record, although the run
\* only looked at caches that other runs fill, and an insert that failed as a
\* duplicate counts as a save (onNftCreated).
AckMeansStored ==
    \A w \in Worker : run[w].pc = "ack" =>
        db["metadata"] # None /\ (Uri # {} => db["media"] # None)

\* ... and only when each of its items has its thumbnail in S3, unless another
\* call was busy with it or its url is not https (generateThumbnail).
AckMeansThumbnails ==
    \A w \in Worker : run[w].pc = "ack" /\ "skipThumbnail" \notin Settings(w) =>
        \A u \in Secure : run[w].media[u] = "sized" => u \in thumbs \cup run[w].left

\* "we make sure the attributes from the event are used"
\* (handleNftUpdateAttributesEvent): the metadata fetched by the job of an update
\* event is that of the event's attributes, or of later ones.
EventAttributesUsed ==
    \A w \in Worker : run[w].pc = "fetch" /\ run[w].phase = "metadata" =>
        run[w].version >= jobs[run[w].job].event

----------------------------------------------------------------------------
(* Fairness *)

\* Awaits return; rejected messages come back, and a message does not stay in the
\* queue while workers take others; the daily cron runs.
FairSpec ==
    /\ Spec
    /\ \A w \in Worker : WF_vars(RunStep(w) \/ \E t \in tasks : t.worker = w /\ TaskStep(t))
    /\ \A j \in Job : WF_vars(Retry(j)) /\ SF_vars(\E w \in Worker : Receive(w, j))
    /\ WF_vars(TriggerProcessNftsForLastYear)

\* Every message leaves the queue for good, processed or given up, unless a run
\* waits for a thumbnail whose ffmpeg error nobody hears.
JobsEnd ==
    \A j \in Job : jobs[j].where # "free" ~>
        (jobs[j].where = "free" \/ \E t \in tasks : t.pc = "hung")

\* "we have uris but we don't have any media record at all" (needsMediaFetch): the
\* daily cron sees to it that such an NFT is processed.
MissingMediaIsFetched ==
    (indexed > 0 /\ Uri # {} /\ db["media"] = None) ~>
        (db["media"] # None \/ \E j \in Job : jobs[j].where # "free")

=============================================================================
