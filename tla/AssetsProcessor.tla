--------------------------- MODULE AssetsProcessor ---------------------------
(***************************************************************************)
(* How the assets service (apps/assets) fills its table of assets.  A      *)
(* client that asks for an asset gets what is stored, and what is missing  *)
(* is queued; so do the daily processors with the assets they track.       *)
(* handleMetadataJob takes the jobs, two at a time, and processAsset looks *)
(* the asset up, has it analysed, processes what it is made of (its        *)
(* underlying assets) in the same way, and saves it.  What cannot be       *)
(* processed is counted in assets_invalid and given up in the end.         *)
(*                                                                         *)
(* Each worker has a stack of frames, one per nested call of processAsset; *)
(* a frame's pc names the call it awaits.  Between two awaits of one       *)
(* worker the other one, the clients and the cache do as they like.        *)
(*                                                                         *)
(* An asset made of others is cached under one key in two shapes: "nested",*)
(* the entity with its underlying entities, by getOrLoad, and "flat", with *)
(* their addresses only, by saveAssetsToCache.  For an asset that is made  *)
(* of nothing the two are the same, and it is cached only when it is       *)
(* stored, so its cache entry is left out.  Also left out: what is inside  *)
(* a row (symbol, icon, metadata, the tracked flag), chains (an asset here *)
(* is an address on a chain), prices and job priorities.                   *)
(***************************************************************************)
EXTENDS Naturals, Sequences, FiniteSets, SequencesExt

CONSTANTS
    Assets,      \* addresses on chains
    Underlying,  \* what an asset is made of: [Assets -> Seq(Assets)]
    Workers,     \* the jobs handled at a time (concurrency)
    Attempts,    \* tries of one job (attempts)
    MaxRetry,    \* MAX_INVALID_ASSET_RETRY
    MaxFills,    \* bound: cache writes under way per asset
    MaxFaults    \* bound: calls that fail, analysers that fail, crashes

\* What an asset is made of, at any depth.
Parts[a \in Assets] ==
    Range(Underlying[a]) \cup UNION {Parts[b] : b \in Range(Underlying[a])}

Compound == {a \in Assets : Underlying[a] # <<>>}

ASSUME AssetsAssumption ==
    /\ Underlying \in [Assets -> Seq(Assets)]
    /\ Attempts \in Nat \ {0} /\ MaxRetry \in Nat \ {0}
    /\ MaxFills \in Nat \ {0} /\ MaxFaults \in Nat

VARIABLES
    job,         \* the queue: for each asset at most one job (jobId)
    stack,       \* the frames of each worker
    stored,      \* the assets table
    cache,       \* the cached shape of each compound asset
    fills,       \* writes of saveAssetsToCache that nobody awaits
    invalid,     \* assets_invalid.retries, 0 when there is no row
    analysable,  \* the assets some analyser recognises
    faults

vars == <<job, stack, stored, cache, fills, invalid, analysable, faults>>

NoJob == [at |-> "none"]
Job == [at : {"waiting", "active"}, force : BOOLEAN, tries : 0..(Attempts - 1)]

Shapes == {"none", "nested", "flat"}

\* The awaits of processAsset; inside increaseInvalidRetries the read and the
\* write, after an analysis without a result (miss) or in the catch (fail).
Awaits == {"lookup", "load", "put", "update", "check", "analyse", "underlying",
           "find", "insert", "merge", "save", "clean", "remove",
           "missRead", "missWrite", "failRead", "failWrite"}

Frame == [asset : Assets, force : BOOLEAN, pc : Awaits, found : Shapes,
          next : Nat \ {0}, bare : BOOLEAN, seen : 0..MaxRetry]

TypeOK ==
    /\ job \in [Assets -> Job \cup {NoJob}]
    /\ \A w \in Workers : \A i \in DOMAIN stack[w] : stack[w][i] \in Frame
    /\ stored \subseteq Assets
    /\ cache \in [Compound -> Shapes]
    /\ fills \in [Compound -> 0..MaxFills]
    /\ invalid \in [Assets -> 0..MaxRetry]
    /\ analysable \subseteq Assets
    /\ faults \in 0..MaxFaults

\* An empty table and cache, whatever the analysers recognise.
Init ==
    /\ job = [a \in Assets |-> NoJob]
    /\ stack = [w \in Workers |-> <<>>]
    /\ stored = {}
    /\ cache = [a \in Compound |-> "none"]
    /\ fills = [a \in Compound |-> 0]
    /\ invalid = [a \in Assets |-> 0]
    /\ analysable \in SUBSET Assets
    /\ faults = 0

-----------------------------------------------------------------------------
\* The queue.

\* Add without the jobId of getAssetProcessJobId.
AddWithoutJobId(a, force) ==
    [job EXCEPT ![a] = [at |-> "waiting", force |-> force, tries |-> 0]]

\* assetsQueue.add with a jobId: nothing if a job of that id is there.
Add(a, force) ==
    IF job[a] = NoJob
      THEN [job EXCEPT ![a] = [at |-> "waiting", force |-> force, tries |-> 0]]
      ELSE job

Call(a, force) ==
    [asset |-> a, force |-> force, pc |-> "lookup", found |-> "none",
     next |-> 1, bare |-> FALSE, seen |-> 0]

\* A free worker takes the job of a: handleMetadataJob calls processAsset.
Take(w, a) ==
    /\ stack[w] = <<>>
    /\ job[a].at = "waiting"
    /\ job' = [job EXCEPT ![a].at = "active"]
    /\ stack' = [stack EXCEPT ![w] = <<Call(a, job[a].force)>>]
    /\ UNCHANGED <<stored, cache, fills, invalid, analysable, faults>>

\* The job of worker w is done, and is removed (removeOnComplete).
Done(w) ==
    /\ job' = [job EXCEPT ![stack[w][1].asset] = NoJob]
    /\ stack' = [stack EXCEPT ![w] = <<>>]

\* The job of worker w threw: tried again, or removed (removeOnFail).
Failed(w) ==
    LET a == stack[w][1].asset
        tries == job[a].tries + 1
    IN  /\ job' = [job EXCEPT ![a] =
                     IF tries < Attempts
                       THEN [job[a] EXCEPT !.at = "waiting", !.tries = tries]
                       ELSE NoJob]
        /\ stack' = [stack EXCEPT ![w] = <<>>]

-----------------------------------------------------------------------------
\* The frames of a worker.

Top(w) == Last(stack[w])

With(w, frame) == [stack EXCEPT ![w] = Append(Front(@), frame)]

\* The steps after which nothing but the asset is read any more.
Final == {"clean", "remove", "missRead", "failRead"}

\* Worker w goes on to the next await.
Goto(w, step) ==
    LET f == Top(w)
        next == IF step \in Final THEN Call(f.asset, FALSE) ELSE f
    IN  /\ stack' = With(w, [next EXCEPT !.pc = step])
        /\ UNCHANGED job

\* processAsset returns an entity, of one of the two shapes: to the loop over
\* the underlying assets of the caller, or to handleMetadataJob.
Return(w, shape) ==
    IF Len(stack[w]) = 1 THEN Done(w) ELSE
    LET below == Front(stack[w])
        bare == shape = "flat" /\ Top(w).asset \in Compound
    IN  /\ stack' = [stack EXCEPT ![w] = Append(Front(below),
                       [Last(below) EXCEPT !.next = @ + 1, !.bare = @ \/ bare])]
        /\ UNCHANGED job

\* ReturnUndefined with the check of line 133 forgotten.
ReturnUndefinedUnchecked(w) == Return(w, "nested")

\* processAsset returns undefined, and with it every caller.
ReturnUndefined(w) == Done(w)

\* processAsset throws: the caller's catch counts and throws in its turn.
Throw(w) ==
    IF Len(stack[w]) = 1 THEN Failed(w) ELSE
    LET below == Front(stack[w])
    IN  /\ stack' = [stack EXCEPT ![w] =
                       Append(Front(below),
                              [Call(Last(below).asset, FALSE) EXCEPT !.pc = "failRead"])]
        /\ UNCHANGED job

-----------------------------------------------------------------------------
\* processAsset, await by await.

\* What processAsset awaits once it knows the existing asset.
AfterLookup(force, found) ==
    IF force THEN "analyse" ELSE IF found = "none" THEN "check" ELSE "update"

\* findOneByAddressAndChain: the cache first.
Lookup(w) ==
    LET f == Top(w)
    IN  /\ f.pc = "lookup"
        /\ IF f.asset \in Compound /\ cache[f.asset] # "none"
             THEN /\ stack' = With(w, [f EXCEPT !.found = cache[f.asset],
                                  !.pc = AfterLookup(f.force, cache[f.asset])])
                  /\ UNCHANGED job
             ELSE Goto(w, "load")
        /\ UNCHANGED <<stored, cache, fills, invalid>>

\* getOrLoad: then the table, with the underlying entities.
Load(w) ==
    LET f == Top(w)
        found == IF f.asset \in stored THEN "nested" ELSE "none"
        step == IF f.asset \in stored \cap Compound THEN "put"
                ELSE AfterLookup(f.force, found)
    IN  /\ f.pc = "load"
        /\ stack' = With(w, [f EXCEPT !.found = found, !.pc = step])
        /\ UNCHANGED <<job, stored, cache, fills, invalid>>

\* getOrLoad puts what it loaded into the cache.
Put(w) ==
    LET f == Top(w)
    IN  /\ f.pc = "put"
        /\ cache' = [cache EXCEPT ![f.asset] = "nested"]
        /\ Goto(w, AfterLookup(f.force, f.found))
        /\ UNCHANGED <<stored, fills, invalid>>

\* The write of the cache that ends save, which nobody awaits.  Beyond MaxFills
\* the writes under way of one asset, all the same, count as one.
Filling(a) ==
    IF a \in Compound /\ fills[a] < MaxFills
      THEN fills' = [fills EXCEPT ![a] = @ + 1]
      ELSE UNCHANGED fills

\* updateAsset of an existing asset.  A flat entity has no underlyingAsset to
\* compare with or to cache: save either throws on it or its last line does,
\* which is only logged.
Update(w) ==
    LET f == Top(w)
    IN  /\ f.pc = "update"
        /\ \/ /\ f.found = "nested"
              /\ Filling(f.asset)
              /\ Return(w, "nested")
           \/ /\ f.found = "flat"
              /\ UNCHANGED fills
              /\ Return(w, "flat") \/ Goto(w, "failRead")
        /\ UNCHANGED <<stored, cache, invalid>>

\* isAssetInvalid.
Check(w) ==
    /\ Top(w).pc = "check"
    /\ IF invalid[Top(w).asset] >= MaxRetry
         THEN ReturnUndefined(w)
         ELSE Goto(w, "analyse")
    /\ UNCHANGED <<stored, cache, fills, invalid>>

\* analyseAsset of every analyser; the entity is filled from its result.
Analyse(w) ==
    /\ Top(w).pc = "analyse"
    /\ Goto(w, IF Top(w).asset \in analysable THEN "underlying" ELSE "missRead")
    /\ UNCHANGED <<stored, cache, fills, invalid>>

\* What is awaited after the loop over the underlying assets: buildDisplayName
\* throws on a flat one that is made of others itself, then save looks the row
\* up unless the entity has an id.
AfterLoop(f) ==
    IF f.bare THEN "failRead" ELSE IF f.found = "none" THEN "find" ELSE "save"

\* The loop over asset.underlying: processAsset of the next one.
ProcessUnderlying(w) ==
    LET f == Top(w)
    IN  /\ f.pc = "underlying"
        /\ IF f.next <= Len(Underlying[f.asset])
             THEN /\ stack' = [stack EXCEPT ![w] =
                                 Append(@, Call(Underlying[f.asset][f.next], f.force))]
                  /\ UNCHANGED job
             ELSE Goto(w, AfterLoop(f))
        /\ UNCHANGED <<stored, cache, fills, invalid>>

\* save without an id: findOne, whose row gives the id.
FindOne(w) ==
    /\ Top(w).pc = "find"
    /\ Goto(w, IF Top(w).asset \in stored THEN "merge" ELSE "insert")
    /\ UNCHANGED <<stored, cache, fills, invalid>>

\* save writes the row.  An insert is rejected if the row has appeared since
\* (Unique address, chainId); merging into a row with the id of another writer
\* may be rejected for the underlying rows (Unique asset, underlyingAsset).
Save(w) ==
    LET f == Top(w)
    IN  /\ \/ /\ f.pc = "insert" /\ f.asset \in stored
              /\ Goto(w, "failRead")
              /\ UNCHANGED <<stored, fills>>
           \/ /\ f.pc = "merge" /\ f.asset \in Compound
              /\ Goto(w, "failRead")
              /\ UNCHANGED <<stored, fills>>
           \/ /\ f.pc \in {"merge", "save"} \/ (f.pc = "insert" /\ f.asset \notin stored)
              /\ stored' = stored \cup {f.asset}
              /\ Filling(f.asset)
              /\ Goto(w, "clean")
        /\ UNCHANGED <<cache, invalid>>

\* cleanInvalidAsset: reads the row, removes it if there is one, and
\* processAsset returns the saved entity.
CleanInvalid(w) ==
    LET f == Top(w)
    IN  /\ \/ /\ f.pc = "clean" /\ invalid[f.asset] = 0
              /\ Return(w, "nested")
              /\ UNCHANGED invalid
           \/ /\ f.pc = "clean" /\ invalid[f.asset] > 0
              /\ Goto(w, "remove")
              /\ UNCHANGED invalid
           \/ /\ f.pc = "remove"
              /\ invalid' = [invalid EXCEPT ![f.asset] = 0]
              /\ Return(w, "nested")
        /\ UNCHANGED <<stored, cache, fills>>

\* increaseInvalidRetries reads the row.
ReadRetries(w) ==
    LET f == Top(w)
    IN  /\ f.pc \in {"missRead", "failRead"}
        /\ stack' = With(w, [f EXCEPT !.seen = invalid[f.asset],
                     !.pc = IF f.pc = "missRead" THEN "missWrite" ELSE "failWrite"])
        /\ UNCHANGED <<job, stored, cache, fills, invalid>>

\* Increased with a new row's retries not set to 0 first: not a number.
IncreasedUnset(seen) == IF seen \in {0, MaxRetry} THEN MaxRetry + 1 ELSE seen + 1

\* What it writes: one more than it read.  Only whether MaxRetry is reached is
\* ever asked, so the count stops there.
Increased(seen) == IF seen = MaxRetry THEN MaxRetry ELSE seen + 1

\* AfterCount with an analysis without a result thrown as an error too.
AfterCountThrowing(w) ==
    IF Top(w).pc = "missWrite" THEN Goto(w, "failRead") ELSE Throw(w)

\* After the count: undefined if there was no analysis, else the error again.
AfterCount(w) == IF Top(w).pc = "missWrite" THEN ReturnUndefined(w) ELSE Throw(w)

\* WriteRetries with an analysis without a result not counted.
WriteRetriesOfErrors(w) ==
    LET f == Top(w)
    IN  /\ f.pc \in {"missWrite", "failWrite"}
        /\ IF f.pc = "missWrite"
             THEN UNCHANGED invalid
             ELSE invalid' = [invalid EXCEPT ![f.asset] = Increased(f.seen)]
        /\ AfterCount(w)
        /\ UNCHANGED <<stored, cache, fills>>

\* increaseInvalidRetries writes the row.  A new row is rejected if there is
\* one by now: from the try the catch counts again, from the catch it throws.
WriteRetries(w) ==
    LET f == Top(w)
    IN  /\ f.pc \in {"missWrite", "failWrite"}
        /\ IF f.seen = 0 /\ invalid[f.asset] > 0
             THEN /\ IF f.pc = "missWrite" THEN Goto(w, "failRead") ELSE Throw(w)
                  /\ UNCHANGED invalid
             ELSE /\ invalid' = [invalid EXCEPT ![f.asset] = Increased(f.seen)]
                  /\ AfterCount(w)
        /\ UNCHANGED <<stored, cache, fills>>

Work(w) ==
    /\ stack[w] # <<>>
    /\ \/ Lookup(w) \/ Load(w) \/ Put(w) \/ Update(w) \/ Check(w) \/ Analyse(w)
       \/ ProcessUnderlying(w) \/ FindOne(w) \/ Save(w) \/ CleanInvalid(w)
       \/ ReadRetries(w) \/ WriteRetries(w)
    /\ UNCHANGED <<analysable, faults>>

-----------------------------------------------------------------------------
\* Faults.

\* The database, the cache or the icon storage fails a call: the try goes to
\* the catch, the catch throws.
CallFails(w) ==
    /\ stack[w] # <<>> /\ Top(w).pc # "underlying"
    /\ faults < MaxFaults /\ faults' = faults + 1
    /\ IF Top(w).pc \in {"failRead", "failWrite"} THEN Throw(w) ELSE Goto(w, "failRead")
    /\ UNCHANGED <<stored, cache, fills, invalid, analysable>>

\* The analysers cannot reach what they ask: their errors are logged and the
\* analysis has no result.
AnalyserFails(w) ==
    /\ stack[w] # <<>> /\ Top(w).pc = "analyse"
    /\ faults < MaxFaults /\ faults' = faults + 1
    /\ Goto(w, "missRead")
    /\ UNCHANGED <<stored, cache, fills, invalid, analysable>>

\* The process stops: workers and cache writes under way are lost.
Crash ==
    /\ faults < MaxFaults /\ faults' = faults + 1
    /\ stack' = [w \in Workers |-> <<>>]
    /\ fills' = [a \in Compound |-> 0]
    /\ UNCHANGED <<job, stored, cache, invalid, analysable>>

\* Bull finds the job that nobody works on; maxStalledCount 0 fails it.
Stalled(a) ==
    /\ job[a].at = "active"
    /\ \A w \in Workers : stack[w] # <<>> => stack[w][1].asset # a
    /\ job' = [job EXCEPT ![a] = NoJob]
    /\ UNCHANGED <<stack, stored, cache, fills, invalid, analysable, faults>>

-----------------------------------------------------------------------------
\* The cache and those who ask.

\* Everything in a that is made of others, a included.
CompoundIn(a) == ({a} \cup Parts[a]) \cap Compound

\* A write of saveAssetsToCache lands, or fails and is logged.
Fill(a) ==
    /\ fills[a] > 0
    /\ fills' = [fills EXCEPT ![a] = @ - 1]
    /\ \/ cache' = [b \in Compound |-> IF b \in CompoundIn(a) THEN "flat" ELSE cache[b]]
       \/ UNCHANGED cache
    /\ UNCHANGED <<job, stack, stored, invalid, analysable, faults>>

Expire(a) ==
    /\ cache[a] # "none"
    /\ cache' = [cache EXCEPT ![a] = "none"]
    /\ UNCHANGED <<job, stack, stored, fills, invalid, analysable, faults>>

\* getAssets asks the cache, then the table.  The cached shape "nested" has no
\* addresses where getAssetsFromCacheWithUnderlying reads them: it throws, and
\* the request fails.  An asset may be outdated at any time; if it has been
\* stored since the request looked for it, that is no different.
Request(a, force) ==
    /\ a \in Compound => cache[a] # "nested"
    /\ IF a \in stored \cap Compound /\ cache[a] = "none"
         THEN Filling(a)
         ELSE UNCHANGED fills
    /\ job' = IF force \/ invalid[a] < MaxRetry THEN Add(a, force) ELSE job
    /\ UNCHANGED <<stack, stored, cache, invalid, analysable, faults>>

\* Univ2LikeAssetsLPProcessor and UpdateTrackedAssetsProcessor, any asset.
Track(a) ==
    /\ job' = Add(a, FALSE)
    /\ UNCHANGED <<stack, stored, cache, fills, invalid, analysable, faults>>

\* ReprocessNoIconAssetsProcessor, an asset of the table.
Reprocess(a) ==
    /\ a \in stored
    /\ job' = Add(a, TRUE)
    /\ UNCHANGED <<stack, stored, cache, fills, invalid, analysable, faults>>

Next ==
    \/ \E a \in Assets :
        \/ \E w \in Workers : Take(w, a)
        \/ \E force \in BOOLEAN : Request(a, force)
        \/ Track(a) \/ Reprocess(a) \/ Stalled(a)
    \/ \E w \in Workers : Work(w) \/ CallFails(w) \/ AnalyserFails(w)
    \/ \E a \in Compound : Fill(a) \/ Expire(a)
    \/ Crash

Spec == Init /\ [][Next]_vars

\* Workers go on, unawaited writes end, a stalled job is found, a waiting job
\* is taken in the end, and clients keep asking.
FairSpec ==
    /\ Spec
    /\ \A w \in Workers : WF_vars(Work(w))
    /\ \A a \in Compound : WF_vars(Fill(a))
    /\ \A a \in Assets :
        /\ WF_vars(Stalled(a))
        /\ WF_vars(Request(a, FALSE))
        /\ SF_vars(\E w \in Workers : Take(w, a))

-----------------------------------------------------------------------------
\* Properties.

\* What is stored or cached is stored with everything it is made of, although
\* parts are stored one by one, by either worker, and any of them may fail
\* (processAsset lines 125 to 147, getOrLoad).
WholeAssets ==
    \A a \in stored \cup {b \in Compound : cache[b] # "none"} :
        {a} \cup Parts[a] \subseteq stored

\* "NOTE: This should prevent process asset jobs duplications": no two workers
\* have the job of the same asset, after failures, crashes and requests that
\* come while it is worked on (processAssets line 195).
NoDuplicateJobs ==
    \A v, w \in Workers :
        (v # w /\ stack[v] # <<>> /\ stack[w] # <<>>)
            => stack[v][1].asset # stack[w][1].asset

\* An asset that no analyser recognises is not analysed for ever: although two
\* workers may count at once and overwrite each other's counts, from some
\* point on only forced jobs analyse it (isAssetInvalid).
GivenUpInTheEnd ==
    <>[](\A w \in Workers : \A i \in DOMAIN stack[w] :
            (stack[w][i].asset \notin analysable /\ stack[w][i].pc = "analyse")
                => stack[w][i].force)

Storable(a) == {a} \cup Parts[a] \subseteq analysable

\* An asset that clients keep asking for, which the analysers recognise and
\* whose parts are no compounds, is stored in the end: the workers racing for
\* its rows and a few failures do not make the service give it up.
StoredInTheEnd ==
    <>({a \in Assets : Storable(a) /\ Parts[a] \cap Compound = {}} \subseteq stored)
=============================================================================
