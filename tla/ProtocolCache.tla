---------------------------- MODULE ProtocolCache ----------------------------
(***************************************************************************)
(* The framework of the integration service (apps/integration): a platform *)
(* with its protocols, and the cache of their pools. PlatformService makes *)
(* the instance of a platform, RootPlatform keeps the protocols that could *)
(* be initialised apart from those that could not and asks all of them at  *)
(* once, and RootProtocolCacheable keeps in Redis, for a protocol, the     *)
(* list of its pools, every pool under a key of its own, and for a minute  *)
(* the pools with their tokens and prices (hydrated).                      *)
(*                                                                         *)
(* What a protocol finds on its chain changes now and then; offers[p] is   *)
(* the sequence of its lists, and a list or a pool that is cached is       *)
(* named by the position of the offer it was fetched from. One request     *)
(* after the other runs in each of Requests, all of them overlap. Prices,  *)
(* yields, users' balances and the format of an answer are left out: they  *)
(* are computed from the pools and change no state.                        *)
(***************************************************************************)
EXTENDS Naturals, Sequences, FiniteSetsExt

CONSTANTS
    Protocols,      \* of one platform
    ChainOf,        \* [Protocols -> the chain it is on]
    Ids,            \* ids of pools
    Lists,          \* [Protocols -> the lists of ids its chain may offer]
    Unknown,        \* pools with a token the assets service does not know
    Requests,       \* concurrent requests
    Asks,           \* [Requests -> what it may ask, [kind, chains]]
    None,
    MaxChanges,     \* bound: changes of what the chain offers
    MaxFaults       \* bound: calls that fail and restarts

\* A read answers with the pools; a sync stores them, with debug it reads them after that.
Kinds == {"read", "sync", "debug"}
Chains == {ChainOf[p] : p \in Protocols}

\* "this is used as the cache key, so must be unique" (new.interfaces.ts, line 18).
ASSUME IdsAssumption ==
    /\ Lists \in [Protocols -> SUBSET SUBSET Ids]
    /\ \A p, q \in Protocols : p # q => (UNION Lists[p]) \cap (UNION Lists[q]) = {}
ASSUME AsksAssumption ==
    Asks \in [Requests -> SUBSET [kind : Kinds, chains : SUBSET Chains]] /\ "boot" \notin Requests
ASSUME BoundsAssumption == MaxChanges \in Nat /\ MaxFaults \in Nat

VARIABLES
    platform,       \* whose instance platformsInitialized holds, or None
    good, bad,      \* protocols and protocolErrors of the instance each creator made
    calls,          \* [Requests -> the request in progress]
    parts,          \* [Requests -> [Protocols -> its call of one protocol]]
    list, pool, hydrated,   \* Redis; 0 or None for what is not there
    offers,         \* [Protocols -> the lists its chain has offered so far]
    newest,         \* history: [Protocols -> the newest offer ever stored]
    backwards,      \* history: protocols with an older offer stored after a newer one
    faults

platformVars == <<platform, good, bad>>
cacheVars == <<list, pool, hydrated, newest, backwards>>
vars == <<platformVars, calls, parts, cacheVars, offers, faults>>

Creators == Requests \cup {"boot"}
Idle == [at |-> "idle", kind |-> "read", chains |-> {}, inst |-> None, tried |-> {}]
Off == [at |-> "off", offer |-> 0, ids |-> {}, oldest |-> 0, since |-> 0]

\* A mutant: a protocol that could not be initialised is dropped.
BootedDropping(rejected, failed) ==
    [platform |-> IF rejected THEN None ELSE "boot",
     good |-> [i \in Creators |-> IF i = "boot" /\ ~rejected THEN Protocols \ failed ELSE {}],
     bad |-> [i \in Creators |-> {}]]

\* The instance made by onApplicationBootstrap, before requests are accepted; failed are the
\* protocols that could not be initialised. When register rejects, the error is logged and
\* there is no instance.
Booted(rejected, failed) ==
    [platform |-> IF rejected THEN None ELSE "boot",
     good |-> [i \in Creators |-> IF i = "boot" /\ ~rejected THEN Protocols \ failed ELSE {}],
     bad |-> [i \in Creators |-> IF i = "boot" /\ ~rejected THEN failed ELSE {}]]

Init ==
    /\ \E rejected \in BOOLEAN, failed \in SUBSET Protocols :
          LET b == Booted(rejected, failed)
          IN  platform = b.platform /\ good = b.good /\ bad = b.bad
    /\ calls = [r \in Requests |-> Idle]
    /\ parts = [r \in Requests |-> [p \in Protocols |-> Off]]
    /\ list = [p \in Protocols |-> 0]
    /\ pool = [x \in Ids |-> 0]
    /\ hydrated = [p \in Protocols |-> None]
    /\ offers = [p \in Protocols |-> <<UNION Lists[p]>>]
    /\ newest = [p \in Protocols |-> 0]
    /\ backwards = {}
    /\ faults = 0

Fault == faults < MaxFaults /\ faults' = faults + 1

-----------------------------------------------------------------------------
(* PlatformService.getPlatform. *)

\* The request with its instance: chains.length ? chains : platform.getSupportedChains(),
\* those of the protocols that are initialised in it.
With(call, i, initialised) ==
    [call EXCEPT !.inst = i, !.at = "ask",
                 !.chains = IF @ = {} THEN {ChainOf[p] : p \in initialised} ELSE @]

\* An instance that is there is used, whoever made it; without one every request makes its own.
Begin(r, ask) ==
    LET call == [Idle EXCEPT !.kind = ask.kind, !.chains = ask.chains] IN
    /\ calls[r].at = "idle"
    /\ calls' = [calls EXCEPT ![r] =
          IF platform = None THEN [call EXCEPT !.at = "create"] ELSE With(call, platform, good[platform])]
    /\ UNCHANGED <<platformVars, parts, cacheVars, offers, faults>>

\* register: a protocol whose initialisation throws is kept with its error. The instance is
\* visible once all are through, and replaces one that was made meanwhile.
Create(r, failed) ==
    /\ calls[r].at = "create"
    /\ IF failed = {} THEN UNCHANGED faults ELSE Fault
    /\ good' = [good EXCEPT ![r] = Protocols \ failed]
    /\ bad' = [bad EXCEPT ![r] = failed]
    /\ platform' = r
    /\ calls' = [calls EXCEPT ![r] = With(@, r, Protocols \ failed)]
    /\ UNCHANGED <<parts, cacheVars, offers>>

\* register rejects: the request fails, and the next one tries again.
CreateFails(r) ==
    /\ calls[r].at = "create"
    /\ Fault
    /\ calls' = [calls EXCEPT ![r] = Idle]
    /\ UNCHANGED <<platformVars, parts, cacheVars, offers>>

-----------------------------------------------------------------------------
(* RootPlatform. *)

\* A mutant: nothing is tried again.
ToTryNone(call) == {}

\* What validatedProtocols still has to initialise before a read.
ToTry(call) == IF call.kind = "read" THEN bad[call.inst] \ call.tried ELSE {}

Validate(r, ok) ==
    LET i == calls[r].inst IN
    /\ calls[r].at = "ask"
    /\ \E p \in ToTry(calls[r]) :
          /\ good' = IF ok THEN [good EXCEPT ![i] = @ \cup {p}] ELSE good
          /\ bad' = IF ok THEN [bad EXCEPT ![i] = @ \ {p}] ELSE bad
          /\ calls' = [calls EXCEPT ![r].tried = @ \cup {p}]
    /\ IF ok THEN UNCHANGED faults ELSE Fault
    /\ UNCHANGED <<platform, parts, cacheVars, offers>>

\* The protocols of the requested chains that are initialised are asked all at once:
\* getPoolData for a read, cachePoolData for a sync.
Ask(r) ==
    LET call == calls[r]
        asked == {p \in good[call.inst] : ChainOf[p] \in call.chains}
    IN  /\ call.at = "ask" /\ ToTry(call) = {}
        /\ parts' = [parts EXCEPT ![r] = [p \in Protocols |->
              IF p \notin asked THEN Off
              ELSE IF call.kind = "read" THEN [Off EXCEPT !.at = "hydrated", !.since = newest[p]]
              ELSE [Off EXCEPT !.at = "fetch"]]]
        /\ calls' = [calls EXCEPT ![r].at = "asked"]
        /\ UNCHANGED <<platformVars, cacheVars, offers, faults>>

\* Promise.allSettled: what one protocol rejects with is an error among the others' answers.
\* With debug a sync goes on as a read of the same chains.
Finish(r) ==
    /\ calls[r].at = "asked"
    /\ \A p \in Protocols : parts[r][p].at \in {"off", "done", "hit", "error", "failed"}
    /\ parts' = [parts EXCEPT ![r] = [p \in Protocols |-> Off]]
    /\ calls' = [calls EXCEPT ![r] =
          IF @.kind = "debug" THEN [@ EXCEPT !.kind = "read", !.at = "ask"] ELSE Idle]
    /\ UNCHANGED <<platformVars, cacheVars, offers, faults>>

-----------------------------------------------------------------------------
(* RootProtocolCacheable.getPoolData and cachePoolData, of protocol p for request r. *)

To(r, p, part) ==
    /\ parts' = [parts EXCEPT ![r][p] = part]
    /\ UNCHANGED <<platformVars, calls, offers>>

\* What is cached for a minute is the answer.
GetHydrated(r, p) ==
    LET part == parts[r][p] IN
    /\ part.at = "hydrated"
    /\ To(r, p, IF hydrated[p] = None THEN [part EXCEPT !.at = "list"]
                ELSE [Off EXCEPT !.at = "hit", !.ids = hydrated[p]])
    /\ UNCHANGED <<cacheVars, faults>>

\* No list, or an empty one: fetched on demand.
GetList(r, p) ==
    LET part == parts[r][p] IN
    /\ part.at = "list"
    /\ To(r, p, IF list[p] = 0 \/ offers[p][list[p]] = {} THEN [part EXCEPT !.at = "fetch"]
                ELSE [part EXCEPT !.at = "pools", !.offer = list[p]])
    /\ UNCHANGED <<cacheVars, faults>>

\* A mutant: what is cached of the pools is enough.
CompleteUnchecked(ids) == TRUE

\* list.length === pools.length
Complete(ids) == \A x \in ids : pool[x] # 0

\* mget of the pools on the list, which may have expired or been replaced since.
GetPools(r, p) ==
    LET part == parts[r][p]
        ids == offers[p][part.offer]
        found == {x \in ids : pool[x] # 0}
    IN  /\ part.at = "pools"
        /\ To(r, p, IF ~Complete(ids) THEN [part EXCEPT !.at = "fetch", !.offer = 0]
                    ELSE [part EXCEPT !.at = "hydrate", !.offer = 0, !.ids = found,
                                      !.oldest = Min({pool[x] : x \in found} \cup {Len(offers[p])})])
        /\ UNCHANGED <<cacheVars, faults>>

\* getCacheableOpportunityData
Fetch(r, p) ==
    LET part == parts[r][p] IN
    /\ part.at = "fetch"
    /\ To(r, p, [part EXCEPT !.at = "store", !.offer = Len(offers[p])])
    /\ UNCHANGED <<cacheVars, faults>>

\* A mutant: a pool that is cached stays as it is.
StoredOnce(offer, p, x) == IF x \in offers[p][offer] /\ pool[x] = 0 THEN offer ELSE pool[x]

\* The pools of an offer take the places of those with their ids.
Stored(offer, p, x) == IF x \in offers[p][offer] THEN offer ELSE pool[x]

\* A mutant: the list is written when there is none.
ListedOnce(offer, p) == IF list[p] = 0 THEN offer ELSE list[p]

Listed(offer, p) == offer

\* mset of the list and the pools, in one transaction of Redis.
Store(r, p) ==
    LET part == parts[r][p] IN
    /\ part.at = "store"
    /\ list' = [list EXCEPT ![p] = Listed(part.offer, p)]
    /\ pool' = [x \in Ids |-> Stored(part.offer, p, x)]
    /\ newest' = [newest EXCEPT ![p] = Max({@, part.offer})]
    /\ backwards' = IF part.offer < newest[p] THEN backwards \cup {p} ELSE backwards
    /\ To(r, p, IF calls[r].kind # "read" THEN [Off EXCEPT !.at = "done"]
                ELSE [part EXCEPT !.at = "hydrate", !.offer = 0, !.ids = offers[p][part.offer],
                                  !.oldest = part.offer])
    /\ UNCHANGED <<hydrated, faults>>

CacheIfErrorFree(p, ids, errors) == IF errors THEN hydrated ELSE [hydrated EXCEPT ![p] = ids]

\* hydrateOpportunityData: a pool with an unknown token is left out, with a warning only.
Hydrate(r, p) ==
    LET part == parts[r][p]
        known == part.ids \ Unknown
    IN  /\ part.at = "hydrate"
        /\ hydrated' = CacheIfErrorFree(p, known, FALSE)
        /\ To(r, p, [part EXCEPT !.at = "done", !.ids = known])
        /\ UNCHANGED <<list, pool, newest, backwards, faults>>

\* The assets service rejects and the answer is empty, or updateRealTimeData does and the
\* pools are answered without its figures; the answer carries the error.
HydrateFails(r, p, ids) ==
    /\ parts[r][p].at = "hydrate"
    /\ ids \in {{}, parts[r][p].ids \ Unknown}
    /\ Fault
    /\ hydrated' = CacheIfErrorFree(p, ids, TRUE)
    /\ To(r, p, [Off EXCEPT !.at = "error"])
    /\ UNCHANGED <<list, pool, newest, backwards>>

\* The chain, an API or Redis rejects: so does the call of this protocol.
PartFails(r, p) ==
    /\ parts[r][p].at \in {"hydrated", "list", "pools", "fetch", "store", "hydrate"}
    /\ Fault
    /\ To(r, p, [Off EXCEPT !.at = "failed"])
    /\ UNCHANGED cacheVars

-----------------------------------------------------------------------------
(* Redis, the chain, the process. *)

ExpireHydrated(p) ==
    /\ hydrated[p] # None
    /\ hydrated' = [hydrated EXCEPT ![p] = None]
    /\ UNCHANGED <<platformVars, calls, parts, list, pool, newest, backwards, offers, faults>>

ExpireList(p) ==
    /\ list[p] # 0
    /\ list' = [list EXCEPT ![p] = 0]
    /\ UNCHANGED <<platformVars, calls, parts, pool, hydrated, newest, backwards, offers, faults>>

ExpirePool(x) ==
    /\ pool[x] # 0
    /\ pool' = [pool EXCEPT ![x] = 0]
    /\ UNCHANGED <<platformVars, calls, parts, list, hydrated, newest, backwards, offers, faults>>

\* Pools are opened, closed or changed.
Offer(p, ids) ==
    /\ Len(offers[p]) <= MaxChanges
    /\ offers' = [offers EXCEPT ![p] = Append(@, ids)]
    /\ UNCHANGED <<platformVars, calls, parts, cacheVars, faults>>

Restart ==
    /\ Fault
    /\ \E rejected \in BOOLEAN, failed \in SUBSET Protocols :
          LET b == Booted(rejected, failed)
          IN  platform' = b.platform /\ good' = b.good /\ bad' = b.bad
    /\ calls' = [r \in Requests |-> Idle]
    /\ parts' = [r \in Requests |-> [p \in Protocols |-> Off]]
    /\ UNCHANGED <<cacheVars, offers>>

-----------------------------------------------------------------------------
Part(r, p) ==
    \/ GetHydrated(r, p) \/ GetList(r, p) \/ GetPools(r, p) \/ Fetch(r, p) \/ Store(r, p) \/ Hydrate(r, p)

Work(r) ==
    \/ Create(r, {}) \/ Validate(r, TRUE) \/ Ask(r) \/ Finish(r)
    \/ \E p \in Protocols : Part(r, p)

Next ==
    \/ \E r \in Requests :
          \/ \E ask \in Asks[r] : Begin(r, ask)
          \/ \E failed \in (SUBSET Protocols) \ {{}} : Create(r, failed)
          \/ Work(r) \/ CreateFails(r) \/ Validate(r, FALSE)
          \/ \E p \in Protocols : PartFails(r, p) \/ \E ids \in SUBSET Ids : HydrateFails(r, p, ids)
    \/ \E p \in Protocols :
          \/ ExpireHydrated(p) \/ ExpireList(p)
          \/ \E ids \in Lists[p] : Offer(p, ids)
    \/ \E x \in Ids : ExpirePool(x)
    \/ Restart

Spec == Init /\ [][Next]_vars

\* Every call returns or rejects, clients keep reading, the scheduled job keeps syncing, and
\* the hydrated pools expire after a minute.
FairSpec ==
    /\ Spec
    /\ \A r \in Requests : WF_vars(Work(r) \/ \E ask \in Asks[r] : Begin(r, ask))
    /\ \A p \in Protocols : WF_vars(ExpireHydrated(p))

-----------------------------------------------------------------------------
(* Properties. *)

\* The variables have their types; in an instance every protocol is either initialised or
\* kept with its error (registerProtocol, validatedProtocols).
TypeOK ==
    /\ platform \in Creators \cup {None}
    /\ \A i \in Creators : good[i] \cap bad[i] = {}
    /\ \A i \in {platform} \cup {calls[r].inst : r \in Requests} : i # None => good[i] \cup bad[i] = Protocols
    /\ \A r \in Requests : calls[r].chains \subseteq Chains
    /\ \A p \in Protocols : list[p] \in 0..Len(offers[p]) /\ newest[p] \in 0..Len(offers[p])
    /\ \A p \in Protocols : \A x \in UNION Lists[p] : pool[x] \in 0..Len(offers[p])
    /\ backwards \subseteq Protocols
    /\ faults \in 0..MaxFaults

\* All pools of one of p's offers, without those of unknown tokens.
Whole(ids, p) == \E e \in 1..Len(offers[p]) : ids = offers[p][e] \ Unknown

\* Answers without errors, and answers that are kept for the next requests, have all pools
\* of one list, although the list and the pools are read one after the other while they
\* expire, are stored again, or cannot be hydrated (getPoolData).
AnswersAreWhole ==
    \A p \in Protocols :
        /\ hydrated[p] # None => Whole(hydrated[p], p)
        /\ \A r \in Requests :
              calls[r].kind = "read" /\ parts[r][p].at \in {"done", "hit"} => Whole(parts[r][p].ids, p)

\* An answer that does not come from the hydrated pools has no pool older than the last
\* sync that was done when the request began. The exception is a protocol for which a slow
\* fetch was stored after a newer one (cachePoolData).
ReadsWhatWasSynced ==
    \A r \in Requests, p \in Protocols \ backwards :
        calls[r].kind = "read" /\ parts[r][p].at = "done" => parts[r][p].oldest >= parts[r][p].since

\* Every protocol of the platform is asked and answers in the end, also one that could not
\* be initialised when the service started (validatedProtocols).
ServedInTheEnd ==
    \A p \in Protocols : []<>(\E r \in Requests : calls[r].kind = "read" /\ parts[r][p].at \in {"done", "hit"})

\* When the pools of a protocol do not change any more, everyone is answered with its last
\* list in the end, whatever was stored out of order before (cachePoolData).
SyncedInTheEnd ==
    \A p \in Protocols :
        <>[](hydrated[p] # None => hydrated[p] = offers[p][Len(offers[p])] \ Unknown)
=============================================================================
