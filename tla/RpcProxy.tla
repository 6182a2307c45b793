------------------------------ MODULE RpcProxy ------------------------------
(***************************************************************************)
(* The RPC proxy of apps/rpc. RpcService sends a client's call to one      *)
(* endpoint of the chain after the other until one answers;                *)
(* EndpointsStatisticService keeps the endpoints of every chain in memory, *)
(* loads them from the table endpoints every five minutes, reorders them   *)
(* every 30 seconds, and keeps the last scores of an endpoint in Redis.    *)
(* Both timers fire in the same second every five minutes, and nothing     *)
(* keeps a call, a score and a timer from overlapping.                     *)
(*                                                                         *)
(* An endpoint belongs to one chain: to the lists, and to the keys of the  *)
(* scores, one that is moved is a deleted and a created one. The Map that  *)
(* a load creates, and the objects in it, carry the number of the load.    *)
(* Redis forgets the scores of an endpoint that is not called for days;    *)
(* that is left out.                                                       *)
(***************************************************************************)
EXTENDS Integers, Sequences, FiniteSets

CONSTANTS
    Endpoints, Chains,
    ChainOf,        \* [Endpoints -> Chains]
    Priorities,     \* values of the column priority
    InitialTables,  \* what the table may hold when the service starts
    Gone,           \* no row
    Undefined,      \* no entry in a Map
    Calls,          \* clients' calls
    Retries,        \* maxRetries || 3
    MaxItems,       \* ENDPOINTS_SUCCESS_RATE_MAX_ITEMS_NUM
    TTL,            \* ENDPOINTS_SUCCESS_RATE_TTL
    FewCalls,       \* scores below which an endpoint is rated 1 (5)
    MaxChanges,     \* bound: changes of the table
    MaxLoads,       \* bound: loads from the table
    MaxTime         \* bound: the clock

Row == [isEnabled : BOOLEAN, priority : Priorities, archived : BOOLEAN]

ASSUME EndpointsAssumption == IsFiniteSet(Endpoints) /\ ChainOf \in [Endpoints -> Chains]
ASSUME PrioritiesAssumption == Priorities \subseteq Nat /\ 0 \in Priorities
ASSUME RowsAssumption == Gone \notin Row /\ InitialTables \subseteq [Endpoints -> Row \cup {Gone}]
ASSUME NumbersAssumption ==
    /\ Retries \in Nat \ {0} /\ MaxItems \in Nat \ {0} /\ TTL \in Nat \ {0} /\ FewCalls \in Nat
    /\ MaxChanges \in Nat /\ MaxLoads \in Nat /\ MaxTime \in Nat

VARIABLES
    rows,           \* table endpoints
    loads,          \* loads so far, the number of the current endpointsMap
    maps,           \* [load -> the Map it created, [Chains -> list of objects or Undefined]]
    objects,        \* [load -> [Endpoints -> EndpointStatistic]]
    found,          \* the rows syncEndpointsFromDatabase is about to use, or Undefined
    loaded,         \* history: the endpoints that were enabled at the last load
    outlived,       \* history: an older reordering was in progress at the last load
    walks,          \* [Walkers -> a run of updateEndpointsPriority]
    up,             \* onModuleInit is done, timers and calls run
    calls,          \* [Calls -> state of proxyRPCCall]
    scores,         \* Redis: [Endpoints -> scores, newest first]
    updates,        \* runs of updateEndpointSuccessRate, which nobody awaits
    made,           \* history: [Endpoints -> every score ever made, newest first]
    lossy,          \* history: endpoints with overlapping or failed updates
    now, changes

tableVars == <<rows, changes>>
mapVars   == <<loads, maps, objects, found, loaded, outlived, walks, up>>
scoreVars == <<scores, updates, made, lossy>>
vars == <<tableVars, mapVars, calls, scoreVars, now>>

Loads == 0..MaxLoads
Walkers == {"timer", "load"}
Score == [ok : BOOLEAN, at : 0..MaxTime]
Statistic == [success : Nat, fail : Nat]
Object == [priority : Nat, archived : BOOLEAN, calls : Statistic]
Ref == Loads \X Endpoints
ASSUME UndefinedAssumption == Undefined \notin Seq(Ref)

Answer == {"data", "409", "418"}

NoCalls == [success |-> 0, fail |-> 0]
IdleWalk == [at |-> "idle", load |-> 0, visited |-> {}, chain |-> Undefined, list |-> <<>>, n |-> 0]
NewCall == [at |-> "new", list |-> <<>>, index |-> 0, retries |-> 0, tried |-> <<>>]

\* The one-to-one maps of 1..n onto itself.
Arrangements(n) ==
    {p \in [1..n -> 1..n] : \A i, j \in 1..n : p[i] = p[j] => i = j}

Elements(s) == {s[i] : i \in 1..Len(s)}

\* Array.filter: the elements of s at the positions in kept, in their order.
Filtered(s, kept) ==
    [j \in 1..Cardinality(kept) |-> s[CHOOSE i \in kept : Cardinality({x \in kept : x <= i}) = j]]

\* The sequences that hold every element of S once.
Orders(S) ==
    {s \in [1..Cardinality(S) -> S] :
        Elements(s) = S /\ \A i, j \in DOMAIN s : s[i] = s[j] => i = j}

\* this.endpointsMap.get(c) || []
Listed(c) == IF maps[loads][c] = Undefined THEN <<>> ELSE maps[loads][c]

-----------------------------------------------------------------------------
Init ==
    /\ rows \in InitialTables
    /\ loads = 0
    /\ maps = [g \in Loads |-> [c \in Chains |-> Undefined]]
    /\ objects = [g \in Loads |-> [e \in Endpoints |->
                    [priority |-> 0, archived |-> FALSE, calls |-> NoCalls]]]
    /\ found = Undefined
    /\ loaded = {}
    /\ outlived = FALSE
    /\ walks = [w \in Walkers |-> IdleWalk]
    /\ up = FALSE
    /\ calls = [k \in Calls |-> NewCall]
    /\ scores = [e \in Endpoints |-> <<>>]
    /\ updates = {}
    /\ made = [e \in Endpoints |-> <<>>]
    /\ lossy = {}
    /\ now = 0
    /\ changes = 0

-----------------------------------------------------------------------------
(* EndpointsService and EndpointsRepository: the table. *)

Change(e, row) ==
    /\ changes < MaxChanges
    /\ rows' = [rows EXCEPT ![e] = row]
    /\ changes' = changes + 1
    /\ UNCHANGED <<mapVars, calls, scoreVars, now>>

\* insertOne: the unique index catches what the search before it misses.
InsertOne(e) == rows[e] = Gone /\ \E row \in Row : Change(e, row)

UpdateItem(e) == rows[e] # Gone /\ \E row \in Row : Change(e, row)

DeleteItem(e) == rows[e] # Gone /\ Change(e, Gone)

-----------------------------------------------------------------------------
(* EndpointsStatisticService.syncEndpointsFromDatabase. *)

Enabled == {e \in Endpoints : rows[e] # Gone /\ rows[e].isEnabled}

\* getEnabled, without an order; at the start of the service and by a timer after that.
ReadEnabled ==
    /\ found = Undefined
    /\ walks["load"].at = "idle"
    /\ loads < MaxLoads
    /\ found' = [e \in Enabled |-> rows[e]]
    /\ UNCHANGED <<tableVars, loads, maps, objects, loaded, outlived, walks, up, calls, scoreVars, now>>

\* The statistic of an endpoint that is in the current list of its chain is kept.
KeptCalls(e) ==
    LET before == {ref \in Elements(Listed(ChainOf[e])) : ref[2] = e}
    IN  IF before = {} THEN NoCalls ELSE objects[(CHOOSE ref \in before : TRUE)[1]][e].calls

\* A mutant: the Map that is there is filled up instead of replaced.
LoadMapAdding(lists, c) == IF lists[c] = <<>> THEN maps[loads][c] ELSE lists[c]

\* newEndpointMap has no entry for a chain without endpoints.
LoadMap(lists, c) == IF lists[c] = <<>> THEN Undefined ELSE lists[c]

\* The answer of the table arrives: the Map is replaced, and reordered right away.
Load ==
    LET new == loads + 1
        refs(c) == {<<new, e>> : e \in {x \in DOMAIN found : ChainOf[x] = c}}
    IN  /\ found # Undefined
        /\ \E lists \in [Chains -> UNION {Orders(refs(c)) : c \in Chains}] :
              /\ \A c \in Chains : lists[c] \in Orders(refs(c))
              /\ maps' = [maps EXCEPT ![new] = [c \in Chains |-> LoadMap(lists, c)]]
        /\ objects' = [objects EXCEPT ![new] = [e \in Endpoints |->
                IF e \in DOMAIN found
                THEN [priority |-> found[e].priority, archived |-> found[e].archived, calls |-> KeptCalls(e)]
                ELSE @[e]]]
        /\ loads' = new
        /\ found' = Undefined
        /\ loaded' = DOMAIN found
        /\ outlived' = (walks["timer"].at # "idle")
        /\ walks' = [walks EXCEPT !["load"] = [IdleWalk EXCEPT !.at = "chains", !.load = new]]
        /\ UNCHANGED <<tableVars, up, calls, scoreVars, now>>

-----------------------------------------------------------------------------
(* EndpointsStatisticService.updateEndpointsPriority, run by w. *)

Walk(w, walk) == walks' = [walks EXCEPT ![w] = walk]

\* cronUpdateEndpointsPriority
StartTimer ==
    /\ up
    /\ walks["timer"].at = "idle"
    /\ Walk("timer", [IdleWalk EXCEPT !.at = "chains", !.load = loads])
    /\ UNCHANGED <<tableVars, loads, maps, objects, found, loaded, outlived, up, calls, scoreVars, now>>

\* The chains come from the Map of the start, a chain's list from the current one: where
\* that has none any more, iterating over undefined throws.
NextChain(w) ==
    /\ walks[w].at = "chains"
    /\ \E c \in Chains \ walks[w].visited :
          /\ maps[walks[w].load][c] # Undefined
          /\ Walk(w, IF maps[loads][c] = Undefined THEN IdleWalk
                     ELSE [walks[w] EXCEPT !.at = "scores", !.chain = c, !.list = maps[loads][c], !.n = 0])
    /\ UNCHANGED <<tableVars, loads, maps, objects, found, loaded, outlived, up, calls, scoreVars, now>>

\* new CallsStatistic(scores)
Counted(s) ==
    [success |-> Cardinality({i \in 1..Len(s) : s[i].ok}),
     fail |-> Cardinality({i \in 1..Len(s) : ~s[i].ok})]

\* getEndpointSuccessScoreFromCache of the next endpoint; its object is updated in place.
NextScores(w) ==
    LET walk == walks[w]
        ref == walk.list[walk.n + 1]
    IN  /\ walk.at = "scores"
        /\ walk.n < Len(walk.list)
        /\ objects' = [objects EXCEPT ![ref[1]][ref[2]].calls = Counted(scores[ref[2]])]
        /\ Walk(w, [walk EXCEPT !.n = @ + 1])
        /\ UNCHANGED <<tableVars, loads, maps, found, loaded, outlived, up, calls, scoreVars, now>>

\* successRating as a fraction, and which of two is higher.
Rating(s) == IF s.success + s.fail <= FewCalls THEN <<1, 1>> ELSE <<s.success, s.success + s.fail>>
Higher(r, s) == r[1] * s[2] > s[1] * r[2]

\* compareEndpointStatistic assigns b's priority to a. Sorting compares an element with
\* one that was before it, so that all of them end with the priority of the first; where
\* that is 0 every comparison says equal, else the ratings are compared.
InOrder(list, p) ==
    LET rating(i) == Rating(objects[list[p[i]][1]][list[p[i]][2]].calls)
    IN  \A i, j \in 1..Len(list) : i < j =>
           \/ objects[list[1][1]][list[1][2]].priority # 0 /\ Higher(rating(i), rating(j))
           \/ /\ objects[list[1][1]][list[1][2]].priority = 0 \/ ~Higher(rating(j), rating(i))
              /\ p[i] < p[j]

\* The sorted list goes into the Map that is current now.
SetChain(w) ==
    LET walk == walks[w]
        n == Len(walk.list)
        first == walk.list[1]
    IN  /\ walk.at = "scores"
        /\ walk.n = n
        /\ \E p \in Arrangements(n) :
              /\ InOrder(walk.list, p)
              /\ maps' = [maps EXCEPT ![loads][walk.chain] = [i \in 1..n |-> walk.list[p[i]]]]
        /\ objects' = [g \in Loads |-> [e \in Endpoints |->
                IF <<g, e>> \in Elements(walk.list)
                THEN [objects[g][e] EXCEPT !.priority = objects[first[1]][first[2]].priority]
                ELSE objects[g][e]]]
        /\ Walk(w, [walk EXCEPT !.at = "chains", !.visited = @ \cup {walk.chain}])
        /\ UNCHANGED <<tableVars, loads, found, loaded, outlived, up, calls, scoreVars, now>>

\* The first run of a load is the end of onModuleInit.
EndWalk(w) ==
    /\ walks[w].at = "chains"
    /\ \A c \in Chains \ walks[w].visited : maps[walks[w].load][c] = Undefined
    /\ Walk(w, IdleWalk)
    /\ up' = TRUE
    /\ UNCHANGED <<tableVars, loads, maps, objects, found, loaded, outlived, calls, scoreVars, now>>

\* Redis rejects, and the timer logs it; at the start of the service it ends the process.
FailWalk(w) ==
    /\ up
    /\ walks[w].at = "scores"
    /\ walks[w].n < Len(walks[w].list)
    /\ Walk(w, IdleWalk)
    /\ UNCHANGED <<tableVars, loads, maps, objects, found, loaded, outlived, up, calls, scoreVars, now>>

-----------------------------------------------------------------------------
(* RpcService.proxyRPCCall. *)

\* getEndpointByPriority: the endpoints in their order, for an archive call the archived ones.
Candidates(c, archive) ==
    LET list == Listed(c)
    IN  Filtered(list, {i \in 1..Len(list) : archive => objects[list[i][1]][list[i][2]].archived})

\* The list is taken once, at the start of the call.
StartCall(k) ==
    /\ up
    /\ calls[k].at = "new"
    /\ \E c \in Chains, archive \in BOOLEAN :
          LET refs == Candidates(c, archive) IN
          calls' = [calls EXCEPT ![k] =
              IF refs = <<>> THEN [NewCall EXCEPT !.at = "409"]
              ELSE [NewCall EXCEPT !.at = "trying", !.list = [i \in 1..Len(refs) |-> refs[i][2]],
                                   !.index = 1, !.retries = Retries]]
    /\ UNCHANGED <<tableVars, mapVars, scoreVars, now>>

\* A mutant: while (retries > 0).
RetriedStrictly(call) ==
    [call EXCEPT !.index = (@ % Len(call.list)) + 1, !.retries = @ - 1,
                 !.at = IF call.retries > 1 THEN "trying" ELSE "418"]

\* A mutant: one round more.
RetriedPastZero(call) ==
    [call EXCEPT !.index = (@ % Len(call.list)) + 1, !.retries = @ - 1,
                 !.at = IF call.retries >= 0 THEN "trying" ELSE "418"]

\* while (retries >= 0), round-robin.
Retried(call) ==
    [call EXCEPT !.index = (@ % Len(call.list)) + 1, !.retries = @ - 1,
                 !.at = IF call.retries > 0 THEN "trying" ELSE "418"]

\* makeRPCCall returns, with an answer for the client or without; the score is left to
\* updateEndpointSuccessRate, which is not awaited.
Try(k, ok) ==
    LET call == calls[k]
        e == call.list[call.index]
        tried == [call EXCEPT !.tried = Append(@, e)]
    IN  /\ call.at = "trying"
        /\ calls' = [calls EXCEPT ![k] = IF ok THEN [tried EXCEPT !.at = "data"] ELSE Retried(tried)]
        /\ updates' = updates \cup
              {[id |-> <<k, Len(call.tried)>>, at |-> "read", endpoint |-> e, ok |-> ok, list |-> <<>>]}
        /\ UNCHANGED <<tableVars, mapVars, scores, made, lossy, now>>

-----------------------------------------------------------------------------
(* EndpointsStatisticService.updateEndpointSuccessRate. *)

\* A mutant: room is made for two.
RecentWithTwoSlots(s) ==
    Filtered(s, {i \in 1..Len(s) : i < MaxItems - 1 /\ now - s[i].at < TTL})

\* filterOutdatedEndpointScores: the index, which counts from 0, is below MaxItems - 1. The
\* scores are newest first, so the filter cuts a prefix.
Recent(s) == Filtered(s, {i \in 1..Len(s) : i < MaxItems /\ now - s[i].at < TTL})

\* A mutant: the new score is put last.
WithScoreLast(s, score) == Append(Recent(s), score)

WithScore(s, score) == <<score>> \o Recent(s)

\* The list is read, and the new list made from it, before the list is written.
ReadScores(u) ==
    LET score == [ok |-> u.ok, at |-> now]
        others == {v \in updates : v.endpoint = u.endpoint /\ v.at = "write"}
    IN  /\ u.at = "read"
        /\ updates' = (updates \ {u}) \cup {[u EXCEPT !.at = "write", !.list = WithScore(scores[u.endpoint], score)]}
        /\ made' = [made EXCEPT ![u.endpoint] = <<score>> \o @]
        /\ lossy' = IF others = {} THEN lossy ELSE lossy \cup {u.endpoint}
        /\ UNCHANGED <<tableVars, mapVars, calls, scores, now>>

\* setEndpointToRPCSuccessRateCache
WriteScores(u) ==
    /\ u.at = "write"
    /\ scores' = [scores EXCEPT ![u.endpoint] = u.list]
    /\ updates' = updates \ {u}
    /\ UNCHANGED <<tableVars, mapVars, calls, made, lossy, now>>

\* Redis rejects: the caller logs it and the score is gone.
FailUpdate(u) ==
    /\ updates' = updates \ {u}
    /\ lossy' = lossy \cup {u.endpoint}
    /\ UNCHANGED <<tableVars, mapVars, calls, scores, made, now>>

-----------------------------------------------------------------------------
Tick ==
    /\ now < MaxTime
    /\ now' = now + 1
    /\ UNCHANGED <<tableVars, mapVars, calls, scoreVars>>

Next ==
    \/ \E e \in Endpoints : InsertOne(e) \/ UpdateItem(e) \/ DeleteItem(e)
    \/ ReadEnabled \/ Load \/ StartTimer
    \/ \E w \in Walkers : NextChain(w) \/ NextScores(w) \/ SetChain(w) \/ EndWalk(w) \/ FailWalk(w)
    \/ \E k \in Calls : StartCall(k) \/ \E ok \in BOOLEAN : Try(k, ok)
    \/ \E u \in updates : ReadScores(u) \/ WriteScores(u) \/ FailUpdate(u)
    \/ Tick

Spec == Init /\ [][Next]_vars

-----------------------------------------------------------------------------
(* Properties. *)

\* A call as proxyRPCCall keeps it.
CallState ==
    [at : {"new", "trying"} \cup Answer, list : Seq(Endpoints), index : Nat,
     retries : -1..Retries, tried : Seq(Endpoints)]

\* The variables hold rows, Maps of lists, walks, calls and scores.
TypeOK ==
    /\ rows \in [Endpoints -> Row \cup {Gone}]
    /\ loads \in Loads
    /\ maps \in [Loads -> [Chains -> Seq(Ref) \cup {Undefined}]]
    /\ objects \in [Loads -> [Endpoints -> Object]]
    /\ found = Undefined \/ found \in UNION {[S -> Row] : S \in SUBSET Endpoints}
    /\ loaded \subseteq Endpoints
    /\ outlived \in BOOLEAN
    /\ walks \in [Walkers -> [at : {"idle", "chains", "scores"}, load : Loads, visited : SUBSET Chains,
                              chain : Chains \cup {Undefined}, list : Seq(Ref), n : Nat]]
    /\ up \in BOOLEAN
    /\ calls \in [Calls -> CallState]
    /\ scores \in [Endpoints -> Seq(Score)]
    /\ \A u \in updates : /\ u.at \in {"read", "write"} /\ u.endpoint \in Endpoints
                          /\ u.ok \in BOOLEAN /\ u.list \in Seq(Score)
    /\ made \in [Endpoints -> Seq(Score)]
    /\ lossy \subseteq Endpoints
    /\ now \in 0..MaxTime /\ changes \in Nat

\* The list of a chain holds every endpoint that was enabled at the last load once, and no
\* other: reordering, which replaces the lists while calls and loads go on, drops,
\* repeats and brings back none (updateEndpointsPriority). The exception is a load that
\* overtakes a reordering of the timer, which then stores lists of the old Map.
MapIsLastLoad ==
    ~outlived => \A c \in Chains :
        /\ {ref[2] : ref \in Elements(Listed(c))} = {e \in loaded : ChainOf[e] = c}
        /\ \A i, j \in 1..Len(Listed(c)) : Listed(c)[i][2] = Listed(c)[j][2] => i = j

\* A call that is given up on (418) has failed on every endpoint of its list that its
\* Retries + 1 tries can reach, and on none of them twice more often than on another
\* (the round-robin of proxyRPCCall).
GivesUpLast ==
    \A k \in Calls : calls[k].at = "418" =>
        LET list == calls[k].list
            tries(i) == Cardinality({j \in 1..Len(calls[k].tried) : (j - 1) % Len(list) = i - 1
                                        /\ calls[k].tried[j] = list[i]})
        IN  /\ Len(calls[k].tried) = Retries + 1
            /\ \A i, j \in 1..Len(list) : tries(i) - tries(j) \in {-1, 0, 1}

\* The scores in the cache are newest first and at most MaxItems, whatever updates overlap
\* (updateEndpointSuccessRate): the filter that drops by position drops the oldest.
NewestFirst ==
    \A e \in Endpoints :
        /\ Len(scores[e]) <= MaxItems
        /\ \A i, j \in 1..Len(scores[e]) : i < j => scores[e][i].at >= scores[e][j].at

\* As long as no two updates of an endpoint have overlapped and none has failed, its cached
\* scores are its newest ones, and one is missing only if it is outdated or was crowded out.
NoScoreIsLost ==
    \A e \in Endpoints : e \notin lossy /\ (\A u \in updates : u.endpoint = e => u.at = "read") =>
        /\ Len(scores[e]) <= Len(made[e])
        /\ \A i \in 1..Len(made[e]) :
              IF i <= Len(scores[e]) THEN made[e][i] = scores[e][i]
              ELSE i > MaxItems \/ now - made[e][i].at >= TTL
=============================================================================
