-------------------------- MODULE ProtocolCacheProofs --------------------------
(***************************************************************************)
(* For any number of protocols, pools, concurrent requests, changes and    *)
(* failures: an answer is whole, and as new as the last sync before the    *)
(* request. The invariant says what a part of a request knows at each of   *)
(* its awaits, and what a step of another part may do to the cache in the  *)
(* meantime (Rely): offers stay, the newest stored offer only grows, and,  *)
(* unless an older offer is stored after a newer one, pools are not        *)
(* replaced by older ones.                                                 *)
(***************************************************************************)
EXTENDS ProtocolCache, WellFoundedInduction, TLAPS

Call == [at : {"idle", "create", "ask", "asked"}, kind : Kinds, chains : SUBSET Chains,
         inst : Creators \cup {None}, tried : SUBSET Protocols]
PartOf == [at : {"off", "hydrated", "list", "pools", "fetch", "store", "hydrate", "done", "hit",
                 "error", "failed"},
           offer : Nat, ids : SUBSET Ids, oldest : Nat, since : Nat]

InstancesOK ==
    /\ platform \in Creators \cup {None}
    /\ good \in [Creators -> SUBSET Protocols] /\ bad \in [Creators -> SUBSET Protocols]
    /\ calls \in [Requests -> Call]
    /\ faults \in 0..MaxFaults

\* The lists of pools a protocol may have.
Pools(p) == SUBSET (UNION Lists[p])

CacheOK ==
    /\ list \in [Protocols -> Nat] /\ newest \in [Protocols -> Nat]
    /\ pool \in [Ids -> Nat]
    /\ hydrated \in [Protocols -> (SUBSET Ids) \cup {None}]
    /\ DOMAIN offers = Protocols
    /\ \A p \in Protocols : offers[p] \in Seq(Pools(p)) /\ Len(offers[p]) > 0
    /\ backwards \subseteq Protocols

PartsOK == parts \in [Requests -> [Protocols -> PartOf]]

\* An instance in use has every protocol, either initialised or with its error.
InstancesInv ==
    /\ \A i \in Creators : good[i] \cap bad[i] = {}
    /\ platform # None => good[platform] \cup bad[platform] = Protocols
    /\ \A r \in Requests :
          /\ calls[r].at \in {"ask", "asked"} => calls[r].inst \in Creators
          /\ calls[r].inst # None => good[calls[r].inst] \cup bad[calls[r].inst] = Protocols

\* The pools of an offer that are cached are not older than the offer.
NotOlder(p, e) == \A x \in offers[p][e] : pool[x] = 0 \/ pool[x] >= e

\* What is in Redis of one protocol.
CacheInv(p) ==
    /\ list[p] \in 0..Len(offers[p]) /\ newest[p] \in 0..Len(offers[p])
    /\ \A x \in UNION Lists[p] : pool[x] \in 0..Len(offers[p])
    /\ hydrated[p] # None => Whole(hydrated[p], p)
    /\ p \notin backwards /\ list[p] # 0 => list[p] = newest[p] /\ NotOlder(p, list[p])

\* What the call of a protocol knows at its await.
PartInv(r, p) ==
    LET part == parts[r][p] IN
    /\ part.at # "off" => calls[r].at = "asked"
    /\ part.at \in {"hydrated", "list", "pools", "hydrate", "hit"} => calls[r].kind = "read"
    /\ part.since <= newest[p]
    /\ part.at \in {"pools", "store"} => part.offer \in 1..Len(offers[p])
    /\ part.at = "store" => part.offer >= part.since
    /\ part.at = "hydrate" => \E e \in 1..Len(offers[p]) : part.ids = offers[p][e]
    /\ part.at = "hit" \/ (part.at = "done" /\ calls[r].kind = "read") => Whole(part.ids, p)
    /\ p \notin backwards =>
          /\ part.at = "pools" => /\ part.since <= part.offer /\ part.offer <= newest[p]
                                  /\ NotOlder(p, part.offer)
          /\ part.at \in {"hydrate", "done"} => part.oldest >= part.since

Inv ==
    /\ InstancesOK /\ CacheOK /\ PartsOK /\ InstancesInv
    /\ \A p \in Protocols : CacheInv(p)
    /\ \A r \in Requests, p \in Protocols : PartInv(r, p)

\* What a part relies on while it awaits.
Rely(p) ==
    /\ Len(offers[p]) <= Len(offers'[p])
    /\ \A e \in 1..Len(offers[p]) : offers'[p][e] = offers[p][e]
    /\ newest[p] <= newest'[p]
    /\ p \in backwards => p \in backwards'
    /\ p \notin backwards' => \A e \in 1..newest[p] : NotOlder(p, e) => NotOlder(p, e)'

-----------------------------------------------------------------------------
(* Numbers. *)

\* The oldest of some pools is one of them (the history variable of getPoolData's answer).
LEMMA OldestIsThere ==
    ASSUME NEW S \in SUBSET Nat, S # {}
    PROVE  Min(S) \in S
<1> DEFINE Less == {p \in Nat \X Nat : p[1] < p[2]}
<1>1. IsWellFoundedOn(Less, Nat)
    BY NatLessThanWellFounded DEF OpToRel
<1>2. \E m \in S : \A k \in S : ~(<<k, m>> \in Less)
    <2> HIDE DEF Less
    <2> QED
        BY <1>1, WFMin
<1>3. PICK m \in S : \A k \in S : ~(<<k, m>> \in Less)
    BY <1>2
<1>4. ASSUME NEW k \in S
      PROVE  m <= k
    <2>1. k \in Nat /\ m \in Nat
        OBVIOUS
    <2>2. ~(<<k, m>> \in {p \in Nat \X Nat : p[1] < p[2]})
        BY <1>3
    <2> QED
        BY <2>1, <2>2
<1> QED
    BY <1>3, <1>4 DEF Min

\* The newer of two offers (newest).
LEMMA NewerOfTwo ==
    ASSUME NEW a \in Nat, NEW b \in Nat
    PROVE  Max({a, b}) = IF a < b THEN b ELSE a
<1> DEFINE m == IF a < b THEN b ELSE a
<1>1. m \in {a, b} /\ \A y \in {a, b} : m >= y
    OBVIOUS
<1>2. \A x \in {a, b} : (\A y \in {a, b} : x >= y) => x = m
    OBVIOUS
<1> QED
    BY <1>1, <1>2 DEF Max

\* A new offer comes after the others (Offer).
LEMMA OneMore ==
    ASSUME NEW S, NEW s \in Seq(S), NEW x \in S
    PROVE  /\ Append(s, x) \in Seq(S) /\ Len(Append(s, x)) = Len(s) + 1
           /\ \A e \in 1..Len(s) : Append(s, x)[e] = s[e]
OBVIOUS

\* Offers are lists of pools of their protocol.
LEMMA OfferTypes ==
    ASSUME CacheOK, NEW p \in Protocols, NEW e \in 1..Len(offers[p])
    PROVE  /\ offers[p][e] \in SUBSET (UNION Lists[p]) /\ offers[p][e] \in SUBSET Ids
           /\ Len(offers[p]) \in Nat
<1>1. offers[p] \in Seq(Pools(p))
    BY DEF CacheOK
<1>2. offers[p][e] \in Pools(p) /\ Len(offers[p]) \in Nat
    BY <1>1
<1>3. UNION Lists[p] \subseteq Ids
    BY IdsAssumption
<1> QED
    BY <1>2, <1>3 DEF Pools

\* The number of offers, of which there is always one.
LEMMA OfferCount ==
    ASSUME CacheOK, NEW p \in Protocols
    PROVE  Len(offers[p]) \in Nat /\ Len(offers[p]) \in 1..Len(offers[p]) /\ newest[p] \in Nat
           /\ list[p] \in Nat
<1>1. offers[p] \in Seq(Pools(p)) /\ Len(offers[p]) > 0
    BY DEF CacheOK
<1>2. Len(offers[p]) \in Nat
    BY <1>1
<1> QED
    BY <1>1, <1>2 DEF CacheOK

-----------------------------------------------------------------------------
(* What others do to a part. *)

\* A whole answer stays whole when the chain offers more.
LEMMA WholeStays ==
    ASSUME CacheOK, NEW p \in Protocols, Rely(p), CacheOK', NEW ids
    PROVE  /\ Whole(ids, p) => Whole(ids, p)'
           /\ (\E e \in 1..Len(offers[p]) : ids = offers[p][e])
                => \E e \in 1..Len(offers'[p]) : ids = offers'[p][e]
<1>1. Len(offers[p]) \in Nat /\ Len(offers'[p]) \in Nat /\ Len(offers[p]) <= Len(offers'[p])
    BY OfferCount DEF CacheOK, Rely
<1>2. \A e \in 1..Len(offers[p]) : e \in 1..Len(offers'[p]) /\ offers'[p][e] = offers[p][e]
    BY <1>1 DEF Rely
<1> QED
    BY <1>2 DEF Whole

\* A part that is left alone knows what it knew.
LEMMA PartFrame ==
    ASSUME CacheOK, CacheOK', PartsOK, NEW r \in Requests, NEW p \in Protocols, Rely(p), CacheInv(p),
           PartInv(r, p), parts'[r][p] = parts[r][p], calls'[r].at = calls[r].at,
           calls'[r].kind = calls[r].kind
    PROVE  PartInv(r, p)'
<1> DEFINE part == parts[r][p]
<1>1. /\ Len(offers[p]) \in Nat /\ Len(offers'[p]) \in Nat /\ Len(offers[p]) <= Len(offers'[p])
      /\ newest[p] \in Nat /\ newest'[p] \in Nat /\ newest[p] <= newest'[p]
      /\ part \in PartOf /\ part.since \in Nat /\ part.offer \in Nat /\ part.oldest \in Nat
    BY OfferCount DEF CacheOK, Rely, PartsOK, PartOf
<1>2. part.since <= newest'[p]
    BY <1>1 DEF PartInv
<1>3. part.at \in {"pools", "store"} => part.offer \in 1..Len(offers'[p])
    BY <1>1 DEF PartInv
<1>4. part.at = "hydrate" => \E e \in 1..Len(offers'[p]) : part.ids = offers'[p][e]
    BY WholeStays DEF PartInv
<1>5. part.at = "hit" \/ (part.at = "done" /\ calls[r].kind = "read") => Whole(part.ids, p)'
    BY WholeStays DEF PartInv
<1>6. ASSUME p \notin backwards', part.at = "pools"
      PROVE  part.since <= part.offer /\ part.offer <= newest'[p] /\ NotOlder(p, part.offer)'
    <2>1. part.since <= part.offer /\ part.offer <= newest[p] /\ NotOlder(p, part.offer)
          /\ part.offer \in 1..Len(offers[p])
        BY <1>6 DEF PartInv, Rely
    <2>2. part.offer \in 1..newest[p]
        BY <1>1, <2>1
    <2>3. NotOlder(p, part.offer)'
        <3>1. \A e \in 1..newest[p] : NotOlder(p, e) => NotOlder(p, e)'
            BY <1>6 DEF Rely
        <3> DEFINE o == part.offer
        <3>2. o \in 1..newest[p] /\ NotOlder(p, o) /\ o' = o
            BY <2>1, <2>2
        <3> HIDE DEF o
        <3>3. \A x \in offers'[p][o] : pool'[x] = 0 \/ pool'[x] >= o
            BY <3>1, <3>2 DEF NotOlder
        <3> QED
            BY <3>3 DEF NotOlder, o
    <2> QED
        BY <1>1, <2>1, <2>3
<1>7. p \notin backwards' /\ part.at \in {"hydrate", "done"} => part.oldest >= part.since
    BY DEF PartInv, Rely
<1> QED
    BY <1>2, <1>3, <1>4, <1>5, <1>6, <1>7 DEF PartInv

\* A cache that is left alone is as good as before, and may be relied on.
LEMMA SameCache ==
    ASSUME Inv, UNCHANGED <<cacheVars, offers>>
    PROVE  CacheOK' /\ \A p \in Protocols : Rely(p) /\ CacheInv(p)'
<1>1. UNCHANGED <<list, pool, hydrated, newest, backwards, offers>>
    BY DEF cacheVars
<1>2. CacheOK' /\ CacheOK
    BY <1>1 DEF Inv, CacheOK
<1>3. ASSUME NEW p \in Protocols
      PROVE  Rely(p) /\ CacheInv(p)'
    <2>1. newest[p] \in Nat /\ Len(offers[p]) \in Nat
        BY <1>2, OfferCount
    <2> QED
        BY <1>1, <2>1 DEF Inv, Rely, CacheInv, Whole, NotOlder
<1> QED
    BY <1>2, <1>3

\* One part takes a step: what it has to know next is all there is to show.
LEMMA PartUpdate ==
    ASSUME Inv, NEW r \in Requests, NEW p \in Protocols, NEW part \in PartOf, To(r, p, part),
           CacheOK', \A q \in Protocols : Rely(q) /\ CacheInv(q)',
           faults' \in 0..MaxFaults, PartInv(r, p)'
    PROVE  Inv'
<1>1. /\ parts' = [parts EXCEPT ![r][p] = part] /\ calls' = calls /\ platform' = platform
      /\ good' = good /\ bad' = bad
    BY DEF To, platformVars
<1>2. PartsOK' /\ parts'[r][p] = part
    BY <1>1 DEF Inv, PartsOK
<1>3. ASSUME NEW s \in Requests, NEW q \in Protocols, s # r \/ q # p
      PROVE  PartInv(s, q)'
    <2>1. parts'[s][q] = parts[s][q]
        BY <1>1, <1>3 DEF Inv, PartsOK
    <2> QED
        BY <1>1, <2>1, PartFrame DEF Inv
<1>4. \A s \in Requests, q \in Protocols : PartInv(s, q)'
    BY <1>3
<1>5. InstancesOK' /\ InstancesInv'
    BY <1>1 DEF Inv, InstancesOK, InstancesInv
<1> QED
    BY <1>2, <1>4, <1>5 DEF Inv

-----------------------------------------------------------------------------
(* The steps of a part (getPoolData and cachePoolData). *)

\* What is known of a part before its step.
LEMMA PartTypes ==
    ASSUME Inv, NEW r \in Requests, NEW p \in Protocols
    PROVE  /\ parts[r][p] \in PartOf
           /\ parts[r][p].since \in Nat /\ parts[r][p].offer \in Nat /\ parts[r][p].oldest \in Nat
           /\ parts[r][p].ids \in SUBSET Ids
           /\ newest[p] \in Nat /\ list[p] \in Nat /\ Len(offers[p]) \in Nat /\ Len(offers[p]) > 0
           /\ CacheOK /\ CacheInv(p) /\ PartInv(r, p) /\ faults \in 0..MaxFaults
<1>1. parts[r][p] \in PartOf
    BY DEF Inv, PartsOK
<1>2. CacheOK /\ CacheInv(p) /\ PartInv(r, p) /\ faults \in 0..MaxFaults
    BY DEF Inv, InstancesOK
<1>3. newest[p] \in Nat /\ list[p] \in Nat /\ Len(offers[p]) \in Nat /\ Len(offers[p]) > 0
    BY <1>2, OfferCount DEF CacheOK
<1> QED
    BY <1>1, <1>2, <1>3 DEF PartOf

\* The fields of a part that has taken its step.
LEMMA PartNow ==
    ASSUME Inv, NEW r \in Requests, NEW p \in Protocols, NEW part, To(r, p, part)
    PROVE  parts'[r][p] = part /\ calls' = calls /\ offers' = offers
BY DEF To, Inv, PartsOK

\* An answer from the hydrated pools is whole, because only whole answers are kept.
LEMMA GetHydratedStep ==
    ASSUME Inv, NEW r \in Requests, NEW p \in Protocols, GetHydrated(r, p)
    PROVE  Inv'
<1> DEFINE part == parts[r][p]
           next == IF hydrated[p] = None THEN [part EXCEPT !.at = "list"]
                   ELSE [Off EXCEPT !.at = "hit", !.ids = hydrated[p]]
<1>1. part.at = "hydrated" /\ To(r, p, next) /\ UNCHANGED cacheVars /\ faults' = faults
    BY DEF GetHydrated
<1>2. offers' = offers /\ parts'[r][p] = next /\ calls' = calls
    BY <1>1, PartNow
<1>3. CacheOK' /\ \A q \in Protocols : Rely(q) /\ CacheInv(q)'
    BY <1>1, <1>2, SameCache
<1>4. newest' = newest /\ backwards' = backwards
    BY <1>1 DEF cacheVars
<1>5. calls[r].at = "asked" /\ calls[r].kind = "read" /\ part.since <= newest[p]
    BY <1>1, PartTypes DEF PartInv
<1>6. CASE hydrated[p] = None
    <2>1. next \in PartOf /\ next.at = "list" /\ next.since = part.since
        BY <1>6, PartTypes DEF PartOf
    <2>2. PartInv(r, p)'
        BY <1>2, <1>4, <1>5, <2>1 DEF PartInv
    <2> QED
        BY <1>1, <1>3, <2>1, <2>2, PartTypes, PartUpdate
<1>7. CASE hydrated[p] # None
    <2>1. Whole(hydrated[p], p) /\ hydrated[p] \in SUBSET Ids
        BY <1>7, PartTypes DEF CacheInv, CacheOK
    <2>2. next \in PartOf /\ next.at = "hit" /\ next.since = 0 /\ next.ids = hydrated[p]
        BY <1>7, <2>1 DEF PartOf, Off
    <2>3. PartInv(r, p)'
        BY <1>2, <1>4, <1>5, <2>1, <2>2, PartTypes DEF PartInv, Whole
    <2> QED
        BY <1>1, <1>3, <2>2, <2>3, PartTypes, PartUpdate
<1> QED
    BY <1>6, <1>7

\* The list that is read is the newest, and its pools are not older.
LEMMA GetListStep ==
    ASSUME Inv, NEW r \in Requests, NEW p \in Protocols, GetList(r, p)
    PROVE  Inv'
<1> DEFINE part == parts[r][p]
           next == IF list[p] = 0 \/ offers[p][list[p]] = {} THEN [part EXCEPT !.at = "fetch"]
                   ELSE [part EXCEPT !.at = "pools", !.offer = list[p]]
<1>1. part.at = "list" /\ To(r, p, next) /\ UNCHANGED cacheVars /\ faults' = faults
    BY DEF GetList
<1>2. offers' = offers /\ parts'[r][p] = next /\ calls' = calls
    BY <1>1, PartNow
<1>3. CacheOK' /\ \A q \in Protocols : Rely(q) /\ CacheInv(q)'
    BY <1>1, <1>2, SameCache
<1>4. newest' = newest /\ backwards' = backwards /\ pool' = pool
    BY <1>1 DEF cacheVars
<1>5. calls[r].at = "asked" /\ calls[r].kind = "read" /\ part.since <= newest[p]
    BY <1>1, PartTypes DEF PartInv
<1>6. CASE list[p] = 0 \/ offers[p][list[p]] = {}
    <2>1. next \in PartOf /\ next.at = "fetch" /\ next.since = part.since
        BY <1>6, PartTypes DEF PartOf
    <2>2. PartInv(r, p)'
        BY <1>2, <1>4, <1>5, <2>1 DEF PartInv
    <2> QED
        BY <1>1, <1>3, <2>1, <2>2, PartTypes, PartUpdate
<1>7. CASE ~(list[p] = 0 \/ offers[p][list[p]] = {})
    <2>1. next \in PartOf /\ next.at = "pools" /\ next.since = part.since /\ next.offer = list[p]
        BY <1>7, PartTypes DEF PartOf
    <2>2. list[p] \in 1..Len(offers[p]) /\ (p \notin backwards => list[p] = newest[p] /\ NotOlder(p, list[p]))
        BY <1>7, PartTypes DEF CacheInv
    <2>3. NotOlder(p, list[p]) => \A x \in offers'[p][list[p]] : pool'[x] = 0 \/ pool'[x] >= list[p]
        BY <1>2, <1>4 DEF NotOlder
    <2>4. PartInv(r, p)'
        <3> DEFINE e == list[p]
        <3>1. /\ e \in 1..Len(offers'[p]) /\ parts'[r][p].offer = e /\ parts'[r][p].at = "pools"
              /\ parts'[r][p].since <= newest'[p]
              /\ p \notin backwards' => /\ e = newest'[p]
                                       /\ \A x \in offers'[p][e] : pool'[x] = 0 \/ pool'[x] >= e
            BY <1>2, <1>4, <1>5, <2>1, <2>2, <2>3
        <3>2. newest'[p] \in Nat /\ calls'[r].at = "asked" /\ calls'[r].kind = "read"
            BY <1>2, <1>4, <1>5, PartTypes
        <3> HIDE DEF e
        <3> QED
            BY <3>1, <3>2 DEF PartInv, NotOlder
    <2> QED
        BY <1>1, <1>3, <2>1, <2>4, PartTypes, PartUpdate
<1> QED
    BY <1>6, <1>7

\* All pools of the list are there, or they are fetched; none is older than the list.
LEMMA GetPoolsStep ==
    ASSUME Inv, NEW r \in Requests, NEW p \in Protocols, GetPools(r, p)
    PROVE  Inv'
<1> DEFINE part == parts[r][p]
           ids == offers[p][part.offer]
           found == {x \in ids : pool[x] # 0}
           ages == {pool[x] : x \in found} \cup {Len(offers[p])}
           next == IF ~Complete(ids) THEN [part EXCEPT !.at = "fetch", !.offer = 0]
                   ELSE [part EXCEPT !.at = "hydrate", !.offer = 0, !.ids = found, !.oldest = Min(ages)]
<1>1. part.at = "pools" /\ To(r, p, next) /\ UNCHANGED cacheVars /\ faults' = faults
    BY DEF GetPools
<1>2. offers' = offers /\ parts'[r][p] = next /\ calls' = calls
    BY <1>1, PartNow
<1>3. CacheOK' /\ \A q \in Protocols : Rely(q) /\ CacheInv(q)'
    BY <1>1, <1>2, SameCache
<1>4. newest' = newest /\ backwards' = backwards
    BY <1>1 DEF cacheVars
<1>5. /\ calls[r].at = "asked" /\ calls[r].kind = "read" /\ part.since <= newest[p]
      /\ part.offer \in 1..Len(offers[p])
      /\ p \notin backwards => part.since <= part.offer /\ NotOlder(p, part.offer)
    BY <1>1, PartTypes DEF PartInv
<1>6. CASE ~Complete(ids)
    <2>1. next \in PartOf /\ next.at = "fetch" /\ next.since = part.since
        BY <1>6, PartTypes DEF PartOf
    <2>2. PartInv(r, p)'
        BY <1>2, <1>4, <1>5, <2>1 DEF PartInv
    <2> QED
        BY <1>1, <1>3, <2>1, <2>2, PartTypes, PartUpdate
<1>7. CASE Complete(ids)
    <2>1. ids \in SUBSET Ids /\ found = ids
        BY <1>5, <1>7, PartTypes, OfferTypes DEF Complete
    <2>2. ages \in SUBSET Nat /\ ages # {}
        BY <2>1, PartTypes DEF CacheOK
    <2>3. Min(ages) \in ages /\ Min(ages) \in Nat
        <3> HIDE DEF ages
        <3> QED
            BY <2>2, OldestIsThere
    <2>4. p \notin backwards => \A y \in ages : y >= part.since
        <3> SUFFICES ASSUME p \notin backwards, NEW y \in ages PROVE y >= part.since
            OBVIOUS
        <3>1. CASE y = Len(offers[p])
            <4>1. newest[p] \in 0..Len(offers[p])
                BY PartTypes DEF CacheInv
            <4> QED
                BY <1>5, <3>1, <4>1, PartTypes
        <3>2. CASE \E x \in found : y = pool[x]
            <4>1. PICK x \in found : y = pool[x]
                BY <3>2
            <4>2. pool[x] >= part.offer /\ part.since <= part.offer
                BY <1>5, <4>1 DEF NotOlder
            <4>3. y \in Nat /\ part.offer \in Nat /\ part.since \in Nat
                BY <2>2, PartTypes
            <4> QED
                BY <4>1, <4>2, <4>3
        <3> QED
            BY <3>1, <3>2
    <2>5. /\ next \in PartOf /\ next.at = "hydrate" /\ next.since = part.since /\ next.ids = ids
          /\ next.oldest = Min(ages)
        <3> HIDE DEF ages, found, ids
        <3> QED
            BY <1>7, <2>1, <2>3, PartTypes DEF PartOf
    <2>6. p \notin backwards => next.oldest >= next.since
        <3> HIDE DEF ages, next
        <3> QED
            BY <2>3, <2>4, <2>5
    <2>7. \E e \in 1..Len(offers'[p]) : next.ids = offers'[p][e]
        BY <1>2, <1>5, <2>5
    <2> HIDE DEF next
    <2>8. PartInv(r, p)'
        BY <1>2, <1>4, <1>5, <2>5, <2>6, <2>7 DEF PartInv
    <2> QED
        BY <1>1, <1>3, <2>5, <2>8, PartTypes, PartUpdate
<1> QED
    BY <1>6, <1>7

\* What is fetched is the last offer, and not older than anything that was stored.
LEMMA FetchStep ==
    ASSUME Inv, NEW r \in Requests, NEW p \in Protocols, Fetch(r, p)
    PROVE  Inv'
<1> DEFINE part == parts[r][p]
           next == [part EXCEPT !.at = "store", !.offer = Len(offers[p])]
<1>1. part.at = "fetch" /\ To(r, p, next) /\ UNCHANGED cacheVars /\ faults' = faults
    BY DEF Fetch
<1>2. offers' = offers /\ parts'[r][p] = next /\ calls' = calls
    BY <1>1, PartNow
<1>3. CacheOK' /\ \A q \in Protocols : Rely(q) /\ CacheInv(q)'
    BY <1>1, <1>2, SameCache
<1>4. newest' = newest
    BY <1>1 DEF cacheVars
<1>5. calls[r].at = "asked" /\ part.since <= newest[p] /\ newest[p] \in 0..Len(offers[p])
    BY <1>1, PartTypes DEF PartInv, CacheInv
<1>6. next \in PartOf /\ next.at = "store" /\ next.since = part.since /\ next.offer = Len(offers[p])
    BY PartTypes DEF PartOf
<1>7. Len(offers[p]) \in 1..Len(offers[p]) /\ Len(offers[p]) >= part.since
    BY <1>5, PartTypes
<1>8. PartInv(r, p)'
    BY <1>2, <1>4, <1>5, <1>6, <1>7 DEF PartInv
<1> QED
    BY <1>1, <1>3, <1>6, <1>8, PartTypes, PartUpdate

\* What Redis holds after an offer of p was stored. The pools of other protocols have other ids.
LEMMA StoreCache ==
    ASSUME Inv, NEW p \in Protocols, NEW o \in 1..Len(offers[p]), offers' = offers, hydrated' = hydrated,
           list' = [list EXCEPT ![p] = o], pool' = [x \in Ids |-> Stored(o, p, x)],
           newest' = [newest EXCEPT ![p] = Max({@, o})],
           backwards' = IF o < newest[p] THEN backwards \cup {p} ELSE backwards
    PROVE  CacheOK' /\ \A q \in Protocols : Rely(q) /\ CacheInv(q)'
<1>1. CacheOK /\ o \in Nat /\ Len(offers[p]) \in Nat /\ newest[p] \in Nat /\ newest[p] <= Len(offers[p])
    BY OfferCount DEF Inv, CacheInv
<1>2. /\ newest' \in [Protocols -> Nat] /\ newest'[p] = IF newest[p] < o THEN o ELSE newest[p]
      /\ \A q \in Protocols \ {p} : newest'[q] = newest[q]
    BY <1>1, NewerOfTwo DEF CacheOK
<1>3. /\ pool' \in [Ids -> Nat]
      /\ \A x \in Ids : pool'[x] = IF x \in offers[p][o] THEN o ELSE pool[x]
    BY <1>1 DEF CacheOK, Stored
<1>4. CacheOK'
    BY <1>1, <1>2, <1>3 DEF CacheOK
<1>5. /\ \A q \in Protocols : \A e \in 1..Len(offers[q]) : offers[q][e] \in SUBSET (UNION Lists[q])
      /\ \A e \in 1..Len(offers[p]) : offers[p][e] \in SUBSET Ids
      /\ offers[p][o] \in SUBSET (UNION Lists[p]) /\ offers[p][o] \in SUBSET Ids
    BY <1>1, OfferTypes
<1>6. \A q \in Protocols \ {p} : \A x \in UNION Lists[q] : pool'[x] = pool[x]
    <2> SUFFICES ASSUME NEW q \in Protocols \ {p}, NEW x \in UNION Lists[q] PROVE pool'[x] = pool[x]
        OBVIOUS
    <2>1. (UNION Lists[q]) \cap (UNION Lists[p]) = {} /\ UNION Lists[q] \subseteq Ids
        BY IdsAssumption
    <2> QED
        BY <1>3, <1>5, <2>1
<1>7. ASSUME NEW q \in Protocols \ {p}
      PROVE  Rely(q) /\ CacheInv(q)'
    <2>1. \A e \in 1..Len(offers[q]) : NotOlder(q, e) <=> NotOlder(q, e)'
        <3> SUFFICES ASSUME NEW e \in 1..Len(offers[q]) PROVE NotOlder(q, e) <=> NotOlder(q, e)'
            OBVIOUS
        <3>1. offers[q][e] \in SUBSET (UNION Lists[q])
            BY <1>5
        <3> QED
            BY <1>6, <3>1 DEF NotOlder
    <2>2. CacheInv(q) /\ newest[q] \in 0..Len(offers[q]) /\ Len(offers[q]) \in Nat /\ newest'[q] = newest[q]
          /\ list'[q] = list[q] /\ (q \in backwards' <=> q \in backwards)
        BY <1>1, <1>2, OfferCount DEF Inv, CacheInv, CacheOK
    <2>3. Rely(q)
        BY <2>1, <2>2 DEF Rely
    <2>4. q \notin backwards' /\ list'[q] # 0 => list'[q] = newest'[q] /\ NotOlder(q, list[q])'
        <3> DEFINE e == list[q]
        <3>1. e \in 0..Len(offers[q])
            BY <2>2 DEF CacheInv
        <3>2. e # 0 => (NotOlder(q, e) => \A x \in offers'[q][e] : pool'[x] = 0 \/ pool'[x] >= e)
            <4> HIDE DEF e
            <4>1. e # 0 => e \in 1..Len(offers[q])
                BY <2>2, <3>1
            <4> QED
                BY <2>1, <4>1 DEF NotOlder
        <3> QED
            BY <2>2, <3>2 DEF CacheInv, NotOlder
    <2>5. \A x \in UNION Lists[q] : pool'[x] \in 0..Len(offers'[q])
        BY <1>6, <2>2 DEF CacheInv
    <2>6. hydrated'[q] # None => Whole(hydrated[q], q)'
        BY <2>2 DEF CacheInv, Whole
    <2> QED
        BY <2>2, <2>3, <2>4, <2>5, <2>6 DEF CacheInv
<1>8. Rely(p)
    <2>1. newest[p] <= newest'[p]
        BY <1>1, <1>2
    <2>2. ASSUME p \notin backwards', NEW e \in 1..newest[p], NotOlder(p, e)
          PROVE  NotOlder(p, e)'
        <3>1. ~(o < newest[p])
            BY <2>2
        <3>2. e <= o /\ e \in 1..Len(offers[p]) /\ e \in Nat
            BY <1>1, <3>1
        <3>3. ASSUME NEW x \in offers[p][e]
              PROVE  pool'[x] = 0 \/ pool'[x] >= e
            BY <1>1, <1>3, <1>5, <2>2, <3>2 DEF NotOlder
        <3> QED
            BY <3>3 DEF NotOlder
    <2> QED
        BY <1>1, <2>1, <2>2 DEF Rely
<1>9. CacheInv(p)'
    <2>1. list'[p] = o /\ newest'[p] \in 0..Len(offers[p])
        BY <1>1, <1>2 DEF CacheOK
    <2>2. \A x \in UNION Lists[p] : pool'[x] \in 0..Len(offers[p])
        <3>1. \A x \in UNION Lists[p] : x \in Ids /\ pool[x] \in 0..Len(offers[p])
            BY IdsAssumption DEF Inv, CacheInv
        <3> QED
            BY <1>1, <1>3, <3>1
    <2>3. hydrated'[p] # None => Whole(hydrated[p], p)'
        BY DEF Inv, CacheInv, Whole
    <2>4. ASSUME p \notin backwards'
          PROVE  o = newest'[p] /\ \A x \in offers[p][o] : pool'[x] >= o
        <3>1. o = newest'[p]
            BY <1>1, <1>2, <2>4
        <3>2. \A x \in offers[p][o] : pool'[x] = o
            BY <1>3, <1>5
        <3>3. \A x \in offers[p][o] : pool'[x] >= o
            <4>1. o >= o
                BY <1>1
            <4> QED
                BY <3>2, <4>1, Zenon
        <3> QED
            BY <3>1, <3>3
    <2>5. p \notin backwards' => NotOlder(p, list[p])'
        BY <2>1, <2>4 DEF NotOlder
    <2>6. list'[p] \in 0..Len(offers'[p]) /\ newest'[p] \in 0..Len(offers'[p])
        BY <1>1, <2>1
    <2> QED
        BY <2>1, <2>2, <2>3, <2>4, <2>5, <2>6 DEF CacheInv
<1> QED
    BY <1>4, <1>7, <1>8, <1>9

\* Storing an offer: a read goes on with its pools, a sync is done.
LEMMA StoreStep ==
    ASSUME Inv, NEW r \in Requests, NEW p \in Protocols, Store(r, p)
    PROVE  Inv'
<1> DEFINE part == parts[r][p]
           o == part.offer
           next == IF calls[r].kind # "read" THEN [Off EXCEPT !.at = "done"]
                   ELSE [part EXCEPT !.at = "hydrate", !.offer = 0, !.ids = offers[p][o], !.oldest = o]
<1>1. part.at = "store" /\ To(r, p, next) /\ faults' = faults
    BY DEF Store
<1>2. offers' = offers /\ parts'[r][p] = next /\ calls' = calls
    BY <1>1, PartNow
<1>3. /\ calls[r].at = "asked" /\ o \in 1..Len(offers[p]) /\ o >= part.since
      /\ part.since <= newest[p]
    BY <1>1, PartTypes DEF PartInv
<1>4. CacheOK' /\ \A q \in Protocols : Rely(q) /\ CacheInv(q)'
    <2>1. /\ list' = [list EXCEPT ![p] = o] /\ pool' = [x \in Ids |-> Stored(o, p, x)]
          /\ newest' = [newest EXCEPT ![p] = Max({@, o})] /\ hydrated' = hydrated
          /\ backwards' = IF o < newest[p] THEN backwards \cup {p} ELSE backwards
        BY DEF Store, Listed
    <2> HIDE DEF o
    <2> QED
        BY <1>2, <1>3, <2>1, StoreCache
<1>5. part.since <= newest'[p] /\ newest'[p] \in Nat
    <2>1. newest[p] <= newest'[p] /\ newest'[p] \in Nat
        BY <1>4 DEF Rely, CacheOK
    <2> QED
        BY <1>3, <2>1, PartTypes
<1>6. CASE calls[r].kind # "read"
    <2>1. next \in PartOf /\ next.at = "done" /\ next.since = 0 /\ next.oldest = 0
        BY <1>6 DEF PartOf, Off
    <2>2. PartInv(r, p)'
        BY <1>2, <1>3, <1>5, <1>6, <2>1 DEF PartInv
    <2> QED
        BY <1>1, <1>4, <2>1, <2>2, PartTypes, PartUpdate
<1>7. CASE calls[r].kind = "read"
    <2>1. offers[p][o] \in SUBSET Ids
        BY <1>3, PartTypes, OfferTypes
    <2>2. /\ next \in PartOf /\ next.at = "hydrate" /\ next.since = part.since
          /\ next.ids = offers[p][o] /\ next.oldest = o
        BY <1>7, <2>1, PartTypes DEF PartOf
    <2>3. \E e \in 1..Len(offers'[p]) : next.ids = offers'[p][e]
        BY <1>2, <1>3, <2>2
    <2> HIDE DEF next
    <2>4. PartInv(r, p)'
        BY <1>2, <1>3, <1>5, <1>7, <2>2, <2>3 DEF PartInv
    <2> QED
        BY <1>1, <1>4, <2>2, <2>4, PartTypes, PartUpdate
<1> QED
    BY <1>6, <1>7

\* What is kept for the next requests, and answered, are all pools of a list.
LEMMA HydrateStep ==
    ASSUME Inv, NEW r \in Requests, NEW p \in Protocols, Hydrate(r, p)
    PROVE  Inv'
<1> DEFINE part == parts[r][p]
           known == part.ids \ Unknown
           next == [part EXCEPT !.at = "done", !.ids = known]
<1>1. /\ part.at = "hydrate" /\ To(r, p, next) /\ faults' = faults
      /\ hydrated' = [hydrated EXCEPT ![p] = known] /\ UNCHANGED <<list, pool, newest, backwards>>
    BY DEF Hydrate, CacheIfErrorFree
<1>2. offers' = offers /\ parts'[r][p] = next /\ calls' = calls
    BY <1>1, PartNow
<1>3. /\ calls[r].at = "asked" /\ calls[r].kind = "read" /\ part.since <= newest[p]
      /\ p \notin backwards => part.oldest >= part.since
      /\ \E e \in 1..Len(offers[p]) : part.ids = offers[p][e]
    BY <1>1, PartTypes DEF PartInv
<1>4. Whole(known, p) /\ known \in SUBSET Ids
    BY <1>3, PartTypes DEF Whole
<1>5. CacheOK'
    BY <1>1, <1>2, <1>4, PartTypes DEF CacheOK
<1>6. ASSUME NEW q \in Protocols
      PROVE  Rely(q) /\ CacheInv(q)'
    <2>1. newest[q] \in Nat /\ Len(offers[q]) \in Nat /\ CacheInv(q)
        BY OfferCount DEF Inv
    <2>2. Rely(q)
        BY <1>1, <1>2, <2>1 DEF Rely, NotOlder
    <2>3. hydrated'[q] # None => Whole(hydrated[q], q)'
        <3>1. CASE q = p
            <4>1. hydrated'[p] = known
                BY <1>1, PartTypes DEF CacheOK
            <4>2. \E e \in 1..Len(offers'[p]) : hydrated'[p] = offers'[p][e] \ Unknown
                BY <1>2, <1>4, <4>1 DEF Whole
            <4> QED
                BY <3>1, <4>2 DEF Whole
        <3>2. CASE q # p
            <4>1. hydrated'[q] = hydrated[q]
                BY <1>1, <3>2, PartTypes DEF CacheOK
            <4> QED
                BY <1>2, <2>1, <4>1 DEF CacheInv, Whole
        <3> QED
            BY <3>1, <3>2
    <2> QED
        BY <1>1, <1>2, <2>1, <2>2, <2>3 DEF CacheInv, NotOlder
<1>7. next \in PartOf /\ next.at = "done" /\ next.since = part.since /\ next.oldest = part.oldest
      /\ next.ids = known
    BY <1>4, PartTypes DEF PartOf
<1>8. \E e \in 1..Len(offers'[p]) : next.ids = offers'[p][e] \ Unknown
    BY <1>2, <1>4, <1>7 DEF Whole
<1> HIDE DEF next
<1>9. PartInv(r, p)'
    BY <1>1, <1>2, <1>3, <1>7, <1>8 DEF PartInv, Whole
<1> QED
    BY <1>1, <1>5, <1>6, <1>7, <1>9, PartTypes, PartUpdate

\* A call that fails, or answers with an error, keeps nothing (Promise.allSettled).
LEMMA FailStep ==
    ASSUME Inv, NEW r \in Requests, NEW p \in Protocols,
           PartFails(r, p) \/ (\E ids \in SUBSET Ids : HydrateFails(r, p, ids))
    PROVE  Inv'
<1>1. PICK at \in {"failed", "error"} : To(r, p, [Off EXCEPT !.at = at])
    BY DEF PartFails, HydrateFails
<1>2. parts[r][p].at # "off" /\ Fault /\ UNCHANGED cacheVars
    BY DEF PartFails, HydrateFails, CacheIfErrorFree, cacheVars
<1> DEFINE next == [Off EXCEPT !.at = at]
<1>3. offers' = offers /\ parts'[r][p] = next /\ calls' = calls
    BY <1>1, PartNow
<1>4. CacheOK' /\ \A q \in Protocols : Rely(q) /\ CacheInv(q)'
    BY <1>2, <1>3, SameCache
<1>5. next \in PartOf /\ next.at = at /\ next.since = 0
    BY DEF PartOf, Off
<1>6. calls[r].at = "asked" /\ newest' = newest /\ newest[p] \in Nat
    BY <1>2, PartTypes DEF PartInv, cacheVars
<1>7. PartInv(r, p)'
    BY <1>3, <1>5, <1>6 DEF PartInv
<1>8. faults' \in 0..MaxFaults
    BY <1>2, PartTypes, BoundsAssumption DEF Fault
<1> QED
    BY <1>1, <1>4, <1>5, <1>7, <1>8, PartUpdate

-----------------------------------------------------------------------------
(* The steps of a request (PlatformService and RootPlatform). *)

\* A request takes a step, its parts are left alone or off, and the cache is left alone.
LEMMA CallUpdate ==
    ASSUME Inv, NEW r \in Requests, NEW call \in Call, calls' = [calls EXCEPT ![r] = call],
           UNCHANGED <<cacheVars, offers>>, InstancesOK', InstancesInv', PartsOK',
           \A s \in Requests \ {r} : parts'[s] = parts[s],
           \A p \in Protocols : PartInv(r, p)'
    PROVE  Inv'
<1>1. CacheOK' /\ \A p \in Protocols : Rely(p) /\ CacheInv(p)'
    BY SameCache
<1>2. ASSUME NEW s \in Requests \ {r}, NEW p \in Protocols
      PROVE  PartInv(s, p)'
    <2>1. calls'[s] = calls[s] /\ parts'[s][p] = parts[s][p]
        BY DEF Inv, InstancesOK
    <2> QED
        BY <1>1, <2>1, PartFrame DEF Inv
<1> QED
    BY <1>1, <1>2 DEF Inv

\* A part that is off knows nothing.
LEMMA OffPart ==
    ASSUME NEW r \in Requests, NEW p \in Protocols, parts'[r][p] = Off, newest'[p] \in Nat
    PROVE  PartInv(r, p)'
BY DEF PartInv, Off

\* The parts of a request that does not ask are off.
LEMMA PartsOff ==
    ASSUME Inv, NEW r \in Requests, NEW p \in Protocols, calls[r].at # "asked",
           parts' = parts, newest' = newest
    PROVE  PartInv(r, p)'
<1>1. parts[r][p].at = "off" /\ parts[r][p].since <= newest[p]
    BY PartTypes DEF PartInv
<1> QED
    BY <1>1 DEF PartInv

\* What a request takes on with its instance.
LEMMA WithTypes ==
    ASSUME NEW call \in Call, NEW i \in Creators, NEW initialised \in SUBSET Protocols
    PROVE  /\ With(call, i, initialised) \in Call
           /\ With(call, i, initialised).at = "ask" /\ With(call, i, initialised).inst = i
BY DEF With, Call, Chains

\* A request begins with the instance that is there, or makes its own (getPlatform).
LEMMA BeginStep ==
    ASSUME Inv, NEW r \in Requests, NEW ask \in Asks[r], Begin(r, ask)
    PROVE  Inv'
<1> DEFINE call == [Idle EXCEPT !.kind = ask.kind, !.chains = ask.chains]
           next == IF platform = None THEN [call EXCEPT !.at = "create"] ELSE With(call, platform, good[platform])
<1>1. /\ calls[r].at = "idle" /\ calls' = [calls EXCEPT ![r] = next]
      /\ UNCHANGED <<platformVars, parts, cacheVars, offers, faults>>
    BY DEF Begin
<1>2. call \in Call /\ call.inst = None
    <2>1. ask.kind \in Kinds /\ ask.chains \in SUBSET Chains
        BY AsksAssumption
    <2> QED
        BY <2>1 DEF Idle, Call
<1>3. /\ InstancesOK /\ InstancesInv /\ r \in Requests
      /\ platform' = platform /\ good' = good /\ bad' = bad /\ faults' = faults
    BY <1>1 DEF Inv, platformVars
<1>4. /\ next \in Call
      /\ \/ next.at = "create" /\ next.inst = None
         \/ next.at = "ask" /\ next.inst = platform /\ platform \in Creators /\ platform # None
    <2>1. CASE platform = None
        <3>1. next = [call EXCEPT !.at = "create"]
            BY <2>1
        <3> HIDE DEF call, next
        <3> QED
            BY <1>2, <3>1 DEF Call
    <2>2. CASE platform # None
        <3>1. platform \in Creators /\ good[platform] \in SUBSET Protocols
            BY <1>3, <2>2 DEF InstancesOK
        <3> HIDE DEF call
        <3> QED
            BY <1>2, <2>2, <3>1, WithTypes
    <2> QED
        BY <2>1, <2>2
<1> HIDE DEF next
<1>5. InstancesOK'
    BY <1>1, <1>3, <1>4 DEF InstancesOK
<1>6. InstancesInv'
    <2>1. \A s \in Requests : calls'[s] = IF s = r THEN next ELSE calls[s]
        BY <1>1, <1>3 DEF InstancesOK
    <2> QED
        BY <1>3, <1>4, <2>1 DEF InstancesInv
<1>7. \A p \in Protocols : PartInv(r, p)'
    BY <1>1, PartsOff DEF cacheVars
<1>8. PartsOK'
    BY <1>1 DEF Inv, PartsOK
<1> QED
    BY <1>1, <1>4, <1>5, <1>6, <1>7, <1>8, CallUpdate

\* The instance of a request has every protocol, initialised or with its error (register).
LEMMA CreateStep ==
    ASSUME Inv, NEW r \in Requests, NEW failed \in SUBSET Protocols, Create(r, failed)
    PROVE  Inv'
<1> DEFINE next == With(calls[r], r, Protocols \ failed)
<1>1. /\ calls[r].at = "create" /\ calls' = [calls EXCEPT ![r] = next]
      /\ good' = [good EXCEPT ![r] = Protocols \ failed] /\ bad' = [bad EXCEPT ![r] = failed]
      /\ platform' = r /\ UNCHANGED <<parts, cacheVars, offers>>
      /\ faults' = faults \/ Fault
    BY DEF Create
<1>2. InstancesOK /\ InstancesInv /\ r \in Creators /\ calls[r] \in Call
    BY DEF Inv, InstancesOK, Creators
<1>3. next \in Call /\ next.at = "ask" /\ next.inst = r
    BY <1>2, WithTypes
<1> HIDE DEF next
<1>4. faults' \in 0..MaxFaults
    BY <1>1, <1>2, BoundsAssumption DEF InstancesOK, Fault
<1>5. InstancesOK'
    BY <1>1, <1>2, <1>3, <1>4 DEF InstancesOK
<1>6. InstancesInv'
    <2>1. /\ \A s \in Requests : calls'[s] = IF s = r THEN next ELSE calls[s]
          /\ \A i \in Creators : good'[i] = IF i = r THEN Protocols \ failed ELSE good[i]
          /\ \A i \in Creators : bad'[i] = IF i = r THEN failed ELSE bad[i]
        BY <1>1, <1>2 DEF InstancesOK
    <2>2. \A s \in Requests : calls[s].inst \in Creators \cup {None}
        BY <1>2 DEF InstancesOK, Call
    <2>3. \A i \in Creators : good'[i] \cap bad'[i] = {}
        BY <1>2, <2>1 DEF InstancesInv
    <2>4. good'[r] \cup bad'[r] = Protocols
        BY <1>2, <2>1
    <2>5. ASSUME NEW s \in Requests
          PROVE  /\ calls'[s].at \in {"ask", "asked"} => calls'[s].inst \in Creators
                 /\ calls'[s].inst # None => good'[calls'[s].inst] \cup bad'[calls'[s].inst] = Protocols
        <3>1. CASE s = r
            BY <1>2, <1>3, <2>1, <2>4, <3>1
        <3>2. CASE s # r
            BY <1>2, <2>1, <2>2, <2>4, <3>2 DEF InstancesInv
        <3> QED
            BY <3>1, <3>2
    <2> QED
        BY <1>1, <2>3, <2>4, <2>5 DEF InstancesInv
<1>7. \A p \in Protocols : PartInv(r, p)'
    BY <1>1, PartsOff DEF cacheVars
<1>8. PartsOK'
    BY <1>1 DEF Inv, PartsOK
<1> QED
    BY <1>1, <1>3, <1>5, <1>6, <1>7, <1>8, CallUpdate

\* A protocol that is initialised after all moves from the errors to the protocols
\* (validatedProtocols).
LEMMA ValidateStep ==
    ASSUME Inv, NEW r \in Requests, NEW ok \in BOOLEAN, Validate(r, ok)
    PROVE  Inv'
<1> DEFINE i == calls[r].inst
<1>1. InstancesOK /\ InstancesInv /\ calls[r] \in Call /\ calls[r].at = "ask" /\ i \in Creators
    BY DEF Inv, InstancesOK, InstancesInv, Validate
<1>2. PICK p \in ToTry(calls[r]) :
          /\ good' = IF ok THEN [good EXCEPT ![i] = @ \cup {p}] ELSE good
          /\ bad' = IF ok THEN [bad EXCEPT ![i] = @ \ {p}] ELSE bad
          /\ calls' = [calls EXCEPT ![r].tried = @ \cup {p}]
    BY DEF Validate
<1>3. p \in bad[i] /\ p \in Protocols
    BY <1>1, <1>2 DEF ToTry, InstancesOK
<1> DEFINE next == [calls[r] EXCEPT !.tried = @ \cup {p}]
<1>4. /\ calls' = [calls EXCEPT ![r] = next] /\ next \in Call
      /\ next.at = "ask" /\ next.inst = i
    BY <1>1, <1>2, <1>3 DEF InstancesOK, Call
<1>5. platform' = platform /\ parts' = parts /\ UNCHANGED <<cacheVars, offers>> /\ (faults' = faults \/ Fault)
    BY DEF Validate
<1> HIDE DEF next
<1>6. /\ good' \in [Creators -> SUBSET Protocols] /\ bad' \in [Creators -> SUBSET Protocols]
      /\ \A j \in Creators : good'[j] \cap bad'[j] = {} /\ good'[j] \cup bad'[j] = good[j] \cup bad[j]
    BY <1>1, <1>2, <1>3 DEF InstancesOK, InstancesInv
<1>7. faults' \in 0..MaxFaults
    BY <1>1, <1>5, BoundsAssumption DEF InstancesOK, Fault
<1>8. InstancesOK'
    BY <1>1, <1>4, <1>5, <1>6, <1>7 DEF InstancesOK
<1>9. InstancesInv'
    <2>1. \A s \in Requests : calls'[s] = IF s = r THEN next ELSE calls[s]
        BY <1>1, <1>4 DEF InstancesOK
    <2>2. \A s \in Requests : calls[s].inst \in Creators \cup {None}
        BY <1>1 DEF InstancesOK, Call
    <2>3. platform' # None => good'[platform'] \cup bad'[platform'] = Protocols
        BY <1>1, <1>5, <1>6 DEF InstancesOK, InstancesInv
    <2> QED
        BY <1>1, <1>4, <1>6, <2>1, <2>2, <2>3 DEF InstancesInv
<1>10. \A q \in Protocols : PartInv(r, q)'
    BY <1>1, <1>5, PartsOff DEF cacheVars
<1>11. PartsOK'
    BY <1>5 DEF Inv, PartsOK
<1> QED
    BY <1>4, <1>5, <1>8, <1>9, <1>10, <1>11, CallUpdate

\* The protocols are asked, and a read remembers the newest offer that was stored.
LEMMA AskStep ==
    ASSUME Inv, NEW r \in Requests, Ask(r)
    PROVE  Inv'
<1> DEFINE call == calls[r]
           asked == {p \in good[call.inst] : ChainOf[p] \in call.chains}
           Part0(p) == IF p \notin asked THEN Off
                       ELSE IF call.kind = "read" THEN [Off EXCEPT !.at = "hydrated", !.since = newest[p]]
                       ELSE [Off EXCEPT !.at = "fetch"]
           next == [call EXCEPT !.at = "asked"]
<1>1. /\ call.at = "ask" /\ parts' = [parts EXCEPT ![r] = [p \in Protocols |-> Part0(p)]]
      /\ UNCHANGED <<platformVars, cacheVars, offers, faults>>
    BY DEF Ask
<1>2. /\ InstancesOK /\ InstancesInv /\ PartsOK /\ call \in Call
      /\ platform' = platform /\ good' = good /\ bad' = bad /\ faults' = faults
    BY <1>1 DEF Inv, InstancesOK, platformVars
<1>3. /\ calls' = [calls EXCEPT ![r] = next] /\ next \in Call
      /\ next.at = "asked" /\ next.inst = call.inst /\ next.kind = call.kind
    BY <1>2 DEF Ask, InstancesOK, Call
<1> HIDE DEF next
<1>4. InstancesOK'
    BY <1>2, <1>3 DEF InstancesOK
<1>5. InstancesInv'
    <2>1. \A s \in Requests : calls'[s] = IF s = r THEN next ELSE calls[s]
        BY <1>2, <1>3 DEF InstancesOK
    <2>2. ASSUME NEW s \in Requests
          PROVE  /\ calls'[s].at \in {"ask", "asked"} => calls'[s].inst \in Creators
                 /\ calls'[s].inst # None => good'[calls'[s].inst] \cup bad'[calls'[s].inst] = Protocols
        <3>1. call.inst \in Creators /\ (call.inst # None => good[call.inst] \cup bad[call.inst] = Protocols)
            BY <1>1, <1>2 DEF InstancesInv
        <3>2. CASE s = r
            BY <1>2, <1>3, <2>1, <3>1, <3>2
        <3>3. CASE s # r
            BY <1>2, <2>1, <3>3 DEF InstancesInv
        <3> QED
            BY <3>2, <3>3
    <2> QED
        BY <1>2, <2>2 DEF InstancesInv
<1>6. ASSUME NEW p \in Protocols
      PROVE  /\ Part0(p) \in PartOf
             /\ \/ Part0(p) = Off
                \/ Part0(p).at = "hydrated" /\ Part0(p).since = newest[p] /\ call.kind = "read"
                \/ Part0(p).at = "fetch" /\ Part0(p).since = 0
    <2>1. newest[p] \in Nat
        BY PartTypes
    <2> HIDE DEF asked, call
    <2> QED
        BY <2>1 DEF PartOf, Off
<1> HIDE DEF Part0
<1>7. PartsOK' /\ \A p \in Protocols : parts'[r][p] = Part0(p)
    BY <1>1, <1>2, <1>6 DEF PartsOK
<1>8. ASSUME NEW p \in Protocols
      PROVE  PartInv(r, p)'
    <2>1. newest' = newest /\ newest[p] \in Nat /\ calls'[r] = next
        BY <1>1, <1>2, <1>3, PartTypes DEF cacheVars, InstancesOK
    <2> QED
        BY <1>3, <1>6, <1>7, <2>1, OffPart DEF PartInv
<1> QED
    BY <1>1, <1>2, <1>3, <1>4, <1>5, <1>7, <1>8, CallUpdate DEF PartsOK

\* The request ends, or goes on as a read, with all its parts off; or it could not be given an
\* instance.
LEMMA FinishStep ==
    ASSUME Inv, NEW r \in Requests, Finish(r) \/ CreateFails(r)
    PROVE  Inv'
<1> DEFINE again == [calls[r] EXCEPT !.kind = "read", !.at = "ask"]
<1>1. /\ InstancesOK /\ InstancesInv /\ PartsOK /\ calls[r] \in Call
      /\ platform' = platform /\ good' = good /\ bad' = bad /\ UNCHANGED <<cacheVars, offers>>
      /\ faults' = faults \/ Fault
    BY DEF Inv, InstancesOK, Finish, CreateFails, platformVars
<1>2. PICK next : /\ calls' = [calls EXCEPT ![r] = next]
                  /\ \/ next = Idle
                     \/ next = again /\ calls[r].at = "asked"
    <2>1. CASE Finish(r)
        <3>1. \/ calls' = [calls EXCEPT ![r] = Idle]
              \/ calls' = [calls EXCEPT ![r] = again]
            BY <1>1, <2>1 DEF Finish, InstancesOK
        <3> HIDE DEF again
        <3> QED
            BY <2>1, <3>1 DEF Finish
    <2>2. CASE CreateFails(r)
        BY <2>2 DEF CreateFails
    <2> QED
        BY <2>1, <2>2
<1>3. Idle \in Call /\ Idle.inst = None /\ Idle.at = "idle"
    BY DEF Idle, Call, Kinds
<1>4. again \in Call /\ again.inst = calls[r].inst
    BY <1>1 DEF Call, Kinds
<1> HIDE DEF again
<1>5. /\ next \in Call
      /\ \/ next.inst = None /\ next.at = "idle"
         \/ next.inst = calls[r].inst /\ calls[r].at = "asked"
    BY <1>2, <1>3, <1>4
<1>6. faults' \in 0..MaxFaults
    BY <1>1, BoundsAssumption DEF InstancesOK, Fault
<1>7. InstancesOK'
    BY <1>1, <1>2, <1>5, <1>6 DEF InstancesOK
<1>8. InstancesInv'
    <2>1. \A s \in Requests : calls'[s] = IF s = r THEN next ELSE calls[s]
        BY <1>1, <1>2 DEF InstancesOK
    <2> QED
        BY <1>1, <1>5, <2>1 DEF InstancesInv
<1>9. /\ PartsOK' /\ \A s \in Requests \ {r} : parts'[s] = parts[s]
      /\ \A p \in Protocols : PartInv(r, p)'
    <2>1. CASE Finish(r)
        <3>1. parts' = [parts EXCEPT ![r] = [p \in Protocols |-> Off]] /\ Off \in PartOf
            BY <2>1 DEF Finish, Off, PartOf
        <3>2. PartsOK' /\ \A p \in Protocols : parts'[r][p] = Off
            BY <1>1, <3>1 DEF PartsOK
        <3>3. \A p \in Protocols : newest'[p] \in Nat
            BY <1>1, PartTypes DEF cacheVars
        <3> QED
            BY <1>1, <3>1, <3>2, <3>3, OffPart DEF PartsOK
    <2>2. CASE CreateFails(r)
        <3>1. parts' = parts /\ calls[r].at # "asked" /\ newest' = newest
            BY <2>2 DEF CreateFails, cacheVars
        <3> QED
            BY <1>1, <3>1, PartsOff DEF PartsOK
    <2> QED
        BY <2>1, <2>2
<1> QED
    BY <1>1, <1>2, <1>5, <1>7, <1>8, <1>9, CallUpdate

-----------------------------------------------------------------------------
(* The steps of Redis, of the chain and of the process. *)

\* A step of the cache or the chain that may be relied on.
LEMMA CacheUpdate ==
    ASSUME Inv, UNCHANGED <<platformVars, calls, parts, faults>>,
           CacheOK', \A p \in Protocols : Rely(p) /\ CacheInv(p)'
    PROVE  Inv'
<1>1. platform' = platform /\ good' = good /\ bad' = bad /\ calls' = calls /\ parts' = parts
      /\ faults' = faults
    BY DEF platformVars
<1>2. InstancesOK' /\ InstancesInv' /\ PartsOK'
    BY <1>1 DEF Inv, InstancesOK, InstancesInv, PartsOK
<1>3. \A r \in Requests, p \in Protocols : PartInv(r, p)'
    BY <1>1, PartFrame DEF Inv
<1> QED
    BY <1>2, <1>3 DEF Inv

\* What expires is not there; nothing gets older.
LEMMA ExpireStep ==
    ASSUME Inv, \/ \E p \in Protocols : ExpireHydrated(p) \/ ExpireList(p)
                \/ \E x \in Ids : ExpirePool(x)
    PROVE  Inv'
<1>1. UNCHANGED <<platformVars, calls, parts, faults>> /\ newest' = newest /\ backwards' = backwards
      /\ offers' = offers
    BY DEF ExpireHydrated, ExpireList, ExpirePool
<1>2. /\ list' \in [Protocols -> Nat] /\ pool' \in [Ids -> Nat]
      /\ hydrated' \in [Protocols -> (SUBSET Ids) \cup {None}]
      /\ \A p \in Protocols : list'[p] \in {0, list[p]} /\ hydrated'[p] \in {None, hydrated[p]}
      /\ \A x \in Ids : pool'[x] \in {0, pool[x]}
    <2>1. /\ list \in [Protocols -> Nat] /\ pool \in [Ids -> Nat]
          /\ hydrated \in [Protocols -> (SUBSET Ids) \cup {None}]
        BY DEF Inv, CacheOK
    <2>2. CASE \E p \in Protocols : ExpireHydrated(p)
        BY <2>1, <2>2 DEF ExpireHydrated
    <2>3. CASE \E p \in Protocols : ExpireList(p)
        BY <2>1, <2>3 DEF ExpireList
    <2>4. CASE \E x \in Ids : ExpirePool(x)
        BY <2>1, <2>4 DEF ExpirePool
    <2> QED
        BY <2>2, <2>3, <2>4
<1>3. CacheOK'
    BY <1>1, <1>2 DEF Inv, CacheOK
<1>4. ASSUME NEW p \in Protocols
      PROVE  Rely(p) /\ CacheInv(p)'
    <2>1. newest[p] \in Nat /\ Len(offers[p]) \in Nat /\ CacheInv(p) /\ CacheOK
        BY OfferCount DEF Inv
    <2>2. ASSUME NEW e \in 1..Len(offers[p]), NotOlder(p, e)
          PROVE  \A x \in offers'[p][e] : pool'[x] = 0 \/ pool'[x] >= e
        <3>1. offers[p][e] \in SUBSET Ids
            BY <2>1, OfferTypes
        <3> QED
            BY <1>1, <1>2, <2>2, <3>1 DEF NotOlder
    <2>3. Rely(p)
        <3>1. \A e \in 1..newest[p] : e \in 1..Len(offers[p])
            BY <2>1 DEF CacheInv
        <3> QED
            BY <1>1, <2>1, <2>2, <3>1 DEF Rely, NotOlder
    <2>4. UNION Lists[p] \subseteq Ids
        BY IdsAssumption
    <2>5. \A x \in UNION Lists[p] : pool'[x] \in 0..Len(offers'[p])
        <3>1. \A x \in UNION Lists[p] : pool[x] \in 0..Len(offers[p]) /\ pool'[x] \in {0, pool[x]}
            BY <1>2, <2>1, <2>4 DEF CacheInv
        <3>2. 0 \in 0..Len(offers[p])
            BY <2>1
        <3> QED
            BY <1>1, <3>1, <3>2
    <2>6. hydrated'[p] # None => Whole(hydrated[p], p)'
        BY <1>1, <1>2, <2>1 DEF CacheInv, Whole
    <2>7. p \notin backwards' /\ list'[p] # 0 => list'[p] = newest'[p] /\ NotOlder(p, list[p])'
        <3> SUFFICES ASSUME p \notin backwards', list'[p] # 0
                     PROVE  list'[p] = newest'[p] /\ NotOlder(p, list[p])'
            OBVIOUS
        <3> DEFINE e == list[p]
        <3>1. e # 0 /\ list'[p] = e
            BY <1>2
        <3>2. e \in 1..Len(offers[p]) /\ e = newest[p] /\ NotOlder(p, e)
            BY <1>1, <2>1, <3>1 DEF CacheInv
        <3>3. \A x \in offers'[p][e] : pool'[x] = 0 \/ pool'[x] >= e
            <4> HIDE DEF e
            <4> QED
                BY <2>2, <3>2
        <3> QED
            BY <1>1, <3>1, <3>2, <3>3 DEF NotOlder
    <2>8. list'[p] \in 0..Len(offers'[p]) /\ newest'[p] \in 0..Len(offers'[p])
        BY <1>1, <1>2, <2>1 DEF CacheInv
    <2> QED
        BY <2>3, <2>5, <2>6, <2>7, <2>8 DEF CacheInv
<1> QED
    BY <1>1, <1>3, <1>4, CacheUpdate

\* A new offer leaves the others where they are.
LEMMA OfferStep ==
    ASSUME Inv, NEW p \in Protocols, NEW ids \in Lists[p], Offer(p, ids)
    PROVE  Inv'
<1>1. UNCHANGED <<platformVars, calls, parts, faults>>
      /\ UNCHANGED <<list, pool, hydrated, newest, backwards>>
      /\ offers' = [offers EXCEPT ![p] = Append(@, ids)]
    BY DEF Offer, cacheVars
<1>2. CacheOK
    BY DEF Inv
<1>3. ASSUME NEW q \in Protocols
      PROVE  /\ offers'[q] \in Seq(Pools(q)) /\ Len(offers'[q]) > 0
             /\ Len(offers[q]) \in Nat /\ Len(offers'[q]) \in Nat /\ Len(offers[q]) <= Len(offers'[q])
             /\ \A e \in 1..Len(offers[q]) : offers'[q][e] = offers[q][e]
    <2>1. offers[q] \in Seq(Pools(q)) /\ Len(offers[q]) > 0 /\ Len(offers[q]) \in Nat
        BY <1>2, OfferCount DEF CacheOK
    <2>2. CASE q = p
        <3>1. offers'[q] = Append(offers[q], ids) /\ ids \in Pools(q)
            BY <1>1, <1>2, <2>2 DEF CacheOK, Pools
        <3>2. offers'[q] \in Seq(Pools(q)) /\ Len(offers'[q]) = Len(offers[q]) + 1
            BY <2>1, <3>1, OneMore
        <3>3. \A e \in 1..Len(offers[q]) : offers'[q][e] = offers[q][e]
            BY <2>1, <3>1, OneMore
        <3> QED
            BY <2>1, <3>2, <3>3
    <2>3. CASE q # p
        <3>1. offers'[q] = offers[q]
            BY <1>1, <1>2, <2>3 DEF CacheOK
        <3> QED
            BY <2>1, <3>1
    <2> QED
        BY <2>2, <2>3
<1>4. CacheOK'
    BY <1>1, <1>2, <1>3 DEF CacheOK
<1>5. ASSUME NEW q \in Protocols
      PROVE  Rely(q) /\ CacheInv(q)'
    <2>1. newest[q] \in Nat /\ CacheInv(q) /\ newest[q] \in 0..Len(offers[q]) /\ list[q] \in 0..Len(offers[q])
        BY <1>2, OfferCount DEF Inv, CacheInv
    <2>2. ASSUME NEW e \in 1..Len(offers[q]), NotOlder(q, e)
          PROVE  \A x \in offers'[q][e] : pool'[x] = 0 \/ pool'[x] >= e
        BY <1>1, <1>3, <2>2 DEF NotOlder
    <2>3. Rely(q)
        <3>1. \A e \in 1..newest[q] : e \in 1..Len(offers[q])
            BY <1>3, <2>1
        <3> QED
            BY <1>1, <1>3, <2>1, <2>2, <3>1 DEF Rely, NotOlder
    <2>4. hydrated'[q] # None => Whole(hydrated[q], q)'
        BY <1>1, <1>2, <1>4, <2>1, <2>3, WholeStays DEF CacheInv, Whole
    <2>5. q \notin backwards' /\ list'[q] # 0 => list'[q] = newest'[q] /\ NotOlder(q, list[q])'
        <3> SUFFICES ASSUME q \notin backwards, list[q] # 0
                     PROVE  list[q] = newest[q] /\ NotOlder(q, list[q])'
            BY <1>1
        <3> DEFINE e == list[q]
        <3>1. e \in 1..Len(offers[q]) /\ e = newest[q] /\ NotOlder(q, e)
            BY <1>3, <2>1 DEF CacheInv
        <3>2. \A x \in offers'[q][e] : pool'[x] = 0 \/ pool'[x] >= e
            <4> HIDE DEF e
            <4> QED
                BY <2>2, <3>1
        <3> QED
            BY <1>1, <3>1, <3>2 DEF NotOlder
    <2>6. \A n \in 0..Len(offers[q]) : n \in 0..Len(offers'[q])
        <3>1. Len(offers[q]) \in Nat /\ Len(offers'[q]) \in Nat /\ Len(offers[q]) <= Len(offers'[q])
            BY <1>3
        <3> QED
            BY <3>1
    <2>7. /\ \A x \in UNION Lists[q] : pool'[x] \in 0..Len(offers'[q])
          /\ list'[q] \in 0..Len(offers'[q]) /\ newest'[q] \in 0..Len(offers'[q])
        BY <1>1, <2>1, <2>6 DEF CacheInv
    <2> QED
        BY <2>3, <2>4, <2>5, <2>7 DEF CacheInv
<1> QED
    BY <1>1, <1>4, <1>5, CacheUpdate

\* The instance that the start of the service makes (onApplicationBootstrap).
LEMMA BootedInstance ==
    ASSUME NEW rejected \in BOOLEAN, NEW failed \in SUBSET Protocols
    PROVE  LET b == Booted(rejected, failed) IN
           /\ b.platform \in Creators \cup {None}
           /\ b.good \in [Creators -> SUBSET Protocols] /\ b.bad \in [Creators -> SUBSET Protocols]
           /\ \A i \in Creators : b.good[i] \cap b.bad[i] = {}
           /\ b.platform # None => b.good[b.platform] \cup b.bad[b.platform] = Protocols
<1> DEFINE b == Booted(rejected, failed)
<1>1. "boot" \in Creators
    BY DEF Creators
<1>2. /\ b.platform = IF rejected THEN None ELSE "boot"
      /\ b.good = [i \in Creators |-> IF i = "boot" /\ ~rejected THEN Protocols \ failed ELSE {}]
      /\ b.bad = [i \in Creators |-> IF i = "boot" /\ ~rejected THEN failed ELSE {}]
    BY DEF Booted
<1> HIDE DEF b
<1>3. /\ b.good \in [Creators -> SUBSET Protocols] /\ b.bad \in [Creators -> SUBSET Protocols]
      /\ \A i \in Creators : b.good[i] \cap b.bad[i] = {}
    BY <1>2
<1>4. CASE rejected
    BY <1>2, <1>3, <1>4 DEF b
<1>5. CASE ~rejected
    <2>1. b.platform = "boot" /\ b.good["boot"] = Protocols \ failed /\ b.bad["boot"] = failed
        BY <1>1, <1>2, <1>5
    <2> QED
        BY <1>1, <1>3, <2>1 DEF b
<1> QED
    BY <1>4, <1>5

\* A fresh process has its instance, and no request.
LEMMA FreshProcess ==
    ASSUME NEW rejected \in BOOLEAN, NEW failed \in SUBSET Protocols,
           platform = Booted(rejected, failed).platform, good = Booted(rejected, failed).good,
           bad = Booted(rejected, failed).bad, calls = [r \in Requests |-> Idle],
           parts = [r \in Requests |-> [p \in Protocols |-> Off]], faults \in 0..MaxFaults
    PROVE  InstancesOK /\ InstancesInv /\ PartsOK
<1>1. Idle \in Call /\ Idle.inst = None /\ Idle.at = "idle" /\ Off \in PartOf
    BY DEF Idle, Call, Kinds, Off, PartOf
<1>2. PartsOK /\ calls \in [Requests -> Call] /\ \A r \in Requests : calls[r] = Idle
    BY <1>1 DEF PartsOK
<1>3. InstancesOK
    BY <1>2, BootedInstance DEF InstancesOK
<1>4. InstancesInv
    BY <1>1, <1>2, BootedInstance DEF InstancesInv
<1> QED
    BY <1>2, <1>3, <1>4

\* A restart leaves Redis as it is.
LEMMA RestartStep ==
    ASSUME Inv, Restart
    PROVE  Inv'
<1>1. PICK rejected \in BOOLEAN, failed \in SUBSET Protocols :
          /\ platform' = Booted(rejected, failed).platform /\ good' = Booted(rejected, failed).good
          /\ bad' = Booted(rejected, failed).bad
    BY DEF Restart
<1>2. /\ calls' = [r \in Requests |-> Idle] /\ parts' = [r \in Requests |-> [p \in Protocols |-> Off]]
      /\ UNCHANGED <<cacheVars, offers>> /\ Fault
    BY DEF Restart
<1>3. faults' \in 0..MaxFaults
    BY <1>2, BoundsAssumption DEF Inv, InstancesOK, Fault
<1>4. InstancesOK' /\ InstancesInv' /\ PartsOK'
    <2>1. Idle \in Call /\ Idle.inst = None /\ Idle.at = "idle" /\ Off \in PartOf
        BY DEF Idle, Call, Kinds, Off, PartOf
    <2>2. PartsOK' /\ calls' \in [Requests -> Call] /\ \A r \in Requests : calls'[r] = Idle
        BY <1>2, <2>1 DEF PartsOK
    <2>3. InstancesOK'
        BY <1>1, <1>3, <2>2, BootedInstance DEF InstancesOK
    <2>4. InstancesInv'
        BY <1>1, <2>1, <2>2, BootedInstance DEF InstancesInv
    <2> QED
        BY <2>2, <2>3, <2>4
<1>5. CacheOK' /\ \A p \in Protocols : Rely(p) /\ CacheInv(p)'
    BY <1>2, SameCache
<1>6. \A r \in Requests, p \in Protocols : parts'[r][p] = Off /\ newest'[p] \in Nat
    BY <1>2, <1>5 DEF CacheOK
<1> QED
    BY <1>4, <1>5, <1>6, OffPart DEF Inv

\* A service that starts with an empty cache.
LEMMA InitInv == Init => Inv
<1> SUFFICES ASSUME Init PROVE Inv
    OBVIOUS
<1>1. InstancesOK /\ InstancesInv /\ PartsOK
    <2>1. PICK rejected \in BOOLEAN, failed \in SUBSET Protocols :
              /\ platform = Booted(rejected, failed).platform /\ good = Booted(rejected, failed).good
              /\ bad = Booted(rejected, failed).bad
        BY DEF Init
    <2>2. faults \in 0..MaxFaults
        BY BoundsAssumption DEF Init
    <2> QED
        BY <2>1, <2>2, FreshProcess DEF Init
<1>2. \A p \in Protocols : /\ list[p] = 0 /\ newest[p] = 0 /\ hydrated[p] = None
                           /\ offers[p] = <<UNION Lists[p]>>
    BY DEF Init
<1>3. \A p \in Protocols : offers[p] \in Seq(Pools(p)) /\ Len(offers[p]) = 1
    <2> SUFFICES ASSUME NEW p \in Protocols
                 PROVE  offers[p] \in Seq(Pools(p)) /\ Len(offers[p]) = 1
        OBVIOUS
    <2>1. offers[p] = <<UNION Lists[p]>> /\ UNION Lists[p] \in Pools(p)
        BY <1>2 DEF Pools
    <2> QED
        BY <2>1
<1>4. CacheOK
    <2>1. /\ list \in [Protocols -> Nat] /\ newest \in [Protocols -> Nat] /\ pool \in [Ids -> Nat]
          /\ hydrated \in [Protocols -> (SUBSET Ids) \cup {None}] /\ DOMAIN offers = Protocols
          /\ backwards \subseteq Protocols
        BY DEF Init
    <2>2. \A p \in Protocols : Len(offers[p]) > 0
        BY <1>3
    <2> QED
        BY <1>3, <2>1, <2>2 DEF CacheOK
<1>5. ASSUME NEW p \in Protocols
      PROVE  CacheInv(p)
    <2>1. \A x \in UNION Lists[p] : x \in Ids
        BY IdsAssumption
    <2>2. \A x \in UNION Lists[p] : pool[x] = 0
        BY <2>1 DEF Init
    <2>3. 0 \in 0..Len(offers[p])
        BY <1>3
    <2> QED
        BY <1>2, <2>2, <2>3 DEF CacheInv
<1>6. ASSUME NEW r \in Requests, NEW p \in Protocols
      PROVE  PartInv(r, p)
    <2>1. parts[r][p] = Off
        BY DEF Init
    <2>2. newest[p] = 0 /\ parts[r][p].at = "off" /\ parts[r][p].since = 0
        <3>1. newest[p] = 0
            BY DEF Init
        <3>2. Off.at = "off" /\ Off.since = 0
            BY DEF Off
        <3> QED
            BY <2>1, <3>1, <3>2
    <2> QED
        BY <2>2 DEF PartInv
<1> QED
    BY <1>1, <1>4, <1>5, <1>6 DEF Inv

\* Every step keeps the invariant.
LEMMA NextInv == Inv /\ [Next]_vars => Inv'
<1> SUFFICES ASSUME Inv, [Next]_vars PROVE Inv'
    OBVIOUS
<1>1. ASSUME NEW r \in Requests, Work(r)
      PROVE  Inv'
    <2>1. ASSUME NEW p \in Protocols, Part(r, p)
          PROVE  Inv'
        BY <2>1, GetHydratedStep, GetListStep, GetPoolsStep, FetchStep, StoreStep, HydrateStep DEF Part
    <2> QED
        BY <1>1, <2>1, CreateStep, ValidateStep, AskStep, FinishStep DEF Work
<1>2. CASE UNCHANGED vars
    <2>1. UNCHANGED <<platformVars, calls, parts, faults>> /\ UNCHANGED <<cacheVars, offers>>
        BY <1>2 DEF vars
    <2> QED
        BY <2>1, SameCache, CacheUpdate
<1>3. ASSUME NEW r \in Requests, \/ \E ask \in Asks[r] : Begin(r, ask)
                                 \/ \E failed \in (SUBSET Protocols) \ {{}} : Create(r, failed)
                                 \/ CreateFails(r) \/ Validate(r, FALSE)
                                 \/ \E p \in Protocols : \/ PartFails(r, p)
                                                         \/ \E ids \in SUBSET Ids : HydrateFails(r, p, ids)
      PROVE  Inv'
    <2>1. CASE \E p \in Protocols : \/ PartFails(r, p)
                                    \/ \E ids \in SUBSET Ids : HydrateFails(r, p, ids)
        BY <2>1, FailStep
    <2>2. CASE \E failed \in (SUBSET Protocols) \ {{}} : Create(r, failed)
        BY <2>2, CreateStep
    <2>3. CASE CreateFails(r) \/ Validate(r, FALSE) \/ \E ask \in Asks[r] : Begin(r, ask)
        BY <2>3, FinishStep, ValidateStep, BeginStep
    <2> QED
        BY <1>3, <2>1, <2>2, <2>3
<1> QED
    BY <1>1, <1>2, <1>3, ExpireStep, OfferStep, RestartStep DEF Next

-----------------------------------------------------------------------------
(* Results. *)

\* The types, and that no protocol of a platform is lost between those that are initialised and
\* those with an error (registerProtocol, validatedProtocols), for any number of them.
THEOREM TypesAreCorrect == Spec => []TypeOK
<1>1. Inv => TypeOK
    <2> SUFFICES ASSUME Inv PROVE TypeOK
        OBVIOUS
    <2>1. ASSUME NEW i \in {platform} \cup {calls[r].inst : r \in Requests}, i # None
          PROVE  good[i] \cup bad[i] = Protocols
        BY <2>1 DEF Inv, InstancesInv
    <2>2. \A r \in Requests : calls[r].chains \subseteq Chains
        BY DEF Inv, InstancesOK, Call
    <2> QED
        BY <2>1, <2>2 DEF Inv, TypeOK, InstancesOK, InstancesInv, CacheOK, CacheInv
<1> QED
    BY <1>1, InitInv, NextInv, PTL DEF Spec

\* Answers without errors, and those that are kept, have all pools of one list, however the list
\* and the pools expire and are stored between the reads (getPoolData).
THEOREM WholeAnswers == Spec => []AnswersAreWhole
<1>1. Inv => AnswersAreWhole
    BY DEF Inv, AnswersAreWhole, CacheInv, PartInv
<1> QED
    BY <1>1, InitInv, NextInv, PTL DEF Spec

\* An answer has no pool older than the last sync before the request, unless a slow fetch was
\* stored after a newer one (cachePoolData).
THEOREM SyncedIsRead == Spec => []ReadsWhatWasSynced
<1>1. Inv => ReadsWhatWasSynced
    BY DEF Inv, ReadsWhatWasSynced, PartInv
<1> QED
    BY <1>1, InitInv, NextInv, PTL DEF Spec

================================================================================
