----------------------------- MODULE RpcProxyProofs -----------------------------
(***************************************************************************)
(* For any number of endpoints, chains, calls and loads, any length of the *)
(* lists and any interleaving of the timers, calls and score updates: the  *)
(* list of a chain is what the last load brought, a call that is given up  *)
(* on has used its tries evenly, the cached scores are newest first, and   *)
(* none is lost while the updates of an endpoint do not overlap. The       *)
(* proofs rest on lemmas about filters, reorderings and the round-robin.   *)
(***************************************************************************)
EXTENDS RpcProxy, FiniteSetTheorems, WellFoundedInduction, TLAPS

-----------------------------------------------------------------------------
(* Filters and reorderings. *)

\* A set of numbers that is not empty has a least one.
LEMMA LeastNumber ==
    ASSUME NEW S \in SUBSET Nat, S # {}
    PROVE  \E m \in S : \A k \in S : m <= k
<1> DEFINE Less == {p \in Nat \X Nat : p[1] < p[2]}
<1>1. IsWellFoundedOn(Less, Nat)
    BY NatLessThanWellFounded DEF OpToRel
<1>2. \E m \in S : \A k \in S : ~(<<k, m>> \in Less)
    <2> HIDE DEF Less
    <2> QED
        BY <1>1, WFMin
<1>3. PICK m \in S : \A k \in S : ~(<<k, m>> \in Less)
    BY <1>2
<1>4. ASSUME NEW k \in S
      PROVE  m <= k
    <2>1. k \in Nat /\ m \in Nat
        OBVIOUS
    <2>2. ~(<<k, m>> \in {p \in Nat \X Nat : p[1] < p[2]})
        BY <1>3
    <2> QED
        BY <2>1, <2>2
<1> QED
    BY <1>3, <1>4

\* A set of positions is finite, and so is its part up to a position.
LEMMA PositionsAreFinite ==
    ASSUME NEW m \in Nat, NEW K \in SUBSET (1..m)
    PROVE  /\ IsFiniteSet(K) /\ Cardinality(K) \in Nat /\ Cardinality(K) <= m
           /\ \A i \in 1..m : /\ IsFiniteSet({x \in K : x <= i})
                              /\ Cardinality({x \in K : x <= i}) \in Nat
<1>1. IsFiniteSet(1..m) /\ Cardinality(1..m) = m
    BY FS_Interval
<1>2. IsFiniteSet(K) /\ Cardinality(K) <= m
    BY <1>1, FS_Subset
<1>3. ASSUME NEW i \in 1..m
      PROVE  IsFiniteSet({x \in K : x <= i})
    BY <1>2, FS_Subset
<1> QED
    BY <1>2, <1>3, FS_CardinalityType

\* The positions that a filter keeps have a j-th one for each j up to their number.
LEMMA NthPosition ==
    ASSUME NEW n \in Nat, NEW K \in SUBSET (1..n), NEW j \in 1..Cardinality(K)
    PROVE  \E i \in K : Cardinality({x \in K : x <= i}) = j
<1> DEFINE Nth(T, k) == \E i \in T : Cardinality({x \in T : x <= i}) = k
           Missing == {m \in Nat : \E T \in SUBSET (1..m) : \E k \in 1..Cardinality(T) : ~Nth(T, k)}
<1>1. SUFFICES ASSUME Missing # {} PROVE FALSE
    <2> HIDE DEF Nth
    <2>1. n \notin Missing
        BY <1>1
    <2>2. Nth(K, j)
        BY <2>1
    <2> QED
        BY <2>2 DEF Nth
<1>2. PICK m \in Missing : \A k \in Missing : m <= k
    <2> HIDE DEF Missing
    <2>1. Missing \subseteq Nat
        BY DEF Missing
    <2> QED
        BY <1>1, <2>1, LeastNumber
<1>0. PICK T \in SUBSET (1..m) : \E k \in 1..Cardinality(T) : ~Nth(T, k)
    BY <1>2
<1>3. PICK k \in 1..Cardinality(T) : ~Nth(T, k)
    BY <1>0
<1>4. m \in Nat /\ Cardinality(T) \in Nat /\ IsFiniteSet(T)
    BY <1>2, PositionsAreFinite
<1>5. T # {}
    BY <1>3, <1>4, FS_EmptySet
<1>6. m # 0 /\ m - 1 \in Nat
    <2>1. PICK x \in T : x \in 1..m
        BY <1>0, <1>5
    <2> QED
        BY <1>4, <2>1
<1>7. m - 1 \notin Missing
    <2> HIDE DEF Missing
    <2> QED
        BY <1>2, <1>4, <1>6
<1>8. \A U \in SUBSET (1..(m - 1)) : \A l \in 1..Cardinality(U) : Nth(U, l)
    <2> HIDE DEF Nth
    <2> QED
        BY <1>6, <1>7
<1>9. CASE m \notin T
    <2>1. T \in SUBSET (1..(m - 1))
        BY <1>4, <1>6, <1>9
    <2> HIDE DEF Nth
    <2> QED
        BY <1>3, <1>8, <2>1
<1>10. CASE m \in T
    <2> DEFINE U == T \ {m}
    <2>1. U \in SUBSET (1..(m - 1))
        BY <1>4, <1>6
    <2>2. Cardinality(U) = Cardinality(T) - 1
        BY <1>4, <1>10, FS_RemoveElement
    <2>3. CASE k = Cardinality(T)
        <3>0. \A x \in T : x <= m
            BY <1>0, <1>4
        <3>1. {x \in T : x <= m} = T
            BY <3>0
        <3> QED
            BY <1>3, <1>10, <2>3, <3>1
    <2>4. CASE k # Cardinality(T)
        <3>1. k \in 1..Cardinality(U)
            BY <1>4, <2>2, <2>4
        <3>2. PICK i \in U : Cardinality({x \in U : x <= i}) = k
            BY <1>8, <2>1, <3>1
        <3>3. {x \in U : x <= i} = {x \in T : x <= i}
            BY <1>4, <2>1, <3>2
        <3> QED
            BY <1>3, <3>2, <3>3
    <2> QED
        BY <2>3, <2>4
<1> QED
    BY <1>9, <1>10

\* A filtered list holds elements of the list only (getEndpointByPriority).
LEMMA FilteredElements ==
    ASSUME NEW S, NEW s \in Seq(S), NEW kept \in SUBSET (1..Len(s))
    PROVE  Filtered(s, kept) \in Seq(S)
<1>1. Cardinality(kept) \in Nat
    BY PositionsAreFinite
<1>2. ASSUME NEW j \in 1..Cardinality(kept)
      PROVE  s[CHOOSE i \in kept : Cardinality({x \in kept : x <= i}) = j] \in S
    <2>1. \E i \in kept : Cardinality({x \in kept : x <= i}) = j
        <3>1. Len(s) \in Nat
            OBVIOUS
        <3> QED
            BY <3>1, NthPosition
    <2>2. (CHOOSE i \in kept : Cardinality({x \in kept : x <= i}) = j) \in kept
        BY <2>1
    <2> DEFINE i == CHOOSE i \in kept : Cardinality({x \in kept : x <= i}) = j
    <2>3. i \in 1..Len(s)
        BY <2>2
    <2> HIDE DEF i
    <2>4. s[i] \in S
        BY <2>3
    <2> QED
        BY <2>4 DEF i
<1>3. Filtered(s, kept) \in [1..Cardinality(kept) -> S]
    BY <1>2 DEF Filtered
<1> QED
    BY <1>1, <1>3

\* A filter that keeps a prefix cuts the list (filterOutdatedEndpointScores).
LEMMA FilteredPrefix ==
    ASSUME NEW S, NEW s \in Seq(S), NEW k \in 0..Len(s)
    PROVE  Filtered(s, 1..k) = [i \in 1..k |-> s[i]]
<1>1. Cardinality(1..k) = k
    BY FS_Interval
<1>2. ASSUME NEW j \in 1..k
      PROVE  (CHOOSE i \in 1..k : Cardinality({x \in 1..k : x <= i}) = j) = j
    <2>1. ASSUME NEW i \in 1..k
          PROVE  Cardinality({x \in 1..k : x <= i}) = i
        <3>1. {x \in 1..k : x <= i} = 1..i
            OBVIOUS
        <3>2. Cardinality(1..i) = i
            BY FS_Interval
        <3> QED
            BY <3>1, <3>2
    <2> QED
        BY <2>1
<1> DEFINE Pos(j) == CHOOSE i \in 1..k : Cardinality({x \in 1..k : x <= i}) = j
<1>3. Filtered(s, 1..k) = [j \in 1..k |-> s[Pos(j)]]
    BY <1>1 DEF Filtered
<1>4. \A j \in 1..k : Pos(j) = j
    BY <1>2
<1> HIDE DEF Pos
<1> QED
    BY <1>3, <1>4

\* A reordering is onto: sort keeps every element (updateEndpointsPriority).
LEMMA ArrangementIsOnto ==
    ASSUME NEW n \in Nat, NEW p \in Arrangements(n)
    PROVE  \A i \in 1..n : \E j \in 1..n : p[j] = i
<1>1. IsFiniteSet(1..n)
    BY FS_Interval
<1>2. p \in Injection(1..n, 1..n)
    BY DEF Arrangements, Injection, IsInjective
<1>3. p \in Surjection(1..n, 1..n)
    BY <1>1, <1>2, FS_Injection
<1> QED
    BY <1>3 DEF Surjection

-----------------------------------------------------------------------------
(* The round-robin. *)

\* A division with its remainder, as the index of proxyRPCCall uses it.
LEMMA Division ==
    ASSUME NEW n \in Nat \ {0}, NEW x \in Nat
    PROVE  (x % n) \in 0..(n - 1) /\ (x \div n) \in Nat /\ x = (n * (x \div n)) + (x % n)
OBVIOUS

\* The remainder is the only one.
LEMMA Remainder ==
    ASSUME NEW n \in Nat \ {0}, NEW x \in Nat, NEW q \in Nat, NEW r \in 0..(n - 1), x = n * q + r
    PROVE  x % n = r
OBVIOUS

\* Steps back that do not pass a multiple of n, the start of a round of proxyRPCCall.
LEMMA StepsBack ==
    ASSUME NEW n \in Nat \ {0}, NEW x \in Nat, NEW d \in Nat, d <= x % n
    PROVE  x - d \in Nat /\ (x - d) % n = (x % n) - d
<1> DEFINE q == x \div n
           r == x % n
<1>1. r \in 0..(n - 1) /\ q \in Nat /\ x = n * q + r
    BY Division
<1>2. n * q \in Nat
    BY <1>1
<1> HIDE DEF q, r
<1>3. x - d = n * q + (r - d) /\ r - d \in 0..(n - 1) /\ x - d \in Nat
    BY <1>1, <1>2 DEF r
<1> QED
    BY <1>1, <1>3, Remainder DEF r

\* Steps forward that stay in the round.
LEMMA StepsForward ==
    ASSUME NEW n \in Nat \ {0}, NEW x \in Nat, NEW d \in Nat, d + (x % n) < n
    PROVE  (x + d) % n = (x % n) + d
<1> DEFINE q == x \div n
           r == x % n
<1>1. r \in 0..(n - 1) /\ q \in Nat /\ x = n * q + r
    BY Division
<1>2. n * q \in Nat
    BY <1>1
<1> HIDE DEF q, r
<1>3. x + d = n * q + (r + d) /\ r + d \in 0..(n - 1) /\ x + d \in Nat
    BY <1>1, <1>2 DEF r
<1> QED
    BY <1>1, <1>3, Remainder DEF r

\* A round back: a try that is not in the first round has one in the round before.
LEMMA RoundBack ==
    ASSUME NEW n \in Nat \ {0}, NEW x \in Nat, x # x % n
    PROVE  x >= n /\ (x - n) % n = x % n
<1> DEFINE q == x \div n
           r == x % n
<1>1. r \in 0..(n - 1) /\ q \in Nat /\ x = n * q + r
    BY Division
<1> HIDE DEF q, r
<1>2. q # 0
    BY <1>1 DEF r
<1>3. q - 1 \in Nat /\ n * q \in Nat /\ n * q = n * (q - 1) + n /\ n * (q - 1) \in Nat
    BY <1>1, <1>2
<1>4. x - n = n * (q - 1) + r /\ x >= n /\ x - n \in Nat
    BY <1>1, <1>3
<1> QED
    BY <1>1, <1>3, <1>4, Remainder DEF r

\* The next try of the round-robin: ++index % length.
LEMMA NextTurn ==
    ASSUME NEW n \in Nat \ {0}, NEW x \in Nat
    PROVE  (((x % n) + 1) % n) = (x + 1) % n
<1>1. (x % n) \in 0..(n - 1)
    BY Division
<1>2. CASE (x % n) + 1 < n
    <2>1. (x + 1) % n = (x % n) + 1
        <3>1. 1 \in Nat /\ 1 + (x % n) < n
            BY <1>1, <1>2
        <3> QED
            BY <1>1, <3>1, StepsForward
    <2>2. (x % n) + 1 = n * 0 + ((x % n) + 1) /\ (x % n) + 1 \in 0..(n - 1)
        BY <1>1, <1>2
    <2>3. ((x % n) + 1) % n = (x % n) + 1
        BY <1>1, <2>2, Remainder
    <2> QED
        BY <2>1, <2>3
<1>3. CASE (x % n) + 1 = n
    <2> DEFINE q == x \div n
    <2>1. q \in Nat /\ x = n * q + (x % n)
        BY Division
    <2> HIDE DEF q
    <2>2. n * q \in Nat /\ n * (q + 1) = n * q + n /\ q + 1 \in Nat
        BY <2>1
    <2>3. x + 1 = n * (q + 1) + 0 /\ 0 \in 0..(n - 1)
        BY <1>1, <1>3, <2>1, <2>2
    <2>4. (x + 1) % n = 0
        <3>1. x + 1 \in Nat
            OBVIOUS
        <3> QED
            BY <3>1, <2>2, <2>3, Remainder
    <2>5. n = n * 1 + 0
        OBVIOUS
    <2>6. n % n = 0
        BY <2>3, <2>5, Remainder
    <2> QED
        BY <1>3, <2>4, <2>6
<1> QED
    BY <1>1, <1>2, <1>3

\* The tries, of m, that are the turn of the i-th of n endpoints.
Turns(n, m, i) == {x \in 1..m : (x - 1) % n = i - 1}

\* An endpoint has as many turns as a later one, or one more (while (retries >= 0), round-robin).
LEMMA TurnsAreEven ==
    ASSUME NEW n \in Nat \ {0}, NEW m \in Nat, NEW i \in 1..n, NEW j \in 1..n, i < j
    PROVE  /\ Cardinality(Turns(n, m, i)) \in Nat /\ Cardinality(Turns(n, m, j)) \in Nat
           /\ Cardinality(Turns(n, m, i)) - Cardinality(Turns(n, m, j)) \in {0, 1}
<1> DEFINE A == Turns(n, m, i)
           B == Turns(n, m, j)
           d == j - i
<1>1. IsFiniteSet(A) /\ IsFiniteSet(B) /\ Cardinality(A) \in Nat /\ Cardinality(B) \in Nat
    <2>1. A \in SUBSET (1..m) /\ B \in SUBSET (1..m)
        BY DEF Turns
    <2> HIDE DEF A, B
    <2> QED
        BY <2>1, PositionsAreFinite
<1>2. Cardinality(B) <= Cardinality(A)
    <2> DEFINE f == [x \in B |-> x - d]
    <2>1. ASSUME NEW x \in B
          PROVE  x - d \in A
        <3>1. x \in 1..m /\ x - 1 \in Nat /\ (x - 1) % n = j - 1
            BY DEF Turns
        <3>2. d \in Nat /\ d <= j - 1
            OBVIOUS
        <3>3. (x - 1) - d \in Nat /\ ((x - 1) - d) % n = (j - 1) - d
            <4> DEFINE y == x - 1
            <4>1. y \in Nat /\ d <= y % n /\ y % n = j - 1
                BY <3>1, <3>2
            <4> HIDE DEF y
            <4>2. y - d \in Nat /\ (y - d) % n = (y % n) - d
                BY <3>2, <4>1, StepsBack
            <4> QED
                BY <4>1, <4>2 DEF y
        <3>4. (x - 1) - d = (x - d) - 1 /\ (j - 1) - d = i - 1
            BY <3>1
        <3>5. ((x - d) - 1) % n = i - 1
            BY <3>3, <3>4
        <3>6. x - d \in 1..m
            BY <3>1, <3>2, <3>3
        <3> QED
            BY <3>5, <3>6 DEF Turns
    <2>2. B \subseteq Int
        BY DEF Turns
    <2>3. f \in Injection(B, A)
        <3>1. f \in [B -> A]
            BY <2>1
        <3>2. ASSUME NEW x \in B, NEW y \in B, f[x] = f[y]
              PROVE  x = y
            BY <2>2, <3>2
        <3> QED
            BY <3>1, <3>2 DEF Injection, IsInjective
    <2> HIDE DEF A, B, f
    <2> QED
        BY <1>1, <2>3, FS_Injection
<1>3. Cardinality(A \ {i}) <= Cardinality(B)
    <2> DEFINE g == [x \in A \ {i} |-> (x - n) + d]
    <2>1. ASSUME NEW x \in A \ {i}
          PROVE  (x - n) + d \in B
        <3>1. x \in 1..m /\ x - 1 \in Nat /\ (x - 1) % n = i - 1 /\ x # i
            BY DEF Turns
        <3>2. x - 1 >= n /\ ((x - 1) - n) % n = i - 1
            <4> DEFINE y == x - 1
            <4>1. y \in Nat /\ y # y % n /\ y % n = i - 1
                BY <3>1
            <4> HIDE DEF y
            <4>2. y >= n /\ (y - n) % n = y % n
                BY <4>1, RoundBack
            <4> QED
                BY <4>1, <4>2 DEF y
        <3>3. d \in Nat /\ d + (i - 1) < n /\ (x - 1) - n \in Nat
            BY <3>1, <3>2
        <3>4. (((x - 1) - n) + d) % n = (i - 1) + d
            BY <3>2, <3>3, StepsForward
        <3>5. ((x - 1) - n) + d = ((x - n) + d) - 1 /\ (i - 1) + d = j - 1
            BY <3>1
        <3>6. (((x - n) + d) - 1) % n = j - 1
            BY <3>4, <3>5
        <3>7. (x - n) + d \in 1..m
            BY <3>1, <3>2, <3>3
        <3> QED
            BY <3>6, <3>7 DEF Turns
    <2>2. A \subseteq Int
        BY DEF Turns
    <2>3. g \in Injection(A \ {i}, B)
        <3>1. g \in [A \ {i} -> B]
            BY <2>1
        <3>2. ASSUME NEW x \in A \ {i}, NEW y \in A \ {i}, g[x] = g[y]
              PROVE  x = y
            BY <2>2, <3>2
        <3> QED
            BY <3>1, <3>2 DEF Injection, IsInjective
    <2> HIDE DEF A, B, g
    <2> QED
        BY <1>1, <2>3, FS_Injection
<1>4. Cardinality(A \ {i}) \in {Cardinality(A), Cardinality(A) - 1}
    BY <1>1, FS_RemoveElement
<1> HIDE DEF A, B
<1>5. Cardinality(A) - Cardinality(B) \in {0, 1}
    BY <1>1, <1>2, <1>3, <1>4
<1> QED
    BY <1>1, <1>5 DEF A, B

-----------------------------------------------------------------------------
(* The invariant. *)

WalkState ==
    [at : {"idle", "chains", "scores"}, load : Loads, visited : SUBSET Chains,
     chain : Chains \cup {Undefined}, list : Seq(Ref), n : Nat]

Update ==
    [id : Calls \X Nat, at : {"read", "write"}, endpoint : Endpoints, ok : BOOLEAN, list : Seq(Score)]

TablesOK == rows \in [Endpoints -> Row \cup {Gone}] /\ changes \in Nat

MapsOK ==
    /\ loads \in Loads
    /\ maps \in [Loads -> [Chains -> Seq(Ref) \cup {Undefined}]]
    /\ objects \in [Loads -> [Endpoints -> Object]]
    /\ found = Undefined \/ found \in UNION {[S -> Row] : S \in SUBSET Endpoints}
    /\ loaded \subseteq Endpoints /\ outlived \in BOOLEAN /\ up \in BOOLEAN
    /\ walks \in [Walkers -> WalkState]

\* A list of the chain holds every endpoint of the last load once.
HoldsLoad(list, c) ==
    /\ Elements(list) = {<<loads, e>> : e \in {x \in loaded : ChainOf[x] = c}}
    /\ \A i, j \in 1..Len(list) : list[i] = list[j] => i = j

\* The Map and the reorderings: no stored list is empty, rows are only on their way while no
\* reordering of a load runs, and unless one was outlived each list is what was loaded.
MapInv ==
    /\ found # Undefined => loads < MaxLoads /\ walks["load"].at = "idle"
    /\ \A g \in Loads, c \in Chains : maps[g][c] # Undefined => Len(maps[g][c]) > 0
    /\ \A w \in Walkers : walks[w].at = "scores" =>
          /\ walks[w].chain \in Chains /\ Len(walks[w].list) > 0
          /\ ~outlived => HoldsLoad(walks[w].list, walks[w].chain)
    /\ ~outlived => \A c \in Chains : HoldsLoad(Listed(c), c)

\* A call of proxyRPCCall: its tries went round its list in order, and those that are left
\* are the retries.
CallInv(k) ==
    LET call == calls[k]
        n == Len(call.list)
    IN  /\ call.at = "trying" =>
              /\ call.retries \in Nat /\ Len(call.tried) + call.retries = Retries
              /\ call.index = (Len(call.tried) % n) + 1
        /\ call.at = "418" => Len(call.tried) = Retries + 1
        /\ call.at \in {"trying", "418"} =>
              /\ n > 0
              /\ \A j \in 1..Len(call.tried) : call.tried[j] = call.list[((j - 1) % n) + 1]

CallsInv == calls \in [Calls -> CallState] /\ \A k \in Calls : CallInv(k)

ScoresOK ==
    /\ scores \in [Endpoints -> Seq(Score)] /\ made \in [Endpoints -> Seq(Score)]
    /\ updates \subseteq Update
    /\ lossy \subseteq Endpoints
    /\ now \in 0..MaxTime

\* A list of scores as the cache keeps it.
IsNewestFirst(s) ==
    /\ Len(s) <= MaxItems
    /\ \A i \in 1..Len(s) : s[i].at <= now
    /\ \A i, j \in 1..Len(s) : i < j => s[i].at >= s[j].at

\* What s leaves out of the scores m is outdated or was crowded out.
Covers(s, m) ==
    /\ Len(s) <= Len(m)
    /\ \A i \in 1..Len(m) : IF i <= Len(s) THEN m[i] = s[i] ELSE i > MaxItems \/ now - m[i].at >= TTL

Writes(e) == {u \in updates : u.endpoint = e /\ u.at = "write"}

\* The cached scores, and those about to be written, are newest first; while nothing was lost
\* there is one update about to write at most, and its list, or else the cache, is complete.
ScoreInv ==
    /\ \A e \in Endpoints : IsNewestFirst(scores[e])
    /\ \A u \in updates : u.at = "write" => IsNewestFirst(u.list)
    /\ \A e \in Endpoints : e \notin lossy =>
          /\ Writes(e) = {} => Covers(scores[e], made[e])
          /\ \A u \in Writes(e) : Writes(e) = {u} /\ Covers(u.list, made[e])

Inv == TablesOK /\ MapsOK /\ MapInv /\ CallsInv /\ ScoresOK /\ ScoreInv

-----------------------------------------------------------------------------
(* The Map and its reorderings. *)

\* Nothing but the sync and the reorderings touches the Map.
LEMMA MapFrame ==
    ASSUME MapsOK, MapInv, UNCHANGED mapVars
    PROVE  MapsOK' /\ MapInv'
BY DEF MapsOK, MapInv, mapVars, HoldsLoad, Listed, Elements

\* An endpoint's list in the current Map (this.endpointsMap.get(c) || []).
LEMMA ListedType ==
    ASSUME MapsOK, NEW c \in Chains
    PROVE  Listed(c) \in Seq(Ref)
BY DEF MapsOK, Listed

\* A reordering that is not running (updateEndpointsPriority).
LEMMA IdleWalkType == IdleWalk \in WalkState /\ IdleWalk.at = "idle"
BY NumbersAssumption DEF IdleWalk, WalkState, Loads

\* getEnabled.
LEMMA ReadEnabledStep ==
    ASSUME TablesOK, MapsOK, MapInv, ReadEnabled
    PROVE  MapsOK' /\ MapInv'
<1>1. found' \in [Enabled -> Row] /\ Enabled \in SUBSET Endpoints
    BY DEF ReadEnabled, TablesOK, Enabled
<1>2. found' \in UNION {[S -> Row] : S \in SUBSET Endpoints}
    BY <1>1
<1>3. MapsOK'
    BY <1>2 DEF ReadEnabled, MapsOK
<1>4. MapInv'
    BY NumbersAssumption DEF ReadEnabled, MapsOK, MapInv, HoldsLoad, Listed, Elements, Loads
<1> QED
    BY <1>3, <1>4

\* A timer starts a reordering, which has no list yet.
LEMMA StartTimerStep ==
    ASSUME MapsOK, MapInv, StartTimer
    PROVE  MapsOK' /\ MapInv'
<1>1. "timer" \in Walkers /\ "load" \in Walkers
    BY DEF Walkers
<1> DEFINE walk == [IdleWalk EXCEPT !.at = "chains", !.load = loads]
<1>2. walk \in WalkState /\ walk.at = "chains"
    BY IdleWalkType DEF WalkState, MapsOK
<1> HIDE DEF walk
<1>3. walks' = [walks EXCEPT !["timer"] = walk]
    BY DEF StartTimer, Walk, walk
<1>4. MapsOK'
    BY <1>2, <1>3 DEF StartTimer, MapsOK
<1>5. \A w \in Walkers : walks'[w].at = "scores" => walks'[w] = walks[w]
    BY <1>2, <1>3 DEF MapsOK
<1>6. walks'["load"] = walks["load"]
    BY <1>1, <1>3 DEF MapsOK
<1>7. MapInv'
    BY <1>5, <1>6 DEF StartTimer, MapInv, HoldsLoad, Listed, Elements
<1> QED
    BY <1>4, <1>7

\* A reordering ends, or fails.
LEMMA StopWalkStep ==
    ASSUME MapsOK, MapInv, NEW w \in Walkers, EndWalk(w) \/ FailWalk(w)
    PROVE  MapsOK' /\ MapInv'
<1>1. IdleWalk \in WalkState /\ IdleWalk.at = "idle"
    BY IdleWalkType
<1>2. walks' = [walks EXCEPT ![w] = IdleWalk]
    BY DEF EndWalk, FailWalk, Walk
<1>3. up' \in BOOLEAN /\ UNCHANGED <<loads, maps, objects, found, loaded, outlived>>
    BY DEF EndWalk, FailWalk, MapsOK
<1>4. MapsOK'
    BY <1>1, <1>2, <1>3 DEF MapsOK
<1>5. \A v \in Walkers : walks'[v] = walks[v] \/ walks'[v].at = "idle"
    BY <1>1, <1>2 DEF MapsOK
<1>6. "load" \in Walkers
    BY DEF Walkers
<1>7. MapInv'
    BY <1>3, <1>5, <1>6 DEF MapInv, HoldsLoad, Listed, Elements
<1> QED
    BY <1>4, <1>7

\* A reordering takes the list that a chain has now.
LEMMA NextChainStep ==
    ASSUME MapsOK, MapInv, NEW w \in Walkers, NextChain(w)
    PROVE  MapsOK' /\ MapInv'
<1>1. PICK c \in Chains :
        walks' = [walks EXCEPT ![w] =
            IF maps[loads][c] = Undefined THEN IdleWalk
            ELSE [walks[w] EXCEPT !.at = "scores", !.chain = c, !.list = maps[loads][c], !.n = 0]]
    BY DEF NextChain, Walk
<1>2. walks[w] \in WalkState /\ walks[w].at = "chains"
    BY DEF NextChain, MapsOK
<1> DEFINE walk == [walks[w] EXCEPT !.at = "scores", !.chain = c, !.list = maps[loads][c], !.n = 0]
<1>3. UNCHANGED <<loads, maps, objects, found, loaded, outlived, up>>
    BY DEF NextChain
<1>4. IdleWalk \in WalkState /\ IdleWalk.at = "idle" /\ "load" \in Walkers
    BY IdleWalkType DEF Walkers
<1>5. CASE maps[loads][c] = Undefined
    <2>1. walks' = [walks EXCEPT ![w] = IdleWalk]
        BY <1>1, <1>5
    <2>2. MapsOK'
        BY <1>3, <1>4, <2>1 DEF MapsOK
    <2>3. \A v \in Walkers : walks'[v] = walks[v] \/ walks'[v].at = "idle"
        BY <1>4, <2>1 DEF MapsOK
    <2>4. MapInv'
        BY <1>3, <1>4, <2>3 DEF MapInv, HoldsLoad, Listed, Elements
    <2> QED
        BY <2>2, <2>4
<1>6. CASE maps[loads][c] # Undefined
    <2>1. maps[loads][c] \in Seq(Ref) /\ Len(maps[loads][c]) > 0 /\ maps[loads][c] = Listed(c)
        BY <1>6 DEF MapsOK, MapInv, Listed
    <2>2. /\ walk \in WalkState /\ walk.at = "scores"
          /\ walk.chain = c /\ walk.list = Listed(c)
        BY <1>2, <2>1 DEF WalkState
    <2> HIDE DEF walk
    <2>3. walks' = [walks EXCEPT ![w] = walk]
        BY <1>1, <1>6 DEF walk
    <2>4. MapsOK'
        BY <1>3, <2>2, <2>3 DEF MapsOK
    <2>5. \A v \in Walkers : walks'[v] = IF v = w THEN walk ELSE walks[v]
        BY <2>3 DEF MapsOK
    <2>6. found # Undefined => loads < MaxLoads /\ walks'["load"].at = "idle"
        <3>1. w = "load" => found = Undefined
            BY <1>2 DEF MapInv
        <3> QED
            BY <1>4, <2>5, <3>1 DEF MapInv
    <2>7. ASSUME NEW v \in Walkers, walks'[v].at = "scores"
          PROVE  /\ walks'[v].chain \in Chains /\ Len(walks'[v].list) > 0
                 /\ ~outlived => HoldsLoad(walks'[v].list, walks'[v].chain)
        <3>1. CASE v = w
            BY <2>1, <2>2, <2>5, <3>1 DEF MapInv
        <3>2. CASE v # w
            BY <2>5, <2>7, <3>2 DEF MapInv
        <3> QED
            BY <3>1, <3>2
    <2>8. MapInv'
        BY <1>3, <2>6, <2>7 DEF MapInv, HoldsLoad, Listed, Elements
    <2> QED
        BY <2>4, <2>8
<1> QED
    BY <1>5, <1>6

\* The scores of an endpoint are counted, and one number is that of the successes.
LEMMA CountedType ==
    ASSUME NEW s \in Seq(Score)
    PROVE  Counted(s) \in Statistic
<1>1. Len(s) \in Nat
    OBVIOUS
<1>2. ASSUME NEW K \in SUBSET (1..Len(s))
      PROVE  Cardinality(K) \in Nat
    BY <1>1, PositionsAreFinite
<1> QED
    BY <1>2 DEF Counted, Statistic

\* The scores of the next endpoint are read; only its object changes.
LEMMA NextScoresStep ==
    ASSUME MapsOK, MapInv, ScoresOK, NEW w \in Walkers, NextScores(w)
    PROVE  MapsOK' /\ MapInv'
<1> DEFINE old == walks[w]
           walk == [walks[w] EXCEPT !.n = @ + 1]
           ref == old.list[old.n + 1]
<1>1. old \in WalkState /\ old.at = "scores" /\ old.n < Len(old.list)
    BY DEF NextScores, MapsOK
<1>2. old.list \in Seq(Ref) /\ old.n + 1 \in 1..Len(old.list)
    BY <1>1 DEF WalkState
<1>3. ref \in Ref
    <2> HIDE DEF old
    <2> QED
        BY <1>2
<1>4. ref[1] \in Loads /\ ref[2] \in Endpoints
    <2> HIDE DEF ref
    <2> QED
        BY <1>3 DEF Ref
<1>5. Counted(scores[ref[2]]) \in Statistic
    BY <1>4, CountedType DEF ScoresOK
<1>6. walk \in WalkState /\ walk.at = "scores" /\ walk.list = old.list /\ walk.chain = old.chain
    BY <1>1 DEF WalkState
<1>7. walks' = [walks EXCEPT ![w] = walk] /\ UNCHANGED <<loads, maps, found, loaded, outlived, up>>
    BY DEF NextScores, Walk
<1>8. objects' \in [Loads -> [Endpoints -> Object]]
    <2> DEFINE counted == Counted(scores[ref[2]])
    <2>1. objects' = [objects EXCEPT ![ref[1]][ref[2]].calls = counted]
        BY DEF NextScores
    <2>2. objects[ref[1]][ref[2]] \in Object
        BY <1>4 DEF MapsOK
    <2>3. counted \in Statistic
        BY <1>5
    <2> HIDE DEF ref, counted
    <2>4. [objects[ref[1]][ref[2]] EXCEPT !.calls = counted] \in Object
        BY <2>2, <2>3 DEF Object
    <2>5. objects' = [objects EXCEPT ![ref[1]] =
                        [objects[ref[1]] EXCEPT ![ref[2]] = [objects[ref[1]][ref[2]] EXCEPT !.calls = counted]]]
        BY <1>4, <2>1 DEF MapsOK
    <2>6. [objects[ref[1]] EXCEPT ![ref[2]] = [objects[ref[1]][ref[2]] EXCEPT !.calls = counted]]
            \in [Endpoints -> Object]
        BY <1>4, <2>4 DEF MapsOK
    <2> QED
        BY <1>4, <2>5, <2>6 DEF MapsOK
<1> HIDE DEF walk, ref
<1>9. MapsOK'
    BY <1>6, <1>7, <1>8 DEF MapsOK
<1>10. \A v \in Walkers : walks'[v] = IF v = w THEN walk ELSE walks[v]
    BY <1>7 DEF MapsOK
<1>11. \A v \in Walkers : /\ walks'[v].at = walks[v].at /\ walks'[v].list = walks[v].list
                          /\ walks'[v].chain = walks[v].chain
    BY <1>1, <1>6, <1>10
<1>12. "load" \in Walkers
    BY DEF Walkers
<1>13. MapInv'
    BY <1>7, <1>11, <1>12 DEF MapInv, HoldsLoad, Listed, Elements
<1> QED
    BY <1>9, <1>13

\* The lists that a load may bring for a chain: sequences of what it brought, in any order.
LEMMA OrdersType ==
    ASSUME NEW g \in Loads, NEW T \in SUBSET Endpoints, NEW s \in Orders({<<g, e>> : e \in T})
    PROVE  /\ s \in Seq(Ref) /\ Elements(s) = {<<g, e>> : e \in T}
           /\ \A i, j \in 1..Len(s) : s[i] = s[j] => i = j
<1> DEFINE S == {<<g, e>> : e \in T}
<1>1. S \in SUBSET ({g} \X Endpoints) /\ S \subseteq Ref
    BY DEF Ref
<1>2. IsFiniteSet({g} \X Endpoints)
    BY EndpointsAssumption, FS_Singleton, FS_Product
<1> HIDE DEF S
<1>3. Cardinality(S) \in Nat
    BY <1>1, <1>2, FS_Subset, FS_CardinalityType
<1>4. /\ s \in [1..Cardinality(S) -> S] /\ Elements(s) = S
      /\ \A i, j \in DOMAIN s : s[i] = s[j] => i = j
    BY DEF Orders, S
<1>5. s \in Seq(Ref) /\ Len(s) = Cardinality(S)
    BY <1>1, <1>3, <1>4
<1> QED
    BY <1>3, <1>4, <1>5 DEF S

\* The counts that an endpoint keeps across a load.
LEMMA KeptCallsType ==
    ASSUME MapsOK, NEW e \in Endpoints
    PROVE  KeptCalls(e) \in Statistic
<1> DEFINE before == {ref \in Elements(Listed(ChainOf[e])) : ref[2] = e}
           one == CHOOSE ref \in before : TRUE
<1>1. ChainOf[e] \in Chains
    BY EndpointsAssumption
<1>2. Listed(ChainOf[e]) \in Seq(Ref)
    BY <1>1, ListedType
<1>3. before \subseteq Ref
    BY <1>2 DEF Elements
<1>4. CASE before = {}
    BY <1>4 DEF KeptCalls, NoCalls, Statistic
<1>5. CASE before # {}
    <2>1. one \in before
        BY <1>5
    <2>2. one \in Ref
        BY <1>3, <2>1
    <2>3. KeptCalls(e) = objects[one[1]][e].calls
        BY <1>5 DEF KeptCalls
    <2> HIDE DEF one, before
    <2>4. one[1] \in Loads
        BY <2>2 DEF Ref
    <2> QED
        BY <2>3, <2>4 DEF MapsOK, Object
<1> QED
    BY <1>4, <1>5

\* A load replaces the Map: its lists are what was loaded, and no reordering but an outlived
\* one has a list (syncEndpointsFromDatabase).
LEMMA LoadStep ==
    ASSUME MapsOK, MapInv, Load
    PROVE  MapsOK' /\ MapInv'
<1> DEFINE new == loads + 1
           Brought(c) == {x \in DOMAIN found : ChainOf[x] = c}
           walk == [IdleWalk EXCEPT !.at = "chains", !.load = new]
<1>1. PICK S \in SUBSET Endpoints : found \in [S -> Row]
    BY DEF Load, MapsOK
<1>2. DOMAIN found \in SUBSET Endpoints /\ \A c \in Chains : Brought(c) \in SUBSET Endpoints
    BY <1>1
<1>3. new \in Loads /\ loads # new
    BY NumbersAssumption DEF Load, MapsOK, MapInv, Loads
<1>4. PICK lists \in [Chains -> UNION {Orders({<<new, e>> : e \in Brought(c)}) : c \in Chains}] :
        /\ \A c \in Chains : lists[c] \in Orders({<<new, e>> : e \in Brought(c)})
        /\ maps' = [maps EXCEPT ![new] = [c \in Chains |-> LoadMap(lists, c)]]
    BY DEF Load
<1> HIDE DEF new, Brought
<1>5. ASSUME NEW c \in Chains
      PROVE  /\ lists[c] \in Seq(Ref) /\ Elements(lists[c]) = {<<new, e>> : e \in Brought(c)}
             /\ \A i, j \in 1..Len(lists[c]) : lists[c][i] = lists[c][j] => i = j
    BY <1>2, <1>3, <1>4, OrdersType
<1>6. ASSUME NEW c \in Chains
      PROVE  /\ maps'[new][c] \in Seq(Ref) \cup {Undefined}
             /\ maps'[new][c] # Undefined => Len(maps'[new][c]) > 0
             /\ (IF maps'[new][c] = Undefined THEN <<>> ELSE maps'[new][c]) = lists[c]
    <2>1. maps'[new][c] = LoadMap(lists, c)
        BY <1>3, <1>4 DEF MapsOK
    <2> QED
        BY <1>5, <2>1, UndefinedAssumption DEF LoadMap
<1>7. /\ maps' \in [Loads -> [Chains -> Seq(Ref) \cup {Undefined}]]
      /\ \A g \in Loads \ {new} : maps'[g] = maps[g]
    <2>1. [c \in Chains |-> LoadMap(lists, c)] = maps'[new]
        BY <1>3, <1>4 DEF MapsOK
    <2>2. [c \in Chains |-> LoadMap(lists, c)] \in [Chains -> Seq(Ref) \cup {Undefined}]
        BY <1>6, <2>1
    <2> QED
        BY <1>3, <1>4, <2>2 DEF MapsOK
<1>8. objects' \in [Loads -> [Endpoints -> Object]]
    <2> DEFINE Kept(e) == [priority |-> found[e].priority, archived |-> found[e].archived,
                           calls |-> KeptCalls(e)]
    <2>1. \A e \in DOMAIN found : Kept(e) \in Object
        <3>1. \A e \in DOMAIN found : found[e] \in Row
            BY <1>1
        <3>2. \A e \in DOMAIN found : KeptCalls(e) \in Statistic
            BY <1>2, KeptCallsType
        <3> QED
            BY <3>1, <3>2, PrioritiesAssumption DEF Row, Object
    <2>2. objects' = [objects EXCEPT ![new] =
                        [e \in Endpoints |-> IF e \in DOMAIN found THEN Kept(e) ELSE objects[new][e]]]
        BY DEF Load, new
    <2> HIDE DEF Kept
    <2>3. [e \in Endpoints |-> IF e \in DOMAIN found THEN Kept(e) ELSE objects[new][e]]
            \in [Endpoints -> Object]
        BY <1>3, <2>1 DEF MapsOK
    <2> QED
        BY <1>3, <2>2, <2>3 DEF MapsOK
<1>9. walk \in WalkState /\ walk.at = "chains"
    BY <1>3, IdleWalkType DEF WalkState
<1>10. /\ loads' = new /\ found' = Undefined /\ loaded' = DOMAIN found
       /\ outlived' = (walks["timer"].at # "idle") /\ walks' = [walks EXCEPT !["load"] = walk] /\ up' = up
    BY DEF Load, new
<1> HIDE DEF walk
<1>11. MapsOK'
    BY <1>2, <1>3, <1>7, <1>8, <1>9, <1>10 DEF MapsOK
<1>12. \A w \in Walkers : walks'[w].at = "scores" => walks'[w] = walks[w]
    BY <1>9, <1>10 DEF MapsOK
<1>13. ~outlived' => \A w \in Walkers : walks'[w].at # "scores"
    BY <1>9, <1>10 DEF MapsOK, Walkers
<1>14. ASSUME NEW c \in Chains
       PROVE  HoldsLoad(Listed(c), c)'
    <2>1. Listed(c)' = lists[c]
        BY <1>6, <1>10 DEF Listed
    <2>2. \A list : HoldsLoad(list, c)' <=>
            /\ Elements(list) = {<<new, e>> : e \in Brought(c)}
            /\ \A i, j \in 1..Len(list) : list[i] = list[j] => i = j
        BY <1>10 DEF HoldsLoad, Brought, Elements
    <2>3. HoldsLoad(lists[c], c)'
        BY <1>5, <2>2
    <2> QED
        BY <2>1, <2>3 DEF HoldsLoad, Elements
<1>15. \A g \in Loads, c \in Chains : maps'[g][c] # Undefined => Len(maps'[g][c]) > 0
    BY <1>6, <1>7 DEF MapInv
<1>16. MapInv'
    BY <1>10, <1>12, <1>13, <1>14, <1>15 DEF MapInv
<1> QED
    BY <1>11, <1>16

\* Sorting keeps the elements of a list and repeats none.
LEMMA SortedHolds ==
    ASSUME NEW list \in Seq(Ref), NEW p \in Arrangements(Len(list)), NEW c, HoldsLoad(list, c)
    PROVE  HoldsLoad([i \in 1..Len(list) |-> list[p[i]]], c)
<1> DEFINE n == Len(list)
           sorted == [i \in 1..n |-> list[p[i]]]
<1>1. n \in Nat /\ p \in [1..n -> 1..n] /\ \A i, j \in 1..n : p[i] = p[j] => i = j
    BY DEF Arrangements
<1>2. \A i \in 1..n : \E j \in 1..n : p[j] = i
    <2> HIDE DEF n
    <2> QED
        BY <1>1, ArrangementIsOnto DEF n
<1>3. sorted \in Seq(Ref) /\ Len(sorted) = n
    BY <1>1
<1>4. \A i \in 1..n : sorted[i] = list[p[i]]
    OBVIOUS
<1> HIDE DEF sorted
<1>5. Elements(sorted) = Elements(list)
    <2>1. Elements(sorted) = {list[p[i]] : i \in 1..n}
        BY <1>3, <1>4 DEF Elements
    <2>2. ASSUME NEW i \in 1..n
          PROVE  list[i] \in {list[p[j]] : j \in 1..n} /\ list[p[i]] \in {list[j] : j \in 1..n}
        BY <1>1, <1>2
    <2> HIDE DEF n
    <2> QED
        BY <2>1, <2>2 DEF Elements, n
<1>6. ASSUME NEW i \in 1..n, NEW j \in 1..n, sorted[i] = sorted[j]
      PROVE  i = j
    BY <1>1, <1>4, <1>6 DEF HoldsLoad
<1> QED
    BY <1>3, <1>5, <1>6 DEF HoldsLoad, sorted

\* The sorted list goes into the current Map.
LEMMA SetChainStep ==
    ASSUME MapsOK, MapInv, NEW w \in Walkers, SetChain(w)
    PROVE  MapsOK' /\ MapInv'
<1> DEFINE old == walks[w]
           n == Len(old.list)
           first == old.list[1]
           walk == [walks[w] EXCEPT !.at = "chains", !.visited = @ \cup {walks[w].chain}]
<1>1. old \in WalkState /\ old.at = "scores" /\ old.chain \in Chains /\ old.list \in Seq(Ref) /\ n > 0
    BY DEF SetChain, MapsOK, MapInv, WalkState
<1>2. n \in Nat /\ first \in Ref
    <2> HIDE DEF old
    <2> QED
        BY <1>1
<1>3. PICK p \in Arrangements(n) :
        maps' = [maps EXCEPT ![loads][old.chain] = [i \in 1..n |-> old.list[p[i]]]]
    BY DEF SetChain
<1> DEFINE sorted == [i \in 1..n |-> old.list[p[i]]]
<1>4. sorted \in Seq(Ref) /\ Len(sorted) = n /\ sorted # Undefined
    <2>1. p \in [1..n -> 1..n]
        BY DEF Arrangements
    <2> DEFINE l == old.list
    <2>2. l \in Seq(Ref) /\ n = Len(l)
        BY <1>1
    <2> HIDE DEF n, l
    <2>3. \A i \in 1..n : l[p[i]] \in Ref
        BY <2>1, <2>2
    <2>4. [i \in 1..n |-> l[p[i]]] \in Seq(Ref) /\ Len([i \in 1..n |-> l[p[i]]]) = n
        BY <1>2, <2>3
    <2> QED
        BY <2>4, UndefinedAssumption DEF l
<1>5. walk \in WalkState /\ walk.at = "chains"
    BY <1>1 DEF WalkState
<1>6. walks' = [walks EXCEPT ![w] = walk] /\ UNCHANGED <<loads, found, loaded, outlived, up>>
    BY DEF SetChain, Walk
<1>7. objects' \in [Loads -> [Endpoints -> Object]]
    <2>1. first[1] \in Loads /\ first[2] \in Endpoints
        <3> HIDE DEF first
        <3> QED
            BY <1>2 DEF Ref
    <2>2. objects[first[1]][first[2]] \in Object
        BY <2>1 DEF MapsOK
    <2> DEFINE prio == objects[first[1]][first[2]].priority
    <2>3. prio \in Nat
        BY <2>2 DEF Object
    <2>4. objects' = [g \in Loads |-> [e \in Endpoints |->
                IF <<g, e>> \in Elements(old.list) THEN [objects[g][e] EXCEPT !.priority = prio]
                                                   ELSE objects[g][e]]]
        BY DEF SetChain
    <2> HIDE DEF prio, old
    <2>5. \A g \in Loads, e \in Endpoints : objects[g][e] \in Object
        BY DEF MapsOK
    <2>6. \A g \in Loads, e \in Endpoints : [objects[g][e] EXCEPT !.priority = prio] \in Object
        BY <2>3, <2>5 DEF Object
    <2> QED
        BY <2>4, <2>5, <2>6
<1> HIDE DEF sorted, walk, first, n, old
<1>8. /\ maps' = [maps EXCEPT ![loads] = [maps[loads] EXCEPT ![old.chain] = sorted]]
      /\ maps' \in [Loads -> [Chains -> Seq(Ref) \cup {Undefined}]]
    BY <1>1, <1>3, <1>4 DEF MapsOK, sorted
<1>9. MapsOK'
    BY <1>5, <1>6, <1>7, <1>8 DEF MapsOK
<1>10. \A v \in Walkers : walks'[v] = IF v = w THEN walk ELSE walks[v]
    BY <1>6 DEF MapsOK
<1>11. \A g \in Loads, c \in Chains :
         maps'[g][c] = IF g = loads /\ c = old.chain THEN sorted ELSE maps[g][c]
    BY <1>1, <1>8 DEF MapsOK
<1>12. \A g \in Loads, c \in Chains : maps'[g][c] # Undefined => Len(maps'[g][c]) > 0
    BY <1>1, <1>4, <1>11 DEF MapInv
<1>13. found # Undefined => loads < MaxLoads /\ walks'["load"].at = "idle"
    <2>1. "load" \in Walkers
        BY DEF Walkers
    <2>2. w = "load" => found = Undefined
        BY <1>1 DEF MapInv, old
    <2> QED
        BY <1>10, <2>1, <2>2 DEF MapInv
<1>14. \A list, c : HoldsLoad(list, c)' <=> HoldsLoad(list, c)
    BY <1>6 DEF HoldsLoad, Elements
<1>15. ASSUME ~outlived, NEW c \in Chains
       PROVE  HoldsLoad(Listed(c)', c)
    <2>1. CASE c = old.chain
        <3>1. Listed(c)' = sorted
            BY <1>4, <1>6, <1>11, <2>1 DEF Listed, MapsOK
        <3>2. HoldsLoad(old.list, c)
            BY <1>1, <1>15, <2>1 DEF MapInv, old
        <3>3. HoldsLoad(sorted, c)
            BY <1>1, <3>2, SortedHolds DEF sorted, n
        <3> QED
            BY <3>1, <3>3
    <2>2. CASE c # old.chain
        <3>1. Listed(c)' = Listed(c)
            BY <1>6, <1>11, <2>2 DEF Listed, MapsOK
        <3> QED
            BY <1>15, <3>1 DEF MapInv
    <2> QED
        BY <2>1, <2>2
<1>16. ASSUME NEW v \in Walkers, walks'[v].at = "scores"
       PROVE  walks'[v] = walks[v]
    BY <1>5, <1>10, <1>16
<1>17. MapInv'
    BY <1>6, <1>12, <1>13, <1>14, <1>15, <1>16 DEF MapInv
<1> QED
    BY <1>9, <1>17

-----------------------------------------------------------------------------
(* The calls. *)

\* A call that has not begun, or got no endpoints, owes nothing.
LEMMA NewCallType ==
    /\ NewCall \in CallState
    /\ [NewCall EXCEPT !.at = "409"] \in CallState
<1>1. 0 \in -1..Retries /\ 0 \in Nat
    BY NumbersAssumption
<1>2. <<>> \in Seq(Endpoints)
    OBVIOUS
<1>3. "new" \in {"new", "trying"} \cup Answer /\ "409" \in {"new", "trying"} \cup Answer
    BY DEF Answer
<1> QED
    BY <1>1, <1>2, <1>3 DEF NewCall, CallState

\* A step of one call leaves the other calls alone.
LEMMA OneCall ==
    ASSUME CallsInv, NEW k \in Calls, NEW call \in CallState, calls' = [calls EXCEPT ![k] = call], CallInv(k)'
    PROVE  CallsInv'
<1>1. calls' \in [Calls -> CallState]
    BY DEF CallsInv
<1>2. ASSUME NEW l \in Calls, l # k
      PROVE  CallInv(l)'
    BY <1>2 DEF CallsInv, CallInv
<1> QED
    BY <1>1, <1>2 DEF CallsInv

\* proxyRPCCall takes its list.
LEMMA StartCallStep ==
    ASSUME MapsOK, CallsInv, NEW k \in Calls, StartCall(k)
    PROVE  CallsInv'
<1>1. PICK c \in Chains : \E archive \in BOOLEAN :
        LET refs == Candidates(c, archive) IN
          calls' = [calls EXCEPT ![k] =
              IF refs = <<>> THEN [NewCall EXCEPT !.at = "409"]
              ELSE [NewCall EXCEPT !.at = "trying", !.list = [i \in 1..Len(refs) |-> refs[i][2]],
                                   !.index = 1, !.retries = Retries]]
    BY DEF StartCall
<1>2. PICK archive \in BOOLEAN :
        LET refs == Candidates(c, archive) IN
          calls' = [calls EXCEPT ![k] =
              IF refs = <<>> THEN [NewCall EXCEPT !.at = "409"]
              ELSE [NewCall EXCEPT !.at = "trying", !.list = [i \in 1..Len(refs) |-> refs[i][2]],
                                   !.index = 1, !.retries = Retries]]
    BY <1>1
<1> DEFINE refs == Candidates(c, archive)
           list == [i \in 1..Len(refs) |-> refs[i][2]]
           call == [NewCall EXCEPT !.at = "trying", !.list = list, !.index = 1, !.retries = Retries]
<1>3. refs \in Seq(Ref)
    <2> DEFINE listed == Listed(c)
               kept == {i \in 1..Len(listed) : archive => objects[listed[i][1]][listed[i][2]].archived}
    <2>1. listed \in Seq(Ref)
        BY ListedType
    <2>2. kept \in SUBSET (1..Len(listed)) /\ refs = Filtered(listed, kept)
        BY DEF Candidates
    <2> HIDE DEF listed, kept, refs
    <2> QED
        BY <2>1, <2>2, FilteredElements
<1> HIDE DEF refs
<1>4. list \in Seq(Endpoints) /\ Len(list) = Len(refs)
    <2>1. \A i \in 1..Len(refs) : refs[i][2] \in Endpoints
        BY <1>3 DEF Ref
    <2>2. Len(refs) \in Nat
        BY <1>3
    <2> QED
        BY <2>1, <2>2
<1> HIDE DEF list
<1>5. CASE refs = <<>>
    <2> DEFINE none == [NewCall EXCEPT !.at = "409"]
    <2>1. calls' = [calls EXCEPT ![k] = none]
        BY <1>2, <1>5 DEF refs
    <2>2. none \in CallState /\ none.at = "409"
        BY NewCallType DEF CallState
    <2> HIDE DEF none
    <2>3. calls'[k] = none
        BY <2>1 DEF CallsInv
    <2>4. CallInv(k)'
        BY <2>2, <2>3 DEF CallInv
    <2> QED
        BY <2>1, <2>2, <2>4, OneCall
<1>6. CASE refs # <<>>
    <2>1. calls' = [calls EXCEPT ![k] = call]
        BY <1>2, <1>6 DEF refs, list
    <2>2. Len(list) > 0
        BY <1>3, <1>4, <1>6
    <2>3. /\ call \in CallState /\ call.at = "trying" /\ call.list = list /\ call.index = 1
          /\ call.retries = Retries /\ call.tried = <<>>
        <3>1. Retries \in -1..Retries /\ 1 \in Nat
            BY NumbersAssumption
        <3> QED
            BY <1>4, <3>1, NewCallType DEF CallState, NewCall
    <2>4. 0 % Len(list) = 0
        <3>1. Len(list) \in Nat \ {0}
            BY <1>4, <2>2
        <3>2. 0 = Len(list) * 0 + 0 /\ 0 \in 0..(Len(list) - 1)
            BY <3>1
        <3> QED
            BY <3>1, <3>2, Remainder
    <2> HIDE DEF call
    <2>5. calls'[k] = call
        BY <2>1 DEF CallsInv
    <2>6. CallInv(k)'
        <3>1. Retries \in Nat /\ Len(call.tried) = 0 /\ call.index = (0 % Len(list)) + 1
            BY <2>3, <2>4, NumbersAssumption
        <3>2. \A j \in 1..Len(call.tried) : FALSE
            BY <3>1
        <3>3. Len(call.tried) + call.retries = Retries
            BY <2>3, <3>1
        <3> QED
            BY <2>2, <2>3, <2>5, <3>1, <3>2, <3>3 DEF CallInv
    <2> QED
        BY <2>1, <2>3, <2>6, OneCall
<1> QED
    BY <1>5, <1>6

\* makeRPCCall returns: a call is answered, takes its next turn, or is given up.
LEMMA TryStep ==
    ASSUME CallsInv, NEW k \in Calls, NEW ok \in BOOLEAN, Try(k, ok)
    PROVE  /\ CallsInv'
           /\ calls[k].list[calls[k].index] \in Endpoints /\ Len(calls[k].tried) \in Nat
<1> DEFINE old == calls[k]
           n == Len(old.list)
           m == Len(old.tried)
           e == old.list[old.index]
           tried == [old EXCEPT !.tried = Append(@, e)]
           call == IF ok THEN [tried EXCEPT !.at = "data"] ELSE Retried(tried)
<1>1. /\ old \in CallState /\ old.at = "trying" /\ n > 0
      /\ old.retries \in Nat /\ m + old.retries = Retries
      /\ old.index = (m % n) + 1
      /\ \A j \in 1..m : old.tried[j] = old.list[((j - 1) % n) + 1]
    BY DEF Try, CallsInv, CallInv
<1>2. old.list \in Seq(Endpoints) /\ old.tried \in Seq(Endpoints)
    BY <1>1 DEF CallState
<1>3. n \in Nat \ {0} /\ m \in Nat
    <2> HIDE DEF old
    <2> QED
        BY <1>1, <1>2
<1>4. m % n \in 0..(n - 1)
    <2> HIDE DEF n, m
    <2> QED
        BY <1>3, Division
<1>5. e \in Endpoints
    <2>1. old.index \in 1..n
        <3> DEFINE x == m % n
        <3>1. old.index = x + 1 /\ x \in 0..(n - 1)
            BY <1>1, <1>4
        <3> HIDE DEF x, n
        <3> QED
            BY <1>3, <3>1
    <2> HIDE DEF old
    <2> QED
        BY <1>2, <2>1
<1>6. /\ Append(old.tried, e) \in Seq(Endpoints) /\ Len(Append(old.tried, e)) = m + 1
      /\ \A j \in 1..(m + 1) : Append(old.tried, e)[j] = old.list[((j - 1) % n) + 1]
    <2> DEFINE s == old.tried
               l == old.list
    <2>1. s \in Seq(Endpoints) /\ m = Len(s) /\ e = l[(((m + 1) - 1) % n) + 1]
        BY <1>1, <1>2, <1>3
    <2>2. \A j \in 1..m : s[j] = l[((j - 1) % n) + 1]
        BY <1>1
    <2> HIDE DEF s, l, e, m, n
    <2>3. Append(s, e) \in Seq(Endpoints) /\ Len(Append(s, e)) = m + 1
        BY <1>5, <2>1
    <2>4. ASSUME NEW j \in 1..(m + 1)
          PROVE  Append(s, e)[j] = l[((j - 1) % n) + 1]
        <3>1. CASE j = m + 1
            <4>1. Append(s, e)[j] = e
                BY <1>3, <2>1, <3>1
            <4> QED
                BY <2>1, <3>1, <4>1
        <3>2. CASE j # m + 1
            <4>1. j \in 1..m
                BY <1>3, <3>2
            <4>2. Append(s, e)[j] = s[j]
                BY <1>3, <2>1, <4>1
            <4> QED
                BY <2>2, <4>1, <4>2
        <3> QED
            BY <3>1, <3>2
    <2> QED
        BY <2>3, <2>4 DEF s, l
<1>7. /\ tried \in CallState /\ tried.at = "trying" /\ tried.list = old.list /\ tried.index = old.index
      /\ tried.retries = old.retries /\ tried.tried = Append(old.tried, e)
    BY <1>1, <1>6 DEF CallState
<1>8. calls' = [calls EXCEPT ![k] = call]
    BY DEF Try
<1> HIDE DEF tried, e, m, n, old
<1>9. CASE ok
    <2>1. call \in CallState /\ call.at = "data"
        BY <1>7, <1>9 DEF CallState, Answer
    <2> HIDE DEF call
    <2>2. calls'[k] = call
        BY <1>8 DEF CallsInv
    <2>3. CallInv(k)'
        BY <2>1, <2>2 DEF CallInv
    <2> QED
        BY <1>3, <1>5, <1>8, <2>1, <2>3, OneCall DEF e, m, old
<1>10. CASE ~ok
    <2>1. Len(tried.list) = n /\ old.index = (m % n) + 1
        BY <1>1, <1>7 DEF n
    <2>2. (old.index % n) + 1 = ((m + 1) % n) + 1 /\ (old.index % n) + 1 \in Nat
        <3>1. (((m % n) + 1) % n) = (m + 1) % n
            BY <1>3, NextTurn
        <3>2. m + 1 \in Nat
            BY <1>3
        <3>3. ((m + 1) % n) \in 0..(n - 1)
            BY <1>3, <3>2, Division
        <3> QED
            BY <1>3, <2>1, <3>1, <3>3
    <2>3. /\ call.at = IF old.retries > 0 THEN "trying" ELSE "418"
          /\ call.index = (old.index % n) + 1 /\ call.retries = old.retries - 1
          /\ call.list = old.list /\ call.tried = Append(old.tried, e)
          /\ call = [at |-> call.at, list |-> call.list, index |-> call.index,
                     retries |-> call.retries, tried |-> call.tried]
        BY <1>7, <1>10, <2>1 DEF Retried, CallState
    <2> HIDE DEF call
    <2> DEFINE left == old.retries
    <2>0. left \in Nat /\ m + left = Retries /\ call.retries = left - 1
        BY <1>1, <2>3
    <2>4. call.retries \in -1..Retries
        <3> HIDE DEF left
        <3> QED
            BY <1>3, <2>0, NumbersAssumption
    <2>5. call.at \in {"new", "trying"} \cup Answer
        BY <2>3 DEF Answer
    <2>6. call \in CallState
        BY <1>2, <1>6, <2>2, <2>3, <2>4, <2>5 DEF CallState
    <2>7. calls'[k] = call
        BY <1>8 DEF CallsInv
    <2>8. /\ Len(call.list) = n /\ n > 0 /\ Len(call.tried) = m + 1
          /\ \A j \in 1..(m + 1) : call.tried[j] = call.list[((j - 1) % n) + 1]
        BY <1>1, <1>6, <2>3 DEF n
    <2>9. call.index = ((m + 1) % n) + 1
        BY <2>2, <2>3
    <2>10. /\ call.at = "trying" => call.retries \in Nat
           /\ call.at = "418" => m + 1 = Retries + 1
           /\ (m + 1) + call.retries = Retries
        <3>1. /\ call.at = "trying" => left > 0
              /\ call.at = "418" => ~(left > 0)
            BY <2>3
        <3> HIDE DEF left
        <3>2. left > 0 => call.retries \in Nat
            BY <2>0
        <3>3. ~(left > 0) => m + 1 = Retries + 1
            BY <1>3, <2>0
        <3>4. (m + 1) + call.retries = Retries
            BY <1>3, <2>0
        <3> QED
            BY <3>1, <3>2, <3>3, <3>4
    <2>11. CallInv(k)'
        BY <2>7, <2>8, <2>9, <2>10 DEF CallInv
    <2> QED
        BY <1>3, <1>5, <1>8, <2>6, <2>11, OneCall DEF e, m, old
<1> QED
    BY <1>9, <1>10

-----------------------------------------------------------------------------
(* The scores. *)

\* A score has the time at which it was made (Date.now()).
LEMMA ScoreTime ==
    ASSUME NEW s \in Seq(Score), NEW i \in 1..Len(s)
    PROVE  s[i] \in Score /\ s[i].at \in Nat
<1>1. s[i] \in Score
    OBVIOUS
<1>2. s[i].at \in 0..MaxTime
    BY <1>1 DEF Score
<1> QED
    BY <1>1, <1>2, NumbersAssumption

\* Of scores that are newest first the filter keeps a prefix (filterOutdatedEndpointScores).
LEMMA RecentIsPrefix ==
    ASSUME NEW s \in Seq(Score), IsNewestFirst(s), now \in 0..MaxTime
    PROVE  \E k \in 0..Len(s) :
              /\ k < MaxItems /\ Recent(s) = [i \in 1..k |-> s[i]]
              /\ \A i \in (k + 1)..Len(s) : i >= MaxItems \/ now - s[i].at >= TTL
<1> DEFINE kept == {i \in 1..Len(s) : i < MaxItems /\ now - s[i].at < TTL}
           stops == {i \in Nat : i + 1 \notin kept}
<1>1. Len(s) \in Nat /\ MaxItems \in Nat \ {0} /\ TTL \in Nat /\ now \in Nat
    BY NumbersAssumption
<1>2. \A i \in 1..Len(s) : s[i].at \in Nat
    BY ScoreTime
<1>3. Len(s) \in stops /\ stops \subseteq Nat
    BY <1>1
<1>4. PICK k \in stops : \A i \in stops : k <= i
    <2> HIDE DEF stops
    <2> QED
        BY <1>3, LeastNumber
<1>5. k \in 0..Len(s) /\ k + 1 \notin kept
    BY <1>1, <1>3, <1>4
<1>6. \A i \in 1..k : i \in kept
    <2> SUFFICES ASSUME NEW i \in 1..k PROVE i \in kept
        OBVIOUS
    <2>1. i - 1 \in Nat /\ i - 1 < k /\ (i - 1) + 1 = i
        BY <1>5
    <2>2. i - 1 \notin stops
        <3> HIDE DEF stops
        <3> QED
            BY <1>4, <1>5, <2>1
    <2> QED
        BY <2>1, <2>2
<1>7. ASSUME NEW i \in (k + 1)..Len(s)
      PROVE  i >= MaxItems \/ now - s[i].at >= TTL
    <2>1. k + 1 \in 1..Len(s) /\ i \in 1..Len(s)
        BY <1>1, <1>5
    <2>2. k + 1 >= MaxItems \/ ~(now - s[k + 1].at < TTL)
        BY <1>1, <1>5, <2>1
    <2>3. s[k + 1].at >= s[i].at
        <3>1. CASE i = k + 1
            BY <1>2, <2>1, <3>1
        <3>2. CASE i # k + 1
            <4>1. k + 1 < i
                BY <1>1, <1>5, <3>2
            <4> QED
                BY <2>1, <4>1 DEF IsNewestFirst
        <3> QED
            BY <3>1, <3>2
    <2>4. s[k + 1].at \in Nat /\ s[i].at \in Nat
        BY <1>2, <2>1
    <2> QED
        BY <1>1, <1>5, <2>1, <2>2, <2>3, <2>4
<1>8. kept = 1..k
    <2>1. ASSUME NEW i \in kept
          PROVE  i \in 1..k
        <3>1. i \in 1..Len(s) /\ i < MaxItems /\ now - s[i].at < TTL
            OBVIOUS
        <3>2. s[i].at \in Nat
            BY <1>2, <3>1
        <3>3. i \notin (k + 1)..Len(s)
            BY <1>1, <1>7, <3>1, <3>2
        <3> QED
            BY <1>1, <1>5, <3>1, <3>3
    <2> HIDE DEF kept
    <2> QED
        BY <1>6, <2>1
<1>9. k < MaxItems
    <2>1. k = 0 \/ k \in kept
        BY <1>5, <1>6
    <2> QED
        BY <1>1, <2>1
<1>10. Recent(s) = [i \in 1..k |-> s[i]]
    <2>1. Recent(s) = Filtered(s, 1..k)
        BY <1>8 DEF Recent
    <2> QED
        BY <1>5, <2>1, FilteredPrefix
<1> QED
    BY <1>5, <1>7, <1>9, <1>10

\* The new list: the score, and what the filter keeps after it.
LEMMA WithScoreIs ==
    ASSUME NEW s \in Seq(Score), IsNewestFirst(s), now \in 0..MaxTime,
           NEW score \in Score, score.at = now
    PROVE  /\ WithScore(s, score) \in Seq(Score) /\ IsNewestFirst(WithScore(s, score))
           /\ \A m \in Seq(Score) : Covers(s, m) => Covers(WithScore(s, score), <<score>> \o m)
<1>1. PICK k \in 0..Len(s) :
        /\ k < MaxItems /\ Recent(s) = [i \in 1..k |-> s[i]]
        /\ \A i \in (k + 1)..Len(s) : i >= MaxItems \/ now - s[i].at >= TTL
    BY RecentIsPrefix
<1> DEFINE r == [i \in 1..k |-> s[i]]
           new == <<score>> \o r
<1>2. Len(s) \in Nat /\ k \in Nat /\ k <= Len(s) /\ MaxItems \in Nat /\ now \in Nat /\ TTL \in Nat
    BY NumbersAssumption
<1>3. r \in Seq(Score) /\ Len(r) = k /\ \A i \in 1..k : r[i] = s[i]
    BY <1>2
<1> HIDE DEF r
<1>4. WithScore(s, score) = new
    BY <1>1 DEF WithScore, r
<1>5. /\ new \in Seq(Score) /\ Len(new) = k + 1 /\ new[1] = score
      /\ \A i \in 2..(k + 1) : new[i] = s[i - 1]
    <2>1. new \in Seq(Score) /\ Len(new) = k + 1
        BY <1>2, <1>3
    <2>2. new[1] = score
        BY <1>2, <1>3
    <2>3. \A i \in 2..(k + 1) : new[i] = r[i - 1] /\ i - 1 \in 1..k
        BY <1>2, <1>3
    <2> QED
        BY <1>3, <2>1, <2>2, <2>3
<1> HIDE DEF new
<1>6. \A i \in 1..Len(s) : s[i].at \in Nat /\ s[i].at <= now
    BY ScoreTime DEF IsNewestFirst
<1>7. IsNewestFirst(new)
    <2>1. Len(new) <= MaxItems
        BY <1>1, <1>2, <1>5
    <2>2. ASSUME NEW i \in 1..Len(new)
          PROVE  new[i].at <= now /\ new[i].at \in Nat
        <3>1. CASE i = 1
            BY <1>2, <1>5, <3>1
        <3>2. CASE i # 1
            <4>1. i \in 2..(k + 1) /\ i - 1 \in 1..Len(s)
                BY <1>2, <1>5, <3>2
            <4> QED
                BY <1>5, <1>6, <4>1
        <3> QED
            BY <3>1, <3>2
    <2>3. ASSUME NEW i \in 1..Len(new), NEW j \in 1..Len(new), i < j
          PROVE  new[i].at >= new[j].at
        <3>1. j \in 2..(k + 1) /\ new[j] = s[j - 1] /\ j - 1 \in 1..Len(s)
            BY <1>2, <1>5, <2>3
        <3>2. CASE i = 1
            BY <1>2, <1>5, <2>2, <3>2
        <3>3. CASE i # 1
            <4>1. i \in 2..(k + 1) /\ i - 1 \in 1..Len(s) /\ i - 1 < j - 1
                BY <1>2, <1>5, <2>3, <3>1, <3>3
            <4>2. new[i] = s[i - 1]
                BY <1>5, <4>1
            <4>3. s[i - 1].at >= s[j - 1].at
                BY <3>1, <4>1 DEF IsNewestFirst
            <4> QED
                BY <3>1, <4>2, <4>3
        <3> QED
            BY <3>2, <3>3
    <2> QED
        BY <2>1, <2>2, <2>3 DEF IsNewestFirst
<1>8. ASSUME NEW m \in Seq(Score), Covers(s, m)
      PROVE  Covers(new, <<score>> \o m)
    <2> DEFINE all == <<score>> \o m
    <2>1. Len(all) = Len(m) + 1 /\ Len(m) \in Nat
        OBVIOUS
    <2>2. all[1] = score
        OBVIOUS
    <2>3. \A i \in 2..(Len(m) + 1) : all[i] = m[i - 1]
        OBVIOUS
    <2> HIDE DEF all
    <2>4. Len(new) <= Len(all)
        BY <1>2, <1>5, <1>8, <2>1 DEF Covers
    <2>5. ASSUME NEW i \in 1..Len(all)
          PROVE  IF i <= Len(new) THEN all[i] = new[i] ELSE i > MaxItems \/ now - all[i].at >= TTL
        <3>1. CASE i = 1
            BY <1>2, <1>5, <2>2, <3>1
        <3>2. CASE i # 1
            <4>1. i - 1 \in 1..Len(m) /\ i \in 2..(Len(m) + 1) /\ all[i] = m[i - 1]
                BY <2>1, <2>3, <3>2
            <4>2. IF i - 1 <= Len(s) THEN m[i - 1] = s[i - 1]
                                     ELSE i - 1 > MaxItems \/ now - m[i - 1].at >= TTL
                BY <1>8, <4>1 DEF Covers
            <4>3. CASE i <= Len(new)
                <5>1. i \in 2..(k + 1) /\ i - 1 <= Len(s)
                    BY <1>2, <1>5, <3>2, <4>3
                <5> QED
                    BY <1>5, <4>1, <4>2, <4>3, <5>1
            <4>4. CASE ~(i <= Len(new))
                <5>1. i > k + 1
                    BY <1>5, <4>4
                <5>2. CASE i - 1 <= Len(s)
                    <6>1. i - 1 \in (k + 1)..Len(s)
                        BY <1>2, <5>1, <5>2
                    <6>2. i - 1 >= MaxItems \/ now - s[i - 1].at >= TTL
                        BY <1>1, <6>1
                    <6>3. i - 1 >= MaxItems => i > MaxItems
                        BY <1>2
                    <6> QED
                        BY <4>1, <4>2, <4>4, <5>2, <6>2, <6>3
                <5>3. CASE ~(i - 1 <= Len(s))
                    <6>1. i - 1 > MaxItems => i > MaxItems
                        BY <1>2
                    <6> QED
                        BY <4>1, <4>2, <4>4, <5>3, <6>1
                <5> QED
                    BY <5>2, <5>3
            <4> QED
                BY <4>3, <4>4
        <3> QED
            BY <3>1, <3>2
    <2> QED
        BY <2>4, <2>5 DEF Covers, all
<1> QED
    BY <1>4, <1>5, <1>7, <1>8

\* Nothing but the updates and the clock touches the scores.
LEMMA ScoreFrame ==
    ASSUME ScoresOK, ScoreInv, UNCHANGED <<scoreVars, now>>
    PROVE  ScoresOK' /\ ScoreInv'
BY DEF ScoresOK, ScoreInv, scoreVars, IsNewestFirst, Covers, Writes

\* A call that returned leaves its score to an update, which has not read yet.
LEMMA TryScores ==
    ASSUME CallsInv, ScoresOK, ScoreInv, NEW k \in Calls, NEW ok \in BOOLEAN, Try(k, ok)
    PROVE  ScoresOK' /\ ScoreInv'
<1> DEFINE u == [id |-> <<k, Len(calls[k].tried)>>, at |-> "read",
                 endpoint |-> calls[k].list[calls[k].index], ok |-> ok, list |-> <<>>]
<1>1. u \in Update /\ u.at = "read"
    <2>1. <<>> \in Seq(Score)
        OBVIOUS
    <2> QED
        BY <2>1, TryStep DEF Update
<1>2. updates' = updates \cup {u} /\ UNCHANGED <<scores, made, lossy, now>>
    BY DEF Try
<1> HIDE DEF u
<1>3. ScoresOK'
    BY <1>1, <1>2 DEF ScoresOK
<1>4. \A e \in Endpoints : Writes(e)' = Writes(e)
    BY <1>1, <1>2 DEF Writes
<1>5. ScoreInv'
    BY <1>1, <1>2, <1>4 DEF ScoreInv, IsNewestFirst, Covers
<1> QED
    BY <1>3, <1>5

\* An update reads the cache and makes the new list.
LEMMA ReadScoresStep ==
    ASSUME ScoresOK, ScoreInv, NEW u \in updates, ReadScores(u)
    PROVE  ScoresOK' /\ ScoreInv'
<1> DEFINE score == [ok |-> u.ok, at |-> now]
           e == u.endpoint
           list == WithScore(scores[e], score)
           new == [u EXCEPT !.at = "write", !.list = list]
<1>1. u \in Update /\ u.at = "read" /\ e \in Endpoints
    BY DEF ScoresOK, ReadScores, Update
<1>2. score \in Score /\ score.at = now /\ now \in 0..MaxTime
    BY <1>1 DEF ScoresOK, Score, Update
<1>3. scores[e] \in Seq(Score) /\ made[e] \in Seq(Score) /\ IsNewestFirst(scores[e])
    BY <1>1 DEF ScoresOK, ScoreInv
<1>4. /\ list \in Seq(Score) /\ IsNewestFirst(list)
      /\ Covers(scores[e], made[e]) => Covers(list, <<score>> \o made[e])
    <2> HIDE DEF score, e
    <2> QED
        BY <1>2, <1>3, WithScoreIs
<1>5. /\ updates' = (updates \ {u}) \cup {new} /\ made' = [made EXCEPT ![e] = <<score>> \o made[e]]
      /\ lossy' = IF Writes(e) = {} THEN lossy ELSE lossy \cup {e}
      /\ scores' = scores /\ now' = now
    BY <1>1 DEF ReadScores, Writes, ScoresOK
<1> HIDE DEF list, score
<1>6. new \in Update /\ new.at = "write" /\ new.list = list /\ new.endpoint = e
    BY <1>1, <1>4 DEF Update
<1>7. <<score>> \o made[e] \in Seq(Score)
    BY <1>2, <1>3
<1> HIDE DEF new, e
<1>8. ScoresOK'
    <2>1. made' \in [Endpoints -> Seq(Score)]
        BY <1>1, <1>5, <1>7 DEF ScoresOK
    <2>2. updates' \subseteq Update
        BY <1>5, <1>6 DEF ScoresOK
    <2>3. lossy' \subseteq Endpoints
        BY <1>1, <1>5 DEF ScoresOK
    <2> QED
        BY <1>5, <2>1, <2>2, <2>3 DEF ScoresOK
<1>9. \A s, m : (IsNewestFirst(s)' <=> IsNewestFirst(s)) /\ (Covers(s, m)' <=> Covers(s, m))
    BY <1>5 DEF IsNewestFirst, Covers
<1>10. \A d \in Endpoints : Writes(d)' = IF d = e THEN Writes(d) \cup {new} ELSE Writes(d)
    <2>1. \A d \in Endpoints : u \notin Writes(d)
        BY <1>1 DEF Writes
    <2> QED
        BY <1>5, <1>6, <2>1 DEF Writes
<1>11. ASSUME NEW d \in Endpoints, d \notin lossy'
       PROVE  /\ Writes(d)' = {} => Covers(scores'[d], made'[d])
              /\ \A v \in Writes(d)' : Writes(d)' = {v} /\ Covers(v.list, made'[d])
    <2>1. d \notin lossy
        BY <1>5, <1>11
    <2>2. CASE d = e
        <3>1. Writes(e) = {}
            BY <1>5, <1>11, <2>2
        <3>2. Writes(e)' = {new}
            BY <1>1, <1>10, <3>1
        <3>3. Covers(scores[e], made[e])
            BY <1>1, <2>1, <2>2, <3>1 DEF ScoreInv
        <3>4. made'[e] = <<score>> \o made[e]
            BY <1>1, <1>5 DEF ScoresOK
        <3> QED
            BY <1>4, <1>6, <2>2, <3>2, <3>3, <3>4
    <2>3. CASE d # e
        <3>1. made'[d] = made[d] /\ scores'[d] = scores[d] /\ Writes(d)' = Writes(d)
            BY <1>5, <1>10, <2>3 DEF ScoresOK
        <3> QED
            BY <2>1, <3>1 DEF ScoreInv
    <2> QED
        BY <2>2, <2>3
<1>12. \A v \in updates' : v.at = "write" => IsNewestFirst(v.list)
    BY <1>4, <1>5, <1>6 DEF ScoreInv
<1>13. \A d \in Endpoints : IsNewestFirst(scores'[d])
    BY <1>5 DEF ScoreInv
<1>14. ScoreInv'
    BY <1>9, <1>11, <1>12, <1>13 DEF ScoreInv
<1> QED
    BY <1>8, <1>14

\* An update writes its list.
LEMMA WriteScoresStep ==
    ASSUME ScoresOK, ScoreInv, NEW u \in updates, WriteScores(u)
    PROVE  ScoresOK' /\ ScoreInv'
<1> DEFINE e == u.endpoint
<1>1. u \in Update /\ u.at = "write" /\ e \in Endpoints /\ u.list \in Seq(Score) /\ u \in Writes(e)
    BY DEF ScoresOK, WriteScores, Update, Writes
<1>2. /\ scores' = [scores EXCEPT ![e] = u.list] /\ updates' = updates \ {u}
      /\ made' = made /\ lossy' = lossy /\ now' = now
    BY DEF WriteScores
<1> HIDE DEF e
<1>3. ScoresOK'
    BY <1>1, <1>2 DEF ScoresOK
<1>4. \A s, m : (IsNewestFirst(s)' <=> IsNewestFirst(s)) /\ (Covers(s, m)' <=> Covers(s, m))
    BY <1>2 DEF IsNewestFirst, Covers
<1>5. \A d \in Endpoints : Writes(d)' = Writes(d) \ {u}
    BY <1>2 DEF Writes
<1>6. \A d \in Endpoints : scores'[d] = IF d = e THEN u.list ELSE scores[d]
    BY <1>2 DEF ScoresOK
<1>7. ASSUME NEW d \in Endpoints, d \notin lossy'
      PROVE  /\ Writes(d)' = {} => Covers(scores'[d], made'[d])
             /\ \A v \in Writes(d)' : Writes(d)' = {v} /\ Covers(v.list, made'[d])
    <2>1. CASE d = e
        <3>1. Writes(e) = {u} /\ Covers(u.list, made[e])
            BY <1>1, <1>2, <1>7, <2>1 DEF ScoreInv
        <3>2. Writes(e)' = {}
            BY <1>1, <1>5, <3>1
        <3> QED
            BY <1>2, <1>6, <2>1, <3>1, <3>2
    <2>2. CASE d # e
        <3>1. u \notin Writes(d)
            BY <2>2 DEF Writes, e
        <3>2. Writes(d)' = Writes(d) /\ scores'[d] = scores[d]
            BY <1>5, <1>6, <2>2, <3>1
        <3> QED
            BY <1>2, <1>7, <3>2 DEF ScoreInv
    <2> QED
        BY <2>1, <2>2
<1>8. \A d \in Endpoints : IsNewestFirst(scores'[d])
    BY <1>1, <1>6 DEF ScoreInv
<1>9. \A v \in updates' : v.at = "write" => IsNewestFirst(v.list)
    BY <1>2 DEF ScoreInv
<1>10. ScoreInv'
    BY <1>4, <1>7, <1>8, <1>9 DEF ScoreInv
<1> QED
    BY <1>3, <1>10

\* An update is lost, and with it what its endpoint's scores are complete in.
LEMMA FailUpdateStep ==
    ASSUME ScoresOK, ScoreInv, NEW u \in updates, FailUpdate(u)
    PROVE  ScoresOK' /\ ScoreInv'
<1>1. u \in Update /\ u.endpoint \in Endpoints
    BY DEF ScoresOK, Update
<1>2. /\ updates' = updates \ {u} /\ lossy' = lossy \cup {u.endpoint}
      /\ scores' = scores /\ made' = made /\ now' = now
    BY DEF FailUpdate
<1>3. ScoresOK'
    BY <1>1, <1>2 DEF ScoresOK
<1>4. \A s, m : (IsNewestFirst(s)' <=> IsNewestFirst(s)) /\ (Covers(s, m)' <=> Covers(s, m))
    BY <1>2 DEF IsNewestFirst, Covers
<1>5. \A d \in Endpoints : d \notin lossy' => d \notin lossy /\ Writes(d)' = Writes(d)
    BY <1>2 DEF Writes
<1>6. ScoreInv'
    BY <1>2, <1>4, <1>5 DEF ScoreInv
<1> QED
    BY <1>3, <1>6

\* Time passes: what is outdated stays so.
LEMMA TickStep ==
    ASSUME ScoresOK, ScoreInv, Tick
    PROVE  ScoresOK' /\ ScoreInv'
<1>1. now \in 0..MaxTime /\ now' = now + 1 /\ now' \in 0..MaxTime /\ UNCHANGED scoreVars
    BY NumbersAssumption DEF Tick, ScoresOK
<1>2. ScoresOK'
    BY <1>1 DEF ScoresOK, scoreVars
<1>3. ASSUME NEW s \in Seq(Score), IsNewestFirst(s)
      PROVE  IsNewestFirst(s)'
    <2>1. \A i \in 1..Len(s) : s[i].at <= now + 1
        <3>1. ASSUME NEW i \in 1..Len(s)
              PROVE  s[i].at <= now + 1
            <4>1. s[i].at \in Nat /\ s[i].at <= now
                BY <1>3, ScoreTime DEF IsNewestFirst
            <4> QED
                BY <1>1, <4>1, NumbersAssumption
        <3> QED
            BY <3>1
    <2> QED
        BY <1>1, <1>3, <2>1 DEF IsNewestFirst
<1>4. ASSUME NEW s \in Seq(Score), NEW m \in Seq(Score), Covers(s, m)
      PROVE  Covers(s, m)'
    <2>1. ASSUME NEW i \in 1..Len(m), now - m[i].at >= TTL
          PROVE  now' - m[i].at >= TTL
        <3>1. m[i].at \in Nat /\ TTL \in Nat
            BY ScoreTime, NumbersAssumption
        <3> QED
            BY <1>1, <2>1, <3>1, NumbersAssumption
    <2> QED
        BY <1>4, <2>1 DEF Covers
<1>5. \A e \in Endpoints : Writes(e)' = Writes(e)
    BY <1>1 DEF Writes, scoreVars
<1>6. \A e \in Endpoints : \A u \in Writes(e) : u.list \in Seq(Score)
    BY DEF Writes, ScoresOK, Update
<1>7. ScoreInv'
    <2>1. \A e \in Endpoints : IsNewestFirst(scores[e])'
        <3>1. \A e \in Endpoints : scores'[e] = scores[e]
            BY <1>1 DEF scoreVars
        <3>2. \A e \in Endpoints : scores[e] \in Seq(Score) /\ IsNewestFirst(scores[e])
            BY DEF ScoreInv, ScoresOK
        <3>3. \A s \in Seq(Score) : IsNewestFirst(s) => IsNewestFirst(s)'
            BY <1>3
        <3> QED
            BY <3>1, <3>2, <3>3 DEF IsNewestFirst
    <2>2. \A u \in updates : u.at = "write" => IsNewestFirst(u.list)'
        BY <1>3 DEF ScoreInv, ScoresOK, Update
    <2>3. ASSUME NEW e \in Endpoints, e \notin lossy
          PROVE  /\ Writes(e) = {} => Covers(scores[e], made[e])'
                 /\ \A u \in Writes(e) : Writes(e) = {u} /\ Covers(u.list, made[e])'
        <3>1. scores' = scores /\ made' = made
            BY <1>1 DEF scoreVars
        <3>2. scores[e] \in Seq(Score) /\ made[e] \in Seq(Score)
            BY DEF ScoresOK
        <3>3. \A s, m \in Seq(Score) : Covers(s, m) => Covers(s, m)'
            BY <1>4
        <3>4. ASSUME Writes(e) = {}
              PROVE  Covers(scores[e], made[e])'
            <4>1. Covers(scores[e], made[e])
                BY <2>3, <3>4 DEF ScoreInv
            <4> QED
                BY <3>1, <3>2, <3>3, <4>1 DEF Covers
        <3>5. ASSUME NEW u \in Writes(e)
              PROVE  Writes(e) = {u} /\ Covers(u.list, made[e])'
            <4>1. Writes(e) = {u} /\ Covers(u.list, made[e])
                BY <2>3 DEF ScoreInv
            <4> QED
                BY <1>6, <3>1, <3>2, <3>3, <4>1 DEF Covers
        <3> QED
            BY <3>4, <3>5
    <2> QED
        BY <1>1, <1>5, <2>1, <2>2, <2>3 DEF ScoreInv, scoreVars, IsNewestFirst, Covers
<1> QED
    BY <1>2, <1>7

-----------------------------------------------------------------------------
(* The steps together. *)

\* When the service starts nothing is loaded, called or scored.
LEMMA InitInv == Init => Inv
<1> SUFFICES ASSUME Init PROVE Inv
    OBVIOUS
<1>1. TablesOK
    BY RowsAssumption DEF Init, TablesOK
<1>2. 0 \in Loads /\ 0 \in 0..MaxTime
    BY NumbersAssumption DEF Loads
<1>3. MapsOK
    <2>1. [priority |-> 0, archived |-> FALSE, calls |-> NoCalls] \in Object
        BY DEF Object, NoCalls, Statistic
    <2> QED
        BY <1>2, <2>1, IdleWalkType DEF Init, MapsOK
<1>4. \A c \in Chains : Listed(c) = <<>>
    BY <1>2 DEF Init, Listed
<1>5. MapInv
    <2>1. ASSUME NEW c \in Chains
          PROVE  HoldsLoad(Listed(c), c)
        BY <1>4 DEF Init, HoldsLoad, Elements
    <2> QED
        BY <2>1, IdleWalkType DEF Init, MapInv
<1>6. CallsInv
    BY NewCallType DEF Init, CallsInv, CallInv, NewCall
<1>7. ScoresOK
    BY <1>2 DEF Init, ScoresOK
<1>8. ScoreInv
    <2>1. IsNewestFirst(<<>>) /\ Covers(<<>>, <<>>)
        BY NumbersAssumption DEF IsNewestFirst, Covers
    <2> QED
        BY <2>1 DEF Init, ScoreInv, Writes
<1> QED
    BY <1>1, <1>3, <1>5, <1>6, <1>7, <1>8 DEF Inv

\* The table is changed by its own operations only.
LEMMA ChangeStep ==
    ASSUME Inv, NEW e \in Endpoints, InsertOne(e) \/ UpdateItem(e) \/ DeleteItem(e)
    PROVE  Inv'
<1>1. PICK row \in Row \cup {Gone} : Change(e, row)
    BY DEF InsertOne, UpdateItem, DeleteItem
<1>2. TablesOK'
    BY <1>1 DEF Inv, TablesOK, Change
<1>3. UNCHANGED <<mapVars, calls, scoreVars, now>>
    BY <1>1 DEF Change
<1> QED
    BY <1>2, <1>3, MapFrame, ScoreFrame DEF Inv, CallsInv, CallInv

\* The table and what is left alone by the steps of the Map.
LEMMA MapOnly ==
    ASSUME Inv, MapsOK', MapInv', UNCHANGED <<tableVars, calls, scoreVars, now>>
    PROVE  Inv'
BY ScoreFrame DEF Inv, TablesOK, tableVars, CallsInv, CallInv

\* The steps of the scores leave the Map and the table alone.
LEMMA ScoresOnly ==
    ASSUME Inv, ScoresOK', ScoreInv', CallsInv', UNCHANGED <<tableVars, mapVars>>
    PROVE  Inv'
BY MapFrame DEF Inv, TablesOK, tableVars

\* The invariant holds after every step of the table, the timers, the calls and the updates.
LEMMA NextInv == Inv /\ [Next]_vars => Inv'
<1> SUFFICES ASSUME Inv, [Next]_vars PROVE Inv'
    OBVIOUS
<1> USE DEF Inv
<1>1. CASE UNCHANGED vars
    BY <1>1, MapFrame, MapOnly DEF vars
<1>2. CASE ReadEnabled
    BY <1>2, ReadEnabledStep, MapOnly DEF ReadEnabled
<1>3. CASE Load
    BY <1>3, LoadStep, MapOnly DEF Load
<1>4. CASE StartTimer
    BY <1>4, StartTimerStep, MapOnly DEF StartTimer
<1>5. ASSUME NEW w \in Walkers, NextChain(w)
      PROVE  Inv'
    BY <1>5, NextChainStep, MapOnly DEF NextChain
<1>6. ASSUME NEW w \in Walkers, NextScores(w)
      PROVE  Inv'
    BY <1>6, NextScoresStep, MapOnly DEF NextScores
<1>7. ASSUME NEW w \in Walkers, SetChain(w)
      PROVE  Inv'
    BY <1>7, SetChainStep, MapOnly DEF SetChain
<1>8. ASSUME NEW w \in Walkers, EndWalk(w) \/ FailWalk(w)
      PROVE  Inv'
    BY <1>8, StopWalkStep, MapOnly DEF EndWalk, FailWalk
<1>9. ASSUME NEW k \in Calls, StartCall(k)
      PROVE  Inv'
    BY <1>9, StartCallStep, ScoreFrame, ScoresOnly DEF StartCall
<1>10. ASSUME NEW k \in Calls, NEW ok \in BOOLEAN, Try(k, ok)
       PROVE  Inv'
    BY <1>10, TryStep, TryScores, ScoresOnly DEF Try
<1>11. ASSUME NEW u \in updates, ReadScores(u)
       PROVE  Inv'
    <2>1. UNCHANGED <<tableVars, mapVars, calls>>
        BY <1>11 DEF ReadScores
    <2>2. CallsInv'
        BY <2>1 DEF CallsInv, CallInv
    <2> QED
        BY <1>11, <2>1, <2>2, ReadScoresStep, ScoresOnly
<1>12. ASSUME NEW u \in updates, WriteScores(u)
       PROVE  Inv'
    <2>1. UNCHANGED <<tableVars, mapVars, calls>>
        BY <1>12 DEF WriteScores
    <2>2. CallsInv'
        BY <2>1 DEF CallsInv, CallInv
    <2> QED
        BY <1>12, <2>1, <2>2, WriteScoresStep, ScoresOnly
<1>13. ASSUME NEW u \in updates, FailUpdate(u)
       PROVE  Inv'
    <2>1. UNCHANGED <<tableVars, mapVars, calls>>
        BY <1>13 DEF FailUpdate
    <2>2. CallsInv'
        BY <2>1 DEF CallsInv, CallInv
    <2> QED
        BY <1>13, <2>1, <2>2, FailUpdateStep, ScoresOnly
<1>14. CASE Tick
    <2>1. UNCHANGED <<tableVars, mapVars, calls>>
        BY <1>14 DEF Tick
    <2>2. CallsInv'
        BY <2>1 DEF CallsInv, CallInv
    <2> QED
        BY <1>14, <2>1, <2>2, TickStep, ScoresOnly
<1> HIDE DEF Inv
<1> QED
    BY <1>1, <1>2, <1>3, <1>4, <1>5, <1>6, <1>7, <1>8, <1>9, <1>10, <1>11, <1>12, <1>13, <1>14,
       ChangeStep DEF Next

-----------------------------------------------------------------------------
(* Results. *)

\* The types of the Map, the reorderings, the calls and the scores (EndpointsStatisticService,
\* RpcService), for any table, lists and interleaving.
THEOREM TypesAreCorrect == Spec => []TypeOK
<1>1. Inv => TypeOK
    BY DEF Inv, TablesOK, MapsOK, CallsInv, ScoresOK, TypeOK, WalkState, Update
<1> QED
    BY <1>1, InitInv, NextInv, PTL DEF Spec

\* The list of a chain is what the last load brought, unless an older reordering outlived it
\* (syncEndpointsFromDatabase, updateEndpointsPriority).
THEOREM ListsAreTheLastLoad == Spec => []MapIsLastLoad
<1>1. Inv => MapIsLastLoad
    <2> SUFFICES ASSUME Inv, ~outlived, NEW c \in Chains
                 PROVE  /\ {ref[2] : ref \in Elements(Listed(c))} = {e \in loaded : ChainOf[e] = c}
                        /\ \A i, j \in 1..Len(Listed(c)) : Listed(c)[i][2] = Listed(c)[j][2] => i = j
        BY DEF MapIsLastLoad
    <2> DEFINE list == Listed(c)
               S == {x \in loaded : ChainOf[x] = c}
    <2>1. HoldsLoad(list, c)
        BY DEF Inv, MapInv
    <2> HIDE DEF list
    <2>2. Elements(list) = {<<loads, e>> : e \in S} /\ \A i, j \in 1..Len(list) : list[i] = list[j] => i = j
        BY <2>1 DEF HoldsLoad
    <2> HIDE DEF S
    <2>3. {ref[2] : ref \in Elements(list)} = S
        <3>1. \A e \in S : <<loads, e>> \in Elements(list) /\ <<loads, e>>[2] = e
            BY <2>2
        <3>2. \A ref \in Elements(list) : ref[2] \in S
            BY <2>2
        <3>3. \A e \in S : e \in {ref[2] : ref \in Elements(list)}
            BY <3>1
        <3> QED
            BY <3>2, <3>3
    <2>4. \A i \in 1..Len(list) : list[i] = <<loads, list[i][2]>>
        <3>1. \A i \in 1..Len(list) : list[i] \in {<<loads, e>> : e \in S}
            BY <2>2 DEF Elements
        <3> QED
            BY <3>1
    <2>5. \A i, j \in 1..Len(list) : list[i][2] = list[j][2] => i = j
        BY <2>2, <2>4
    <2> QED
        BY <2>3, <2>5 DEF list, S
<1> QED
    BY <1>1, InitInv, NextInv, PTL DEF Spec

\* A call that is given up on has used its tries evenly, for any list and number of retries
\* (proxyRPCCall).
THEOREM TriesAreEven == Spec => []GivesUpLast
<1>1. Inv => GivesUpLast
    <2> SUFFICES ASSUME Inv, NEW k \in Calls, calls[k].at = "418"
                 PROVE  LET list == calls[k].list
                            tries(i) == Cardinality({j \in 1..Len(calls[k].tried) :
                                            (j - 1) % Len(list) = i - 1 /\ calls[k].tried[j] = list[i]})
                        IN  /\ Len(calls[k].tried) = Retries + 1
                            /\ \A i, j \in 1..Len(list) : tries(i) - tries(j) \in {-1, 0, 1}
        BY DEF GivesUpLast
    <2> DEFINE list == calls[k].list
               tried == calls[k].tried
               n == Len(list)
               m == Len(tried)
               tries(i) == Cardinality({j \in 1..m : (j - 1) % n = i - 1 /\ tried[j] = list[i]})
    <2>1. /\ list \in Seq(Endpoints) /\ tried \in Seq(Endpoints) /\ n > 0 /\ m = Retries + 1
          /\ \A j \in 1..m : tried[j] = list[((j - 1) % n) + 1]
        BY DEF Inv, CallsInv, CallInv, CallState
    <2> HIDE DEF list, tried
    <2>2. n \in Nat \ {0} /\ m \in Nat
        BY <2>1
    <2> HIDE DEF n, m
    <2>3. ASSUME NEW i \in 1..n
          PROVE  tries(i) = Cardinality(Turns(n, m, i))
        <3>1. ASSUME NEW j \in 1..m, (j - 1) % n = i - 1
              PROVE  tried[j] = list[i]
            <4>1. tried[j] = list[(i - 1) + 1]
                BY <2>1, <3>1
            <4> QED
                BY <2>2, <4>1
        <3>2. {j \in 1..m : (j - 1) % n = i - 1 /\ tried[j] = list[i]} = Turns(n, m, i)
            BY <3>1 DEF Turns
        <3> QED
            BY <3>2
    <2>4. ASSUME NEW i \in 1..n, NEW j \in 1..n
          PROVE  tries(i) - tries(j) \in {-1, 0, 1}
        <3> DEFINE a == Cardinality(Turns(n, m, i))
                   b == Cardinality(Turns(n, m, j))
        <3>1. i < j => a \in Nat /\ b \in Nat /\ a - b \in {0, 1}
            BY <2>2, TurnsAreEven
        <3>2. j < i => a \in Nat /\ b \in Nat /\ b - a \in {0, 1}
            BY <2>2, TurnsAreEven
        <3>3. a \in Nat
            <4>1. Turns(n, m, i) \in SUBSET (1..m)
                BY DEF Turns
            <4> QED
                BY <2>2, <4>1, PositionsAreFinite
        <3>4. i = j => a = b
            OBVIOUS
        <3> HIDE DEF a, b
        <3>5. a - b \in {-1, 0, 1}
            BY <2>2, <3>1, <3>2, <3>3, <3>4
        <3> QED
            BY <2>3, <3>5 DEF a, b
    <2> QED
        BY <2>1, <2>4 DEF list, tried, n, m
<1> QED
    BY <1>1, InitInv, NextInv, PTL DEF Spec

\* The cached scores are newest first and at most MaxItems, whatever updates overlap, so that
\* the filter by position drops the oldest (updateEndpointSuccessRate).
THEOREM ScoresAreNewestFirst == Spec => []NewestFirst
<1>1. Inv => NewestFirst
    BY DEF Inv, NewestFirst, ScoreInv, IsNewestFirst
<1> QED
    BY <1>1, InitInv, NextInv, PTL DEF Spec

\* While no two updates of an endpoint overlap and none fails, the cache misses no score that
\* is neither outdated nor crowded out (updateEndpointSuccessRate).
THEOREM ScoresAreKept == Spec => []NoScoreIsLost
<1>1. Inv => NoScoreIsLost
    <2> SUFFICES ASSUME Inv, NEW e \in Endpoints, e \notin lossy,
                        \A u \in updates : u.endpoint = e => u.at = "read"
                 PROVE  Covers(scores[e], made[e])
        BY DEF NoScoreIsLost, Covers
    <2>1. Writes(e) = {}
        BY DEF Writes
    <2> QED
        BY <2>1 DEF Inv, ScoreInv
<1> QED
    BY <1>1, InitInv, NextInv, PTL DEF Spec
=============================================================================
