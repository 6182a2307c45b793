-------------------------- MODULE AssetsProcessorProofs --------------------------
(***************************************************************************)
(* For any assets, any composition of them and any number of workers,      *)
(* attempts and faults: an asset is stored or cached only with everything  *)
(* it is made of, and no two workers have the job of one asset.  The       *)
(* invariant says what each frame of a worker knows at its await, and that *)
(* the frame above it is the call for the next of its underlying assets.   *)
(***************************************************************************)
EXTENDS AssetsProcessor, TLAPS

-----------------------------------------------------------------------------
(* What an asset is made of. *)

\* What can be reached from what a is made of: the least set that holds it and, with an asset,
\* what that one is made of.
Reached(a) ==
    {b \in Assets : \A S \in SUBSET Assets :
        (Range(Underlying[a]) \subseteq S /\ \A c \in S : Range(Underlying[c]) \subseteq S) => b \in S}

\* An asset is made of assets (AssetEntity.underlying).
LEMMA UnderlyingRange ==
    ASSUME NEW a \in Assets
    PROVE  /\ Range(Underlying[a]) = {Underlying[a][i] : i \in 1..Len(Underlying[a])}
           /\ Range(Underlying[a]) \subseteq Assets /\ Len(Underlying[a]) \in Nat
<1>1. Underlying[a] \in Seq(Assets)
    BY AssetsAssumption
<1> QED
    BY <1>1 DEF Range

\* What is reached from an asset's parts is reached from the asset.
LEMMA ReachedIsClosed ==
    ASSUME NEW a \in Assets, NEW c \in Reached(a)
    PROVE  c \in Assets /\ Range(Underlying[c]) \subseteq Reached(a)
<1>1. c \in Assets
    BY DEF Reached
<1>2. ASSUME NEW d \in Range(Underlying[c])
      PROVE  d \in Reached(a)
    <2>1. d \in Assets
        BY <1>1, UnderlyingRange
    <2>2. ASSUME NEW S \in SUBSET Assets, Range(Underlying[a]) \subseteq S,
                 \A e \in S : Range(Underlying[e]) \subseteq S
          PROVE  d \in S
        <3>1. c \in S
            BY <2>2 DEF Reached
        <3> QED
            BY <2>2, <3>1
    <2> QED
        BY <2>1, <2>2 DEF Reached
<1> QED
    BY <1>1, <1>2

\* The reached sets satisfy the equation of Parts.
LEMMA ReachedUnfolds ==
    ASSUME NEW a \in Assets
    PROVE  Reached(a) = Range(Underlying[a]) \cup UNION {Reached(b) : b \in Range(Underlying[a])}
<1> DEFINE T == Range(Underlying[a]) \cup UNION {Reached(b) : b \in Range(Underlying[a])}
<1>1. ASSUME NEW d \in T
      PROVE  d \in Reached(a)
    <2>1. CASE d \in Range(Underlying[a])
        BY <2>1, UnderlyingRange DEF Reached
    <2>2. ASSUME NEW b \in Range(Underlying[a]), d \in Reached(b)
          PROVE  d \in Reached(a)
        <3>1. d \in Assets
            BY <2>2 DEF Reached
        <3>2. ASSUME NEW S \in SUBSET Assets, Range(Underlying[a]) \subseteq S,
                     \A e \in S : Range(Underlying[e]) \subseteq S
              PROVE  d \in S
            <4>1. Range(Underlying[b]) \subseteq S
                BY <2>2, <3>2
            <4> QED
                BY <2>2, <3>2, <4>1 DEF Reached
        <3> QED
            BY <3>1, <3>2 DEF Reached
    <2> QED
        BY <2>1, <2>2
<1>2. T \in SUBSET Assets /\ Range(Underlying[a]) \subseteq T
    BY UnderlyingRange DEF Reached
<1>3. ASSUME NEW c \in T
      PROVE  Range(Underlying[c]) \subseteq T
    <2>1. CASE c \in Range(Underlying[a])
        <3>1. Range(Underlying[c]) \subseteq Reached(c)
            BY <1>2, UnderlyingRange DEF Reached
        <3> QED
            BY <2>1, <3>1
    <2>2. ASSUME NEW b \in Range(Underlying[a]), c \in Reached(b)
          PROVE  Range(Underlying[c]) \subseteq T
        <3>1. b \in Assets
            BY <1>2
        <3>2. Range(Underlying[c]) \subseteq Reached(b)
            BY <2>2, <3>1, ReachedIsClosed
        <3> QED
            BY <2>2, <3>2
    <2> QED
        BY <2>1, <2>2
<1> HIDE DEF T
<1>4. ASSUME NEW d \in Reached(a)
      PROVE  d \in T
    BY <1>2, <1>3, <1>4 DEF Reached
<1>5. Reached(a) = T
    BY <1>1, <1>4
<1> QED
    BY <1>5 DEF T

\* The recursion of Parts: what an asset is made of, and what that is made of.
LEMMA PartsUnfold ==
    ASSUME NEW a \in Assets
    PROVE  Parts[a] = Range(Underlying[a]) \cup UNION {Parts[b] : b \in Range(Underlying[a])}
<1> DEFINE Solves(f) == f = [x \in Assets |->
                Range(Underlying[x]) \cup UNION {f[b] : b \in Range(Underlying[x])}]
           r == [x \in Assets |-> Reached(x)]
<1>1. ASSUME NEW x \in Assets
      PROVE  r[x] = Range(Underlying[x]) \cup UNION {r[b] : b \in Range(Underlying[x])}
    <2>1. Reached(x) = Range(Underlying[x]) \cup UNION {Reached(b) : b \in Range(Underlying[x])}
        BY ReachedUnfolds
    <2>2. \A b \in Range(Underlying[x]) : b \in Assets
        BY UnderlyingRange
    <2>3. {Reached(b) : b \in Range(Underlying[x])} = {r[b] : b \in Range(Underlying[x])}
        BY <2>2
    <2> QED
        BY <2>1, <2>3
<1>2. r = [x \in Assets |-> r[x]]
    OBVIOUS
<1> HIDE DEF r
<1>3. Solves(r)
    BY <1>1, <1>2
<1>4. Parts = CHOOSE f : Solves(f)
    BY DEF Parts
<1> HIDE DEF Solves
<1>5. Solves(Parts)
    BY <1>3, <1>4
<1> USE DEF Solves
<1> QED
    BY <1>5

-----------------------------------------------------------------------------
(* The invariant. *)

\* An asset is in S with everything it is made of.
Whole(a, S) == a \in S /\ Parts[a] \subseteq S

\* The awaits before the loop over the underlying assets.
Early == {"lookup", "load", "put", "update", "check", "analyse"}

\* What a frame knows of the table S at its await: what it found is whole, so are the underlying
\* assets that its loop is done with, and its own asset is in the table once it was saved.
FrameOK(f, S) ==
    LET under == Underlying[f.asset] IN
    /\ f.found # "none" => Whole(f.asset, S)
    /\ f.pc \in Early => f.next = 1
    /\ f.pc = "put" => f.asset \in S \cap Compound
    /\ f.pc = "update" => f.found # "none"
    /\ f.pc = "underlying" => \A i \in 1..Len(under) : i < f.next => Whole(under[i], S)
    /\ f.pc \in {"find", "insert", "merge", "save"} => \A i \in 1..Len(under) : Whole(under[i], S)
    /\ f.pc \in {"clean", "remove"} => f.asset \in S

\* A frame that is not on top awaits the call above it, for its next underlying asset.
Calls(f, g) ==
    /\ f.pc = "underlying" /\ f.next \in 1..Len(Underlying[f.asset])
    /\ g.asset = Underlying[f.asset][f.next]

StackOK(s, S) ==
    /\ s \in Seq(Frame)
    /\ \A i \in 1..Len(s) : FrameOK(s[i], S)
    /\ \A i \in 1..Len(s) : i < Len(s) => Calls(s[i], s[i + 1])

TablesOK ==
    /\ stored \subseteq Assets
    /\ cache \in [Compound -> Shapes] /\ fills \in [Compound -> 0..MaxFills]
    /\ invalid \in [Assets -> 0..MaxRetry]

BoundsOK == analysable \subseteq Assets /\ faults \in 0..MaxFaults

StoredInv ==
    /\ \A a \in stored : Parts[a] \subseteq stored
    /\ \A a \in Compound : cache[a] # "none" \/ fills[a] > 0 => Whole(a, stored)

StacksInv == DOMAIN stack = Workers /\ \A w \in Workers : StackOK(stack[w], stored)

\* A worker's job is active, and is nobody else's.
JobsInv ==
    /\ job \in [Assets -> Job \cup {NoJob}]
    /\ \A w \in Workers : stack[w] # <<>> =>
          /\ stack[w][1].asset \in Assets
          /\ job[stack[w][1].asset].at = "active"
          /\ \A v \in Workers : v # w /\ stack[v] # <<>> => stack[v][1].asset # stack[w][1].asset

Inv == TablesOK /\ BoundsOK /\ StoredInv /\ StacksInv /\ JobsInv

-----------------------------------------------------------------------------
(* Stacks of frames. *)

\* A stack with its top frame, and without it.
LEMMA FrontAndLast ==
    ASSUME NEW S, NEW s \in Seq(S), s # <<>>
    PROVE  /\ Len(s) \in Nat \ {0} /\ Last(s) = s[Len(s)] /\ Last(s) \in S
           /\ Front(s) \in Seq(S) /\ Len(Front(s)) = Len(s) - 1
           /\ \A i \in 1..(Len(s) - 1) : Front(s)[i] = s[i]
<1>1. Len(s) \in Nat \ {0}
    OBVIOUS
<1>2. Last(s) = s[Len(s)] /\ Last(s) \in S
    BY <1>1 DEF Last
<1>3. Front(s) \in Seq(S) /\ Len(Front(s)) = Len(s) - 1
    <2> DEFINE m == Len(s) - 1
    <2>1. m \in Nat /\ m <= Len(s)
        BY <1>1
    <2> HIDE DEF m
    <2>2. \A i \in 1..m : s[i] \in S
        BY <1>1, <2>1
    <2>3. SubSeq(s, 1, m) = [i \in 1..m |-> s[i]]
        BY <1>1, <2>1
    <2>4. SubSeq(s, 1, m) \in Seq(S) /\ Len(SubSeq(s, 1, m)) = m
        BY <2>1, <2>2, <2>3
    <2> QED
        BY <2>4 DEF Front, m
<1>4. \A i \in 1..(Len(s) - 1) : Front(s)[i] = s[i]
    BY <1>1 DEF Front
<1> QED
    BY <1>1, <1>2, <1>3, <1>4

\* A frame put on top of others.
LEMMA Appended ==
    ASSUME NEW S, NEW s \in Seq(S), NEW x \in S
    PROVE  /\ Append(s, x) \in Seq(S) /\ Append(s, x) # <<>> /\ Len(Append(s, x)) = Len(s) + 1
           /\ Len(s) \in Nat /\ Append(s, x)[Len(s) + 1] = x
           /\ \A i \in 1..Len(s) : Append(s, x)[i] = s[i]
<1>1. Append(s, x) \in Seq(S) /\ Len(Append(s, x)) = Len(s) + 1 /\ Len(s) \in Nat
    OBVIOUS
<1>2. Append(s, x) # <<>>
    BY <1>1
<1>3. Append(s, x)[Len(s) + 1] = x /\ \A i \in 1..Len(s) : Append(s, x)[i] = s[i]
    BY <1>1
<1> QED
    BY <1>1, <1>2, <1>3

\* What a frame knows stays true when rows are added to the table.
LEMMA StackGrows ==
    ASSUME NEW S, NEW T, S \subseteq T
    PROVE  /\ \A f : FrameOK(f, S) => FrameOK(f, T)
           /\ \A s : StackOK(s, S) => StackOK(s, T)
<1>1. \A a : Whole(a, S) => Whole(a, T)
    BY DEF Whole
<1>2. \A f : FrameOK(f, S) => FrameOK(f, T)
    BY <1>1 DEF FrameOK
<1> QED
    BY <1>2 DEF StackOK

\* The top frame goes on to its next await.
LEMMA ReplaceTop ==
    ASSUME NEW S, NEW s, StackOK(s, S), s # <<>>,
           NEW g \in Frame, g.asset = Last(s).asset, FrameOK(g, S)
    PROVE  /\ StackOK(Append(Front(s), g), S) /\ Append(Front(s), g) # <<>>
           /\ Append(Front(s), g)[1].asset = s[1].asset
<1> DEFINE n == Len(s)
           t == Append(Front(s), g)
<1>1. /\ n \in Nat \ {0} /\ Last(s) = s[n] /\ Front(s) \in Seq(Frame) /\ Len(Front(s)) = n - 1
      /\ \A i \in 1..(n - 1) : Front(s)[i] = s[i]
    BY FrontAndLast DEF StackOK
<1>2. t \in Seq(Frame) /\ t # <<>> /\ Len(t) = n /\ t[n] = g /\ \A i \in 1..(n - 1) : t[i] = s[i]
    <2>1. /\ t \in Seq(Frame) /\ t # <<>> /\ Len(t) = Len(Front(s)) + 1
          /\ t[Len(Front(s)) + 1] = g /\ \A i \in 1..Len(Front(s)) : t[i] = Front(s)[i]
        BY <1>1, Appended
    <2> HIDE DEF t, n
    <2>2. Len(Front(s)) + 1 = n
        BY <1>1
    <2> QED
        BY <1>1, <2>1, <2>2
<1> HIDE DEF t, n
<1>3. \A i \in 1..n : FrameOK(t[i], S)
    <2> SUFFICES ASSUME NEW i \in 1..n PROVE FrameOK(t[i], S)
        OBVIOUS
    <2>1. CASE i = n
        BY <1>2, <2>1
    <2>2. CASE i # n
        <3>1. i \in 1..(n - 1)
            BY <1>1, <2>2
        <3>2. t[i] = s[i] /\ FrameOK(s[i], S)
            BY <1>2, <3>1 DEF StackOK, n
        <3> QED
            BY <3>2
    <2> QED
        BY <2>1, <2>2
<1>4. \A i \in 1..n : i < n => Calls(t[i], t[i + 1])
    <2> SUFFICES ASSUME NEW i \in 1..n, i < n PROVE Calls(t[i], t[i + 1])
        OBVIOUS
    <2>1. i \in 1..(n - 1) /\ t[i] = s[i] /\ Calls(s[i], s[i + 1])
        BY <1>1, <1>2 DEF StackOK, n
    <2>2. t[i + 1].asset = s[i + 1].asset
        <3>1. CASE i + 1 = n
            BY <1>1, <1>2, <3>1
        <3>2. CASE i + 1 # n
            <4>1. i + 1 \in 1..(n - 1)
                BY <1>1, <2>1, <3>2
            <4> QED
                BY <1>2, <4>1
        <3> QED
            BY <3>1, <3>2
    <2> QED
        BY <2>1, <2>2 DEF Calls
<1>5. t[1].asset = s[1].asset
    <2>1. CASE n = 1
        BY <1>1, <1>2, <2>1
    <2>2. CASE n # 1
        <3>1. 1 \in 1..(n - 1)
            BY <1>1, <2>2
        <3> QED
            BY <1>2, <3>1
    <2> QED
        BY <2>1, <2>2
<1> QED
    BY <1>2, <1>3, <1>4, <1>5 DEF StackOK, t

\* processAsset calls itself for an underlying asset.
LEMMA PushCall ==
    ASSUME NEW S, NEW s, StackOK(s, S), s # <<>>, NEW g \in Frame, FrameOK(g, S), Calls(Last(s), g)
    PROVE  /\ StackOK(Append(s, g), S) /\ Append(s, g) # <<>> /\ Append(s, g)[1] = s[1]
<1> DEFINE n == Len(s)
           t == Append(s, g)
<1>1. n \in Nat \ {0} /\ Last(s) = s[n]
    BY FrontAndLast DEF StackOK
<1>2. /\ t \in Seq(Frame) /\ t # <<>> /\ Len(t) = n + 1 /\ t[n + 1] = g
      /\ \A i \in 1..n : t[i] = s[i]
    BY Appended DEF StackOK
<1> HIDE DEF t, n
<1>3. \A i \in 1..(n + 1) : FrameOK(t[i], S)
    <2> SUFFICES ASSUME NEW i \in 1..(n + 1) PROVE FrameOK(t[i], S)
        OBVIOUS
    <2>1. CASE i = n + 1
        BY <1>2, <2>1
    <2>2. CASE i # n + 1
        <3>1. i \in 1..n
            BY <1>1, <2>2
        <3>2. t[i] = s[i] /\ FrameOK(s[i], S)
            BY <1>2, <3>1 DEF StackOK, n
        <3> QED
            BY <3>2
    <2> QED
        BY <2>1, <2>2
<1>4. \A i \in 1..(n + 1) : i < n + 1 => Calls(t[i], t[i + 1])
    <2> SUFFICES ASSUME NEW i \in 1..(n + 1), i < n + 1 PROVE Calls(t[i], t[i + 1])
        OBVIOUS
    <2>1. CASE i = n
        <3>1. t[i] = Last(s) /\ t[i + 1] = g
            BY <1>1, <1>2, <2>1
        <3> QED
            BY <3>1
    <2>2. CASE i # n
        <3>1. i \in 1..n /\ i + 1 \in 1..n /\ i < n
            BY <1>1, <2>2
        <3>2. t[i] = s[i] /\ t[i + 1] = s[i + 1] /\ Calls(s[i], s[i + 1])
            BY <1>2, <3>1 DEF StackOK, n
        <3> QED
            BY <3>2
    <2> QED
        BY <2>1, <2>2
<1>5. t[1] = s[1]
    BY <1>1, <1>2
<1> QED
    BY <1>2, <1>3, <1>4, <1>5 DEF StackOK, t

\* A nested call ends: the frame below was in its loop, at this asset.
LEMMA PopTop ==
    ASSUME NEW S, NEW s, StackOK(s, S), s # <<>>, Len(s) # 1
    PROVE  /\ StackOK(Front(s), S) /\ Front(s) # <<>> /\ Front(s)[1] = s[1]
           /\ Last(Front(s)) \in Frame /\ FrameOK(Last(Front(s)), S)
           /\ Calls(Last(Front(s)), Last(s))
<1> DEFINE n == Len(s)
           t == Front(s)
<1>1. /\ n \in Nat \ {0} /\ Last(s) = s[n] /\ t \in Seq(Frame) /\ Len(t) = n - 1
      /\ \A i \in 1..(n - 1) : t[i] = s[i]
    BY FrontAndLast DEF StackOK
<1>2. n # 1
    OBVIOUS
<1> HIDE DEF t, n
<1>3. n - 1 \in Nat \ {0} /\ t # <<>> /\ 1 \in 1..(n - 1) /\ n - 1 \in 1..(n - 1)
    BY <1>1, <1>2
<1>4. \A i \in 1..(n - 1) : i \in 1..n /\ t[i] = s[i] /\ FrameOK(s[i], S)
    BY <1>1 DEF StackOK, n
<1>5. \A i \in 1..(n - 1) : i < n - 1 => Calls(t[i], t[i + 1])
    <2> SUFFICES ASSUME NEW i \in 1..(n - 1), i < n - 1 PROVE Calls(t[i], t[i + 1])
        OBVIOUS
    <2>1. i \in 1..n /\ i < n /\ i + 1 \in 1..(n - 1)
        BY <1>1
    <2>2. t[i] = s[i] /\ t[i + 1] = s[i + 1] /\ Calls(s[i], s[i + 1])
        BY <1>1, <2>1 DEF StackOK, n
    <2> QED
        BY <2>2
<1>6. StackOK(t, S)
    BY <1>1, <1>4, <1>5 DEF StackOK
<1>7. Last(t) = s[n - 1] /\ Last(t) \in Frame
    <2>1. Last(t) = t[n - 1] /\ Last(t) \in Frame
        BY <1>1, <1>3, FrontAndLast
    <2> QED
        BY <1>3, <1>4, <2>1
<1>8. Calls(s[n - 1], s[n])
    <2>1. n - 1 \in 1..n /\ n - 1 < n /\ (n - 1) + 1 = n
        BY <1>1, <1>3
    <2> QED
        BY <2>1 DEF StackOK, n
<1>9. FrameOK(s[n - 1], S) /\ t[1] = s[1]
    BY <1>3, <1>4
<1> QED
    BY <1>1, <1>3, <1>6, <1>7, <1>8, <1>9 DEF t

\* A call of processAsset, and what is left of it at the steps that end it, know nothing.
LEMMA CallType ==
    ASSUME NEW a \in Assets, NEW force \in BOOLEAN, NEW S
    PROVE  /\ Call(a, force) \in Frame /\ FrameOK(Call(a, force), S) /\ Call(a, force).asset = a
           /\ \A step \in Final :
                 LET g == [Call(a, force) EXCEPT !.pc = step]
                 IN  /\ g \in Frame /\ g.asset = a /\ g.pc = step
                     /\ step \in {"missRead", "failRead"} \/ a \in S => FrameOK(g, S)
<1>1. Call(a, force) \in Frame /\ Call(a, force).asset = a
    BY AssetsAssumption DEF Call, Frame, Awaits, Shapes
<1>2. FrameOK(Call(a, force), S)
    BY DEF FrameOK, Call, Early
<1>3. ASSUME NEW step \in Final
      PROVE  LET g == [Call(a, force) EXCEPT !.pc = step]
             IN  /\ g \in Frame /\ g.asset = a /\ g.pc = step
                 /\ step \in {"missRead", "failRead"} \/ a \in S => FrameOK(g, S)
    <2> DEFINE g == [Call(a, force) EXCEPT !.pc = step]
    <2>1. step \in Awaits
        BY DEF Final, Awaits
    <2>2. g \in Frame /\ g.asset = a /\ g.pc = step /\ g.found = "none"
        BY <1>1, <2>1 DEF Frame, Call
    <2> HIDE DEF g
    <2>3. step \in {"missRead", "failRead"} \/ a \in S => FrameOK(g, S)
        BY <2>2 DEF FrameOK, Final, Early
    <2> QED
        BY <2>2, <2>3 DEF g
<1> QED
    BY <1>1, <1>2, <1>3

-----------------------------------------------------------------------------
(* The moves of a worker. *)

\* A step of w leaves the other stacks alone; w goes on with the same job, or gives it up.
Moves(w) ==
    /\ DOMAIN stack' = Workers /\ \A v \in Workers : v # w => stack'[v] = stack[v]
    /\ StackOK(stack'[w], stored')
    /\ job' \in [Assets -> Job \cup {NoJob}]
    /\ \/ job' = job /\ stack'[w] # <<>> /\ stack'[w][1].asset = stack[w][1].asset
       \/ stack'[w] = <<>> /\ \A a \in Assets : a # stack[w][1].asset => job'[a] = job[a]

\* The invariants of stacks and jobs survive such a step.
LEMMA MovesKeep ==
    ASSUME StacksInv, JobsInv, NEW w \in Workers, stack[w] # <<>>, stored \subseteq stored', Moves(w)
    PROVE  StacksInv' /\ JobsInv'
<1>1. StacksInv'
    <2>1. ASSUME NEW v \in Workers
          PROVE  StackOK(stack'[v], stored')
        <3>1. CASE v = w
            BY <3>1 DEF Moves
        <3>2. CASE v # w
            BY <3>2, StackGrows DEF Moves, StacksInv
        <3> QED
            BY <3>1, <3>2
    <2> QED
        BY <2>1 DEF Moves, StacksInv, StackOK, FrameOK, Calls, Whole
<1>2. ASSUME NEW v \in Workers, stack'[v] # <<>>
      PROVE  /\ stack[v] # <<>> /\ stack'[v][1].asset = stack[v][1].asset
             /\ job'[stack[v][1].asset] = job[stack[v][1].asset]
    <2>1. CASE v = w
        BY <1>2, <2>1 DEF Moves
    <2>2. CASE v # w
        <3>1. stack'[v] = stack[v]
            BY <2>2 DEF Moves
        <3>2. stack[v][1].asset \in Assets /\ stack[v][1].asset # stack[w][1].asset
            BY <1>2, <2>2, <3>1 DEF JobsInv
        <3> QED
            BY <1>2, <3>1, <3>2 DEF Moves
    <2> QED
        BY <2>1, <2>2
<1>3. JobsInv'
    <2>1. job' \in [Assets -> Job \cup {NoJob}]
        BY DEF Moves
    <2>2. ASSUME NEW v \in Workers, stack'[v] # <<>>
          PROVE  /\ stack'[v][1].asset \in Assets /\ job'[stack'[v][1].asset].at = "active"
                 /\ \A u \in Workers : u # v /\ stack'[u] # <<>> => stack'[u][1].asset # stack'[v][1].asset
        BY <1>2, <2>2 DEF JobsInv
    <2> QED
        BY <2>1, <2>2 DEF JobsInv
<1> QED
    BY <1>1, <1>3

\* The top frame of a worker at work.
LEMMA TopFacts ==
    ASSUME StacksInv, NEW w \in Workers, stack[w] # <<>>
    PROVE  /\ StackOK(stack[w], stored) /\ stack[w] \in Seq(Frame)
           /\ Top(w) = Last(stack[w]) /\ Top(w) \in Frame /\ Top(w).asset \in Assets
           /\ FrameOK(Top(w), stored)
<1>1. StackOK(stack[w], stored) /\ stack[w] \in Seq(Frame)
    BY DEF StacksInv, StackOK
<1>2. /\ Len(stack[w]) \in Nat \ {0} /\ Top(w) = stack[w][Len(stack[w])] /\ Top(w) \in Frame
    BY <1>1, FrontAndLast DEF Top
<1> QED
    BY <1>1, <1>2 DEF Top, StackOK, Frame

\* The frame on top goes on.
LEMMA WithMoves ==
    ASSUME StacksInv, JobsInv, NEW w \in Workers, stack[w] # <<>>, stored \subseteq stored',
           NEW g \in Frame, g.asset = Top(w).asset, FrameOK(g, stored'),
           stack' = With(w, g), job' = job
    PROVE  Moves(w)
<1> DEFINE s == stack[w]
           t == Append(Front(s), g)
<1>1. StackOK(s, stored') /\ s # <<>> /\ g.asset = Last(s).asset
    BY TopFacts, StackGrows
<1> HIDE DEF s
<1>2. StackOK(t, stored') /\ t # <<>> /\ t[1].asset = s[1].asset
    BY <1>1, ReplaceTop
<1>3. stack' = [stack EXCEPT ![w] = t]
    BY DEF With, s
<1> HIDE DEF t
<1> QED
    BY <1>2, <1>3 DEF Moves, StacksInv, JobsInv, s

\* A worker goes on to an await, at which only the asset matters (Final) or the whole frame.
LEMMA GotoMoves ==
    ASSUME StacksInv, JobsInv, NEW w \in Workers, stack[w] # <<>>, stored \subseteq stored',
           NEW step \in Awaits, Goto(w, step),
           IF step \in Final THEN step \in {"missRead", "failRead"} \/ Top(w).asset \in stored'
                             ELSE FrameOK([Top(w) EXCEPT !.pc = step], stored')
    PROVE  Moves(w)
<1> DEFINE f == Top(w)
           next == IF step \in Final THEN Call(f.asset, FALSE) ELSE f
           g == [next EXCEPT !.pc = step]
<1>1. stack' = With(w, g) /\ job' = job
    BY DEF Goto
<1>2. f \in Frame /\ f.asset \in Assets
    BY TopFacts
<1>3. g \in Frame /\ g.asset = f.asset /\ FrameOK(g, stored')
    <2>1. CASE step \in Final
        <3>1. g = [Call(f.asset, FALSE) EXCEPT !.pc = step]
            BY <2>1
        <3>2. step \in {"missRead", "failRead"} \/ f.asset \in stored'
            BY <2>1
        <3> HIDE DEF g, f
        <3>3. /\ [Call(f.asset, FALSE) EXCEPT !.pc = step] \in Frame
              /\ [Call(f.asset, FALSE) EXCEPT !.pc = step].asset = f.asset
              /\ FrameOK([Call(f.asset, FALSE) EXCEPT !.pc = step], stored')
            BY <1>2, <2>1, <3>2, CallType
        <3> QED
            BY <3>1, <3>3
    <2>2. CASE step \notin Final
        BY <1>2, <2>2 DEF Frame
    <2> QED
        BY <2>1, <2>2
<1> HIDE DEF g
<1> QED
    BY <1>1, <1>3, WithMoves

\* A job that is done is removed with its worker's stack.
LEMMA DoneMoves ==
    ASSUME StacksInv, JobsInv, NEW w \in Workers, stack[w] # <<>>, Done(w)
    PROVE  Moves(w)
<1>1. stack[w][1].asset \in Assets
    BY DEF JobsInv
<1>2. job' = [job EXCEPT ![stack[w][1].asset] = NoJob] /\ stack' = [stack EXCEPT ![w] = <<>>]
    BY DEF Done
<1>3. StackOK(<<>>, stored')
    BY DEF StackOK
<1> QED
    BY <1>1, <1>2, <1>3 DEF Moves, StacksInv, JobsInv

\* A job that threw is tried again or removed.
LEMMA FailedMoves ==
    ASSUME StacksInv, JobsInv, NEW w \in Workers, stack[w] # <<>>, Failed(w)
    PROVE  Moves(w)
<1> DEFINE a == stack[w][1].asset
           new == IF job[a].tries + 1 < Attempts
                    THEN [job[a] EXCEPT !.at = "waiting", !.tries = job[a].tries + 1] ELSE NoJob
<1>1. a \in Assets /\ job[a].at = "active"
    BY DEF JobsInv
<1>2. job[a] \in Job
    BY <1>1 DEF JobsInv, NoJob
<1>3. job' = [job EXCEPT ![a] = new] /\ stack' = [stack EXCEPT ![w] = <<>>]
    <2>1. job \in [Assets -> Job \cup {NoJob}]
        BY DEF JobsInv
    <2> QED
        BY <1>1, <2>1 DEF Failed
<1>4. new \in Job \cup {NoJob}
    <2>1. job[a].tries \in 0..(Attempts - 1) /\ Attempts \in Nat
        BY <1>2, AssetsAssumption DEF Job
    <2>2. CASE job[a].tries + 1 < Attempts
        <3>1. job[a].tries + 1 \in 0..(Attempts - 1)
            BY <2>1, <2>2
        <3> QED
            BY <1>2, <2>2, <3>1 DEF Job
    <2> QED
        BY <2>2
<1>5. StackOK(<<>>, stored')
    BY DEF StackOK
<1> HIDE DEF new
<1> QED
    BY <1>1, <1>3, <1>4, <1>5 DEF Moves, StacksInv, JobsInv

\* processAsset throws: the job fails, or the caller's catch counts.
LEMMA ThrowMoves ==
    ASSUME StacksInv, JobsInv, NEW w \in Workers, stack[w] # <<>>, stored \subseteq stored', Throw(w)
    PROVE  Moves(w)
<1>1. CASE Len(stack[w]) = 1
    BY <1>1, FailedMoves DEF Throw
<1>2. CASE Len(stack[w]) # 1
    <2> DEFINE s == stack[w]
               below == Front(s)
               g == [Call(Last(below).asset, FALSE) EXCEPT !.pc = "failRead"]
               t == Append(Front(below), g)
    <2>1. StackOK(s, stored') /\ s # <<>>
        BY TopFacts, StackGrows
    <2>2. stack' = [stack EXCEPT ![w] = t] /\ job' = job
        BY <1>2 DEF Throw
    <2>3. /\ StackOK(below, stored') /\ below # <<>> /\ below[1] = s[1] /\ Last(below) \in Frame
        <3> HIDE DEF s
        <3> QED
            BY <1>2, <2>1, PopTop DEF s
    <2> HIDE DEF below
    <2>4. Last(below).asset \in Assets
        BY <2>3 DEF Frame
    <2>5. g \in Frame /\ g.asset = Last(below).asset /\ FrameOK(g, stored')
        BY <2>4, CallType DEF Final
    <2> HIDE DEF g
    <2>6. StackOK(t, stored') /\ t # <<>> /\ t[1].asset = below[1].asset
        BY <2>3, <2>5, ReplaceTop
    <2> HIDE DEF t
    <2> QED
        BY <2>2, <2>3, <2>6 DEF Moves, StacksInv, JobsInv
<1> QED
    BY <1>1, <1>2

\* processAsset returns an entity that is stored with its parts: the caller's loop goes on.
LEMMA ReturnMoves ==
    ASSUME StacksInv, JobsInv, NEW w \in Workers, stack[w] # <<>>, stored \subseteq stored',
           NEW shape \in Shapes, Return(w, shape), Whole(Top(w).asset, stored')
    PROVE  Moves(w)
<1>1. CASE Len(stack[w]) = 1
    BY <1>1, DoneMoves DEF Return
<1>2. CASE Len(stack[w]) # 1
    <2> DEFINE s == stack[w]
               below == Front(s)
               f == Last(below)
               bare == shape = "flat" /\ Top(w).asset \in Compound
               g == [f EXCEPT !.next = @ + 1, !.bare = @ \/ bare]
               t == Append(Front(below), g)
    <2>1. StackOK(s, stored') /\ s # <<>> /\ Top(w) = Last(s)
        BY TopFacts, StackGrows
    <2>2. stack' = [stack EXCEPT ![w] = t] /\ job' = job
        BY <1>2 DEF Return
    <2>3. /\ StackOK(below, stored') /\ below # <<>> /\ below[1] = s[1] /\ f \in Frame
          /\ FrameOK(f, stored') /\ Calls(f, Last(s))
        <3> HIDE DEF s
        <3> QED
            BY <1>2, <2>1, PopTop DEF s
    <2> HIDE DEF f, bare
    <2>4. f.next \in Nat \ {0} /\ f.bare \in BOOLEAN /\ f.pc = "underlying" /\ f.asset \in Assets
        BY <2>3 DEF Frame, Calls
    <2>5. /\ g \in Frame /\ g.asset = f.asset /\ g.pc = f.pc /\ g.next = f.next + 1 /\ g.found = f.found
        <3>1. (f.bare \/ bare) \in BOOLEAN
            OBVIOUS
        <3>2. f.next + 1 \in Nat \ {0}
            BY <2>4
        <3> QED
            BY <2>3, <3>1, <3>2 DEF Frame
    <2> HIDE DEF g
    <2>6. FrameOK(g, stored')
        <3>1. Whole(Underlying[f.asset][f.next], stored')
            BY <2>1, <2>3 DEF Calls
        <3>2. \A i \in 1..Len(Underlying[f.asset]) : i < f.next + 1 => Whole(Underlying[f.asset][i], stored')
            <4> SUFFICES ASSUME NEW i \in 1..Len(Underlying[f.asset]), i < f.next + 1
                         PROVE  Whole(Underlying[f.asset][i], stored')
                OBVIOUS
            <4>1. CASE i = f.next
                BY <3>1, <4>1
            <4>2. CASE i # f.next
                <5>1. i < f.next
                    BY <2>4, <4>2
                <5> QED
                    BY <2>3, <2>4, <5>1 DEF FrameOK
            <4> QED
                BY <4>1, <4>2
        <3> QED
            BY <2>3, <2>4, <2>5, <3>2 DEF FrameOK, Early
    <2>7. StackOK(t, stored') /\ t # <<>> /\ t[1].asset = below[1].asset
        BY <2>3, <2>5, <2>6, ReplaceTop DEF f
    <2> HIDE DEF t, below
    <2> QED
        BY <2>2, <2>3, <2>7 DEF Moves, StacksInv, JobsInv
<1> QED
    BY <1>1, <1>2

-----------------------------------------------------------------------------
(* processAsset, await by await. *)

\* A step of worker w keeps the tables, adds rows only, and moves w.
StepOK(w) == TablesOK' /\ StoredInv' /\ stored \subseteq stored' /\ Moves(w)

\* A step that leaves the table and the cache alone.
LEMMA TablesStay ==
    ASSUME TablesOK, StoredInv, UNCHANGED <<stored, cache, fills>>,
           invalid' \in [Assets -> 0..MaxRetry]
    PROVE  TablesOK' /\ StoredInv' /\ stored \subseteq stored'
BY DEF TablesOK, StoredInv, Whole

\* A compound is an asset.
LEMMA CompoundIsAsset == Compound \subseteq Assets
BY DEF Compound

\* The write that ends save is begun only for what is stored whole.
LEMMA FillingKeeps ==
    ASSUME TablesOK, StoredInv, NEW a \in Assets, Filling(a), UNCHANGED <<cache, invalid>>,
           stored \subseteq stored', stored' \subseteq Assets, Whole(a, stored'),
           \A b \in stored' : Parts[b] \subseteq stored'
    PROVE  TablesOK' /\ StoredInv'
<1>1. fills' \in [Compound -> 0..MaxFills] /\ \A b \in Compound : b # a => fills'[b] = fills[b]
    <2>1. CASE a \in Compound /\ fills[a] < MaxFills
        <3>1. fills[a] + 1 \in 0..MaxFills
            BY <2>1, AssetsAssumption DEF TablesOK
        <3> QED
            BY <2>1, <3>1 DEF Filling, TablesOK
    <2>2. CASE ~(a \in Compound /\ fills[a] < MaxFills)
        BY <2>2 DEF Filling, TablesOK
    <2> QED
        BY <2>1, <2>2
<1>2. \A b \in Compound : cache'[b] # "none" \/ fills'[b] > 0 => Whole(b, stored')
    <2> SUFFICES ASSUME NEW b \in Compound, cache'[b] # "none" \/ fills'[b] > 0
                 PROVE  Whole(b, stored')
        OBVIOUS
    <2>1. CASE b = a
        BY <2>1
    <2>2. CASE b # a
        BY <1>1, <2>2 DEF StoredInv, Whole
    <2> QED
        BY <2>1, <2>2
<1> QED
    BY <1>1, <1>2 DEF TablesOK, StoredInv, Whole

\* findOneByAddressAndChain: what is in the cache is whole.
LEMMA LookupStep ==
    ASSUME Inv, NEW w \in Workers, stack[w] # <<>>, Lookup(w)
    PROVE  StepOK(w)
<1> DEFINE f == Top(w)
           c == cache[f.asset]
           g == [f EXCEPT !.found = c, !.pc = AfterLookup(f.force, c)]
<1>1. f \in Frame /\ f.asset \in Assets /\ FrameOK(f, stored) /\ f.pc = "lookup"
    BY TopFacts DEF Inv, Lookup
<1>2. TablesOK' /\ StoredInv' /\ stored' = stored
    BY TablesStay DEF Inv, Lookup, TablesOK
<1>3. CASE f.asset \in Compound /\ c # "none"
    <2>1. stack' = With(w, g) /\ job' = job
        BY <1>3 DEF Lookup
    <2>2. c \in Shapes /\ Whole(f.asset, stored)
        BY <1>3 DEF Inv, TablesOK, StoredInv
    <2>3. AfterLookup(f.force, c) \in {"analyse", "update"}
        BY <1>3 DEF AfterLookup
    <2> HIDE DEF f, c
    <2>4. /\ g \in Frame /\ g.asset = f.asset /\ g.found = c /\ g.pc \in {"analyse", "update"}
          /\ g.next = f.next
        BY <1>1, <2>2, <2>3 DEF Frame, Awaits
    <2> HIDE DEF g
    <2>5. FrameOK(g, stored)
        BY <1>1, <1>3, <2>2, <2>4 DEF FrameOK, Early
    <2> QED
        BY <1>2, <2>1, <2>4, <2>5, WithMoves DEF f, Inv, StepOK
<1>4. CASE ~(f.asset \in Compound /\ c # "none")
    <2>1. Goto(w, "load")
        BY <1>4 DEF Lookup
    <2> HIDE DEF f
    <2>2. FrameOK([f EXCEPT !.pc = "load"], stored)
        BY <1>1 DEF FrameOK, Frame, Early
    <2> QED
        BY <1>2, <2>1, <2>2, GotoMoves DEF f, Inv, StepOK, Final, Awaits
<1> QED
    BY <1>3, <1>4

\* getOrLoad: what is in the table is whole.
LEMMA LoadStep ==
    ASSUME Inv, NEW w \in Workers, stack[w] # <<>>, Load(w)
    PROVE  StepOK(w)
<1> DEFINE f == Top(w)
           found == IF f.asset \in stored THEN "nested" ELSE "none"
           step == IF f.asset \in stored \cap Compound THEN "put" ELSE AfterLookup(f.force, found)
           g == [f EXCEPT !.found = found, !.pc = step]
<1>1. f \in Frame /\ f.asset \in Assets /\ FrameOK(f, stored) /\ f.pc = "load"
    BY TopFacts DEF Inv, Load
<1>2. TablesOK' /\ StoredInv' /\ stored' = stored
    BY TablesStay DEF Inv, Load, TablesOK
<1>3. stack' = With(w, g) /\ job' = job
    BY DEF Load
<1>4. found \in Shapes /\ (found # "none" => Whole(f.asset, stored))
    BY DEF Inv, StoredInv, Whole, Shapes
<1>5. /\ step \in {"put", "analyse", "check", "update"}
      /\ step = "put" => f.asset \in stored \cap Compound
      /\ step = "update" => found # "none"
    BY DEF AfterLookup
<1> HIDE DEF f, found, step
<1>6. /\ g \in Frame /\ g.asset = f.asset /\ g.found = found /\ g.pc = step /\ g.next = f.next
    BY <1>1, <1>4, <1>5 DEF Frame, Awaits
<1> HIDE DEF g
<1>7. FrameOK(g, stored)
    BY <1>1, <1>4, <1>5, <1>6 DEF FrameOK, Early
<1> QED
    BY <1>2, <1>3, <1>6, <1>7, WithMoves DEF f, Inv, StepOK

\* getOrLoad caches what it loaded.
LEMMA PutStep ==
    ASSUME Inv, NEW w \in Workers, stack[w] # <<>>, Put(w)
    PROVE  StepOK(w)
<1> DEFINE f == Top(w)
           step == AfterLookup(f.force, f.found)
<1>1. /\ f \in Frame /\ f.asset \in stored \cap Compound /\ FrameOK(f, stored) /\ f.pc = "put"
    BY TopFacts DEF Inv, Put, FrameOK
<1>2. /\ cache' = [cache EXCEPT ![f.asset] = "nested"] /\ Goto(w, step)
      /\ UNCHANGED <<stored, fills, invalid>>
    BY DEF Put
<1>3. Whole(f.asset, stored)
    BY <1>1 DEF Inv, StoredInv, Whole
<1>4. step \in {"analyse", "check", "update"} /\ (step = "update" => f.found # "none")
    BY DEF AfterLookup
<1> HIDE DEF f, step
<1>5. TablesOK'
    BY <1>1, <1>2 DEF Inv, TablesOK, Shapes
<1>6. StoredInv'
    BY <1>1, <1>2, <1>3 DEF Inv, StoredInv, TablesOK, Whole
<1>7. FrameOK([f EXCEPT !.pc = step], stored)
    BY <1>1, <1>4 DEF FrameOK, Frame, Early
<1> QED
    BY <1>2, <1>4, <1>5, <1>6, <1>7, GotoMoves DEF f, Inv, StepOK, Final, Awaits

\* updateAsset of what was found, which is whole.
LEMMA UpdateStep ==
    ASSUME Inv, NEW w \in Workers, stack[w] # <<>>, Update(w)
    PROVE  StepOK(w)
<1> DEFINE f == Top(w)
<1>1. /\ f \in Frame /\ f.asset \in Assets /\ f.pc = "update" /\ Whole(f.asset, stored)
    BY TopFacts DEF Inv, Update, FrameOK
<1>2. UNCHANGED <<stored, cache, invalid>> /\ stored' \subseteq Assets
    BY DEF Update, Inv, TablesOK
<1>3. CASE Filling(f.asset) /\ Return(w, "nested")
    <2>1. TablesOK' /\ StoredInv'
        BY <1>1, <1>2, <1>3, FillingKeeps DEF Inv, StoredInv
    <2>2. Moves(w)
        BY <1>1, <1>2, <1>3, ReturnMoves DEF Inv, Shapes
    <2> QED
        BY <1>2, <2>1, <2>2 DEF StepOK
<1>4. CASE UNCHANGED fills /\ (Return(w, "flat") \/ Goto(w, "failRead"))
    <2>1. TablesOK' /\ StoredInv'
        BY <1>2, <1>4, TablesStay DEF Inv, TablesOK
    <2>2. CASE Return(w, "flat")
        <3>1. Moves(w)
            BY <1>1, <1>2, <2>2, ReturnMoves DEF Inv, Shapes
        <3> QED
            BY <1>2, <2>1, <3>1 DEF StepOK
    <2>3. CASE Goto(w, "failRead")
        <3>1. Moves(w)
            BY <1>2, <2>3, GotoMoves DEF Inv, Final, Awaits
        <3> QED
            BY <1>2, <2>1, <3>1 DEF StepOK
    <2> QED
        BY <1>4, <2>2, <2>3
<1> QED
    BY <1>3, <1>4 DEF Update

\* isAssetInvalid: the asset was given up, or is analysed.
LEMMA CheckStep ==
    ASSUME Inv, NEW w \in Workers, stack[w] # <<>>, Check(w)
    PROVE  StepOK(w)
<1> DEFINE f == Top(w)
<1>1. f \in Frame /\ FrameOK(f, stored) /\ f.pc = "check"
    BY TopFacts DEF Inv, Check
<1>2. TablesOK' /\ StoredInv' /\ stored' = stored
    BY TablesStay DEF Inv, Check, TablesOK
<1>3. Done(w) \/ Goto(w, "analyse")
    BY DEF Check, ReturnUndefined
<1>4. CASE Done(w)
    BY <1>2, <1>4, DoneMoves DEF Inv, StepOK
<1>5. CASE Goto(w, "analyse")
    <2> HIDE DEF f
    <2>1. FrameOK([f EXCEPT !.pc = "analyse"], stored)
        BY <1>1 DEF FrameOK, Frame, Early
    <2> QED
        BY <1>2, <1>5, <2>1, GotoMoves DEF f, Inv, StepOK, Final, Awaits
<1> QED
    BY <1>3, <1>4, <1>5

\* analyseAsset: with a result the loop over the underlying assets begins.
LEMMA AnalyseStep ==
    ASSUME Inv, NEW w \in Workers, stack[w] # <<>>, Analyse(w)
    PROVE  StepOK(w)
<1> DEFINE f == Top(w)
<1>1. f \in Frame /\ FrameOK(f, stored) /\ f.pc = "analyse"
    BY TopFacts DEF Inv, Analyse
<1>2. TablesOK' /\ StoredInv' /\ stored' = stored
    BY TablesStay DEF Inv, Analyse, TablesOK
<1>3. Goto(w, "underlying") \/ Goto(w, "missRead")
    BY DEF Analyse
<1>4. CASE Goto(w, "underlying")
    <2> HIDE DEF f
    <2>1. f.next = 1
        BY <1>1 DEF FrameOK, Early
    <2>2. FrameOK([f EXCEPT !.pc = "underlying"], stored)
        BY <1>1, <2>1 DEF FrameOK, Frame, Early
    <2> QED
        BY <1>2, <1>4, <2>2, GotoMoves DEF f, Inv, StepOK, Final, Awaits
<1>5. CASE Goto(w, "missRead")
    BY <1>2, <1>5, GotoMoves DEF Inv, StepOK, Final, Awaits
<1> QED
    BY <1>3, <1>4, <1>5

\* The loop over the underlying assets: a call for the next one, or the end, when all are whole.
LEMMA ProcessUnderlyingStep ==
    ASSUME Inv, NEW w \in Workers, stack[w] # <<>>, ProcessUnderlying(w)
    PROVE  StepOK(w)
<1> DEFINE f == Top(w)
           s == stack[w]
           under == Underlying[f.asset]
<1>1. /\ f \in Frame /\ f.asset \in Assets /\ FrameOK(f, stored) /\ f.pc = "underlying"
      /\ StackOK(s, stored) /\ s # <<>> /\ f = Last(s)
    BY TopFacts DEF Inv, ProcessUnderlying
<1>2. TablesOK' /\ StoredInv' /\ stored' = stored
    BY TablesStay DEF Inv, ProcessUnderlying, TablesOK
<1>3. f.next \in Nat \ {0} /\ f.force \in BOOLEAN /\ under \in Seq(Assets) /\ Len(under) \in Nat
    BY <1>1, AssetsAssumption DEF Frame
<1>4. CASE f.next <= Len(under)
    <2> DEFINE g == Call(under[f.next], f.force)
    <2>1. stack' = [stack EXCEPT ![w] = Append(s, g)] /\ job' = job
        BY <1>4 DEF ProcessUnderlying, Inv, StacksInv
    <2>2. f.next \in 1..Len(under) /\ under[f.next] \in Assets
        BY <1>3, <1>4
    <2>3. g \in Frame /\ FrameOK(g, stored) /\ g.asset = under[f.next]
        <3> HIDE DEF f
        <3> QED
            BY <1>3, <2>2, CallType
    <2> HIDE DEF g
    <2>4. Calls(f, g)
        BY <1>1, <2>2, <2>3 DEF Calls
    <2> HIDE DEF f, s
    <2>5. StackOK(Append(s, g), stored) /\ Append(s, g) # <<>> /\ Append(s, g)[1] = s[1]
        BY <1>1, <2>3, <2>4, PushCall
    <2>6. Moves(w)
        BY <1>2, <2>1, <2>5 DEF Moves, Inv, StacksInv, JobsInv, s
    <2> QED
        BY <1>2, <2>6 DEF StepOK
<1>5. CASE ~(f.next <= Len(under))
    <2>1. Goto(w, AfterLoop(f))
        BY <1>5 DEF ProcessUnderlying
    <2>2. AfterLoop(f) \in {"failRead", "find", "save"}
        BY DEF AfterLoop
    <2>3. \A i \in 1..Len(under) : Whole(under[i], stored)
        <3> SUFFICES ASSUME NEW i \in 1..Len(under) PROVE Whole(under[i], stored)
            OBVIOUS
        <3>1. i < f.next
            BY <1>3, <1>5
        <3> QED
            BY <1>1, <3>1 DEF FrameOK
    <2> HIDE DEF f
    <2>4. AfterLoop(f) # "failRead" => FrameOK([f EXCEPT !.pc = AfterLoop(f)], stored)
        BY <1>1, <2>2, <2>3 DEF FrameOK, Frame, Early
    <2> QED
        BY <1>2, <2>1, <2>2, <2>4, GotoMoves DEF f, Inv, StepOK, Final, Awaits
<1> QED
    BY <1>4, <1>5

\* findOne before the write.
LEMMA FindOneStep ==
    ASSUME Inv, NEW w \in Workers, stack[w] # <<>>, FindOne(w)
    PROVE  StepOK(w)
<1> DEFINE f == Top(w)
           step == IF f.asset \in stored THEN "merge" ELSE "insert"
<1>1. f \in Frame /\ FrameOK(f, stored) /\ f.pc = "find"
    BY TopFacts DEF Inv, FindOne
<1>2. TablesOK' /\ StoredInv' /\ stored' = stored
    BY TablesStay DEF Inv, FindOne, TablesOK
<1>3. Goto(w, step) /\ step \in {"merge", "insert"}
    BY DEF FindOne
<1> HIDE DEF f, step
<1>4. FrameOK([f EXCEPT !.pc = step], stored)
    BY <1>1, <1>3 DEF FrameOK, Frame, Early
<1> QED
    BY <1>2, <1>3, <1>4, GotoMoves DEF f, Inv, StepOK, Final, Awaits

\* save: all underlying assets are whole, and so is the asset with its new row.
LEMMA SaveStep ==
    ASSUME Inv, NEW w \in Workers, stack[w] # <<>>, Save(w)
    PROVE  StepOK(w)
<1> DEFINE f == Top(w)
           a == f.asset
<1>1. f \in Frame /\ a \in Assets /\ FrameOK(f, stored) /\ f.pc \in {"insert", "merge", "save"}
    BY TopFacts DEF Inv, Save
<1>2. UNCHANGED <<cache, invalid>>
    BY DEF Save
<1>3. CASE UNCHANGED <<stored, fills>> /\ Goto(w, "failRead")
    <2>1. TablesOK' /\ StoredInv' /\ stored' = stored
        BY <1>2, <1>3, TablesStay DEF Inv, TablesOK
    <2> QED
        BY <1>3, <2>1, GotoMoves DEF Inv, StepOK, Final, Awaits
<1>4. CASE stored' = stored \cup {a} /\ Filling(a) /\ Goto(w, "clean")
    <2>1. Parts[a] \subseteq stored
        <3>1. \A i \in 1..Len(Underlying[a]) : Whole(Underlying[a][i], stored)
            BY <1>1 DEF FrameOK
        <3>2. \A b \in Range(Underlying[a]) : Whole(b, stored)
            BY <1>1, <3>1, UnderlyingRange
        <3> HIDE DEF a
        <3> QED
            BY <1>1, <3>2, PartsUnfold DEF Whole
    <2> HIDE DEF a
    <2>2. stored' \subseteq Assets /\ stored \subseteq stored' /\ Whole(a, stored')
        BY <1>1, <1>4, <2>1 DEF Inv, TablesOK, Whole
    <2>3. \A b \in stored' : Parts[b] \subseteq stored'
        BY <1>4, <2>1 DEF Inv, StoredInv
    <2>4. TablesOK' /\ StoredInv'
        BY <1>1, <1>2, <1>4, <2>2, <2>3, FillingKeeps DEF Inv
    <2>5. a \in stored'
        BY <1>4
    <2> QED
        BY <1>4, <2>2, <2>4, <2>5, GotoMoves DEF a, Inv, StepOK, Final, Awaits
<1> QED
    BY <1>3, <1>4 DEF Save

\* cleanInvalidAsset, after which the saved entity is returned.
LEMMA CleanInvalidStep ==
    ASSUME Inv, NEW w \in Workers, stack[w] # <<>>, CleanInvalid(w)
    PROVE  StepOK(w)
<1> DEFINE f == Top(w)
<1>1. f \in Frame /\ f.asset \in Assets /\ f.asset \in stored
    BY TopFacts DEF Inv, CleanInvalid, FrameOK
<1>2. Whole(f.asset, stored)
    BY <1>1 DEF Inv, StoredInv, Whole
<1>3. invalid' \in [Assets -> 0..MaxRetry]
    <2>1. 0 \in 0..MaxRetry
        BY AssetsAssumption
    <2> QED
        BY <1>1, <2>1 DEF CleanInvalid, Inv, TablesOK
<1>4. TablesOK' /\ StoredInv' /\ stored' = stored
    BY <1>3, TablesStay DEF Inv, CleanInvalid
<1>5. Return(w, "nested") \/ Goto(w, "remove")
    BY DEF CleanInvalid
<1>6. CASE Return(w, "nested")
    BY <1>2, <1>4, <1>6, ReturnMoves DEF Inv, StepOK, Shapes
<1>7. CASE Goto(w, "remove")
    BY <1>1, <1>4, <1>7, GotoMoves DEF Inv, StepOK, Final, Awaits
<1> QED
    BY <1>5, <1>6, <1>7

\* increaseInvalidRetries reads the count.
LEMMA ReadRetriesStep ==
    ASSUME Inv, NEW w \in Workers, stack[w] # <<>>, ReadRetries(w)
    PROVE  StepOK(w)
<1> DEFINE f == Top(w)
           step == IF f.pc = "missRead" THEN "missWrite" ELSE "failWrite"
           g == [f EXCEPT !.seen = invalid[f.asset], !.pc = step]
<1>1. f \in Frame /\ f.asset \in Assets /\ FrameOK(f, stored)
    BY TopFacts DEF Inv
<1>2. TablesOK' /\ StoredInv' /\ stored' = stored
    BY TablesStay DEF Inv, ReadRetries, TablesOK
<1>3. stack' = With(w, g) /\ job' = job
    BY DEF ReadRetries
<1>4. invalid[f.asset] \in 0..MaxRetry /\ step \in {"missWrite", "failWrite"}
    BY <1>1 DEF Inv, TablesOK
<1> HIDE DEF f, step
<1>5. g \in Frame /\ g.asset = f.asset /\ g.found = f.found /\ g.pc \in {"missWrite", "failWrite"}
    BY <1>1, <1>4 DEF Frame, Awaits
<1> HIDE DEF g
<1>6. FrameOK(g, stored)
    BY <1>1, <1>5 DEF FrameOK, Early
<1> QED
    BY <1>2, <1>3, <1>5, <1>6, WithMoves DEF f, Inv, StepOK

\* increaseInvalidRetries writes the count.
LEMMA WriteRetriesStep ==
    ASSUME Inv, NEW w \in Workers, stack[w] # <<>>, WriteRetries(w)
    PROVE  StepOK(w)
<1> DEFINE f == Top(w)
<1>1. f \in Frame /\ f.asset \in Assets
    BY TopFacts DEF Inv
<1>2. Increased(f.seen) \in 0..MaxRetry
    <2>1. f.seen \in 0..MaxRetry /\ MaxRetry \in Nat
        BY <1>1, AssetsAssumption DEF Frame
    <2> HIDE DEF f
    <2> QED
        BY <2>1 DEF Increased
<1>3. invalid' = invalid \/ invalid' = [invalid EXCEPT ![f.asset] = Increased(f.seen)]
    BY DEF WriteRetries
<1> HIDE DEF f
<1>4. invalid' \in [Assets -> 0..MaxRetry]
    BY <1>1, <1>2, <1>3 DEF Inv, TablesOK
<1>5. TablesOK' /\ StoredInv' /\ stored' = stored
    BY <1>4, TablesStay DEF Inv, WriteRetries
<1>6. Done(w) \/ Throw(w) \/ Goto(w, "failRead")
    BY DEF WriteRetries, AfterCount, ReturnUndefined
<1>7. CASE Done(w)
    BY <1>5, <1>7, DoneMoves DEF Inv, StepOK
<1>8. CASE Throw(w)
    BY <1>5, <1>8, ThrowMoves DEF Inv, StepOK
<1>9. CASE Goto(w, "failRead")
    BY <1>5, <1>9, GotoMoves DEF Inv, StepOK, Final, Awaits
<1> QED
    BY <1>6, <1>7, <1>8, <1>9

\* A call, or the analysers, fail.
LEMMA FailsStep ==
    ASSUME Inv, NEW w \in Workers, CallFails(w) \/ AnalyserFails(w)
    PROVE  StepOK(w) /\ stack[w] # <<>>
<1>1. UNCHANGED <<stored, cache, fills, invalid>> /\ stack[w] # <<>>
    BY DEF CallFails, AnalyserFails
<1>2. TablesOK' /\ StoredInv' /\ stored' = stored
    BY <1>1, TablesStay DEF Inv, TablesOK
<1>3. Throw(w) \/ Goto(w, "failRead") \/ Goto(w, "missRead")
    BY DEF CallFails, AnalyserFails
<1>4. CASE Throw(w)
    BY <1>1, <1>2, <1>4, ThrowMoves DEF Inv, StepOK
<1>5. CASE Goto(w, "failRead")
    BY <1>1, <1>2, <1>5, GotoMoves DEF Inv, StepOK, Final, Awaits
<1>6. CASE Goto(w, "missRead")
    BY <1>1, <1>2, <1>6, GotoMoves DEF Inv, StepOK, Final, Awaits
<1> QED
    BY <1>3, <1>4, <1>5, <1>6

\* Whatever the worker awaits, its next step is one of those above.
LEMMA WorkStep ==
    ASSUME Inv, NEW w \in Workers, Work(w)
    PROVE  StepOK(w) /\ stack[w] # <<>>
<1>1. stack[w] # <<>>
    BY DEF Work
<1>2. CASE Lookup(w) \/ Load(w) \/ Put(w) \/ Update(w)
    BY <1>1, <1>2, LookupStep, LoadStep, PutStep, UpdateStep
<1>3. CASE Check(w) \/ Analyse(w) \/ ProcessUnderlying(w) \/ FindOne(w)
    BY <1>1, <1>3, CheckStep, AnalyseStep, ProcessUnderlyingStep, FindOneStep
<1>4. CASE Save(w) \/ CleanInvalid(w) \/ ReadRetries(w) \/ WriteRetries(w)
    BY <1>1, <1>4, SaveStep, CleanInvalidStep, ReadRetriesStep, WriteRetriesStep
<1> QED
    BY <1>1, <1>2, <1>3, <1>4 DEF Work

-----------------------------------------------------------------------------
(* The queue, the cache and those who ask. *)

\* One fault more is still within the bound.
LEMMA OneMoreFault ==
    ASSUME BoundsOK, faults < MaxFaults, faults' = faults + 1, UNCHANGED analysable
    PROVE  BoundsOK'
<1>1. faults + 1 \in 0..MaxFaults
    BY AssetsAssumption DEF BoundsOK
<1> QED
    BY <1>1 DEF BoundsOK

\* A job is queued only if there is none of its asset: the active ones stay.
LEMMA AddKeeps ==
    ASSUME JobsInv, NEW a \in Assets, NEW force \in BOOLEAN, job' \in {job, Add(a, force)},
           UNCHANGED stack
    PROVE  JobsInv'
<1> DEFINE new == [at |-> "waiting", force |-> force, tries |-> 0]
<1>1. new \in Job
    <2>1. 0 \in 0..(Attempts - 1)
        BY AssetsAssumption
    <2> QED
        BY <2>1 DEF Job
<1>2. job' = job \/ (job[a] = NoJob /\ job' = [job EXCEPT ![a] = new])
    BY DEF Add
<1> HIDE DEF new
<1>3. job' \in [Assets -> Job \cup {NoJob}]
    BY <1>1, <1>2 DEF JobsInv
<1>4. \A b \in Assets : job[b].at = "active" => job'[b] = job[b]
    BY <1>2 DEF JobsInv, NoJob
<1> QED
    BY <1>3, <1>4 DEF JobsInv

\* A step that only queues a job or fills the cache leaves the stacks alone.
LEMMA StacksStay ==
    ASSUME StacksInv, UNCHANGED <<stack, stored>>
    PROVE  StacksInv'
<1>1. DOMAIN stack' = Workers /\ \A w \in Workers : StackOK(stack'[w], stored')
    BY DEF StacksInv
<1> QED
    BY <1>1 DEF StacksInv, StackOK, FrameOK, Calls, Whole

\* A free worker takes a job that waits, which no other worker has.
LEMMA TakeStep ==
    ASSUME Inv, NEW w \in Workers, NEW a \in Assets, Take(w, a)
    PROVE  Inv'
<1> DEFINE c == Call(a, job[a].force)
           new == [job[a] EXCEPT !.at = "active"]
<1>1. /\ stack[w] = <<>> /\ job[a].at = "waiting"
      /\ UNCHANGED <<stored, cache, fills, invalid, analysable, faults>>
    BY DEF Take
<1>2. job[a] \in Job
    BY <1>1 DEF Inv, JobsInv, NoJob
<1>3. new \in Job /\ new.at = "active"
    BY <1>2 DEF Job
<1>4. c \in Frame /\ FrameOK(c, stored) /\ c.asset = a
    BY <1>2, CallType DEF Job
<1>5. job' = [job EXCEPT ![a] = new] /\ stack' = [stack EXCEPT ![w] = <<c>>]
    BY DEF Take, Inv, JobsInv
<1> HIDE DEF c, new
<1>6. TablesOK' /\ BoundsOK' /\ StoredInv'
    BY <1>1 DEF Inv, TablesOK, BoundsOK, StoredInv, Whole
<1>7. StackOK(<<c>>, stored)
    BY <1>4 DEF StackOK
<1>8. /\ DOMAIN stack' = Workers /\ stack'[w] = <<c>> /\ stack'[w] # <<>> /\ stack'[w][1] = c
      /\ \A v \in Workers : v # w => stack'[v] = stack[v]
    BY <1>5 DEF Inv, StacksInv
<1>9. StacksInv'
    <2>1. ASSUME NEW v \in Workers
          PROVE  StackOK(stack'[v], stored')
        <3>1. CASE v = w
            BY <1>1, <1>7, <1>8, <3>1
        <3>2. CASE v # w
            BY <1>1, <1>8, <3>2 DEF Inv, StacksInv
        <3> QED
            BY <3>1, <3>2
    <2> QED
        BY <1>8, <2>1 DEF StacksInv, StackOK, FrameOK, Calls, Whole
<1>10. ASSUME NEW v \in Workers, v # w, stack'[v] # <<>>
       PROVE  /\ stack[v] # <<>> /\ stack'[v] = stack[v] /\ stack[v][1].asset # a
              /\ job'[stack[v][1].asset] = job[stack[v][1].asset]
    <2>1. stack'[v] = stack[v] /\ stack[v] # <<>>
        BY <1>8, <1>10
    <2>2. stack[v][1].asset \in Assets /\ job[stack[v][1].asset].at = "active"
        BY <2>1 DEF Inv, JobsInv
    <2>3. stack[v][1].asset # a
        BY <1>1, <2>2
    <2> QED
        BY <1>5, <2>1, <2>2, <2>3 DEF Inv, JobsInv
<1>11. JobsInv'
    <2>1. job' \in [Assets -> Job \cup {NoJob}] /\ job'[a] = new
        BY <1>3, <1>5 DEF Inv, JobsInv
    <2>2. ASSUME NEW v \in Workers, stack'[v] # <<>>
          PROVE  /\ stack'[v][1].asset \in Assets /\ job'[stack'[v][1].asset].at = "active"
                 /\ \A u \in Workers : u # v /\ stack'[u] # <<>> => stack'[u][1].asset # stack'[v][1].asset
        <3>1. CASE v = w
            BY <1>3, <1>4, <1>8, <1>10, <2>1, <3>1
        <3>2. CASE v # w
            <4>1. /\ stack'[v] = stack[v] /\ stack[v] # <<>> /\ stack[v][1].asset # a
                  /\ job'[stack[v][1].asset] = job[stack[v][1].asset]
                BY <1>10, <2>2, <3>2
            <4>2. stack[v][1].asset \in Assets /\ job[stack[v][1].asset].at = "active"
                BY <4>1 DEF Inv, JobsInv
            <4>3. ASSUME NEW u \in Workers, u # v, stack'[u] # <<>>
                  PROVE  stack'[u][1].asset # stack[v][1].asset
                <5>1. CASE u = w
                    BY <1>4, <1>8, <4>1, <5>1
                <5>2. CASE u # w
                    <6>1. stack[u] # <<>> /\ stack'[u] = stack[u]
                        BY <1>10, <4>3, <5>2
                    <6> QED
                        BY <4>1, <4>3, <6>1 DEF Inv, JobsInv
                <5> QED
                    BY <5>1, <5>2
            <4> QED
                BY <4>1, <4>2, <4>3
        <3> QED
            BY <3>1, <3>2
    <2> QED
        BY <2>1, <2>2 DEF JobsInv
<1> QED
    BY <1>6, <1>9, <1>11 DEF Inv

\* The process stops: no frame is left, and no write of the cache under way.
LEMMA CrashStep ==
    ASSUME Inv, Crash
    PROVE  Inv'
<1>1. BoundsOK'
    BY OneMoreFault DEF Inv, Crash
<1>2. TablesOK' /\ StoredInv'
    <2>1. 0 \in 0..MaxFills /\ fills' = [a \in Compound |-> 0]
        BY AssetsAssumption DEF Crash
    <2>2. fills' \in [Compound -> 0..MaxFills] /\ \A a \in Compound : fills'[a] = 0
        BY <2>1
    <2>3. UNCHANGED <<stored, cache, invalid>>
        BY DEF Crash
    <2> QED
        BY <2>2, <2>3 DEF Inv, TablesOK, StoredInv, Whole
<1>3. DOMAIN stack' = Workers /\ \A w \in Workers : stack'[w] = <<>>
    BY DEF Crash
<1>4. StacksInv'
    <2>1. StackOK(<<>>, stored')
        BY DEF StackOK
    <2>2. \A w \in Workers : StackOK(stack'[w], stored')
        BY <1>3, <2>1
    <2> QED
        BY <1>3, <2>2 DEF StacksInv, StackOK, FrameOK, Calls, Whole
<1>5. JobsInv'
    BY <1>3 DEF Crash, Inv, JobsInv
<1> QED
    BY <1>1, <1>2, <1>4, <1>5 DEF Inv

\* A job is failed as stalled only when no worker has it.
LEMMA StalledStep ==
    ASSUME Inv, NEW a \in Assets, Stalled(a)
    PROVE  Inv'
<1>1. /\ job' = [job EXCEPT ![a] = NoJob]
      /\ UNCHANGED <<stack, stored, cache, fills, invalid, analysable, faults>>
      /\ \A w \in Workers : stack[w] # <<>> => stack[w][1].asset # a
    BY DEF Stalled
<1>2. TablesOK' /\ BoundsOK' /\ StoredInv'
    BY <1>1 DEF Inv, TablesOK, BoundsOK, StoredInv, Whole
<1>3. StacksInv'
    BY <1>1, StacksStay DEF Inv
<1>4. JobsInv'
    BY <1>1 DEF Inv, JobsInv
<1> QED
    BY <1>2, <1>3, <1>4 DEF Inv

\* What is written into the cache for an asset under way is stored, and so is all it is made of.
LEMMA FillStep ==
    ASSUME Inv, NEW a \in Compound, Fill(a)
    PROVE  Inv'
<1>1. /\ fills[a] > 0 /\ fills' = [fills EXCEPT ![a] = fills[a] - 1]
      /\ UNCHANGED <<job, stack, stored, invalid, analysable, faults>>
      /\ \/ cache' = [b \in Compound |-> IF b \in CompoundIn(a) THEN "flat" ELSE cache[b]]
         \/ UNCHANGED cache
    BY DEF Fill, Inv, TablesOK
<1>2. a \in stored /\ Parts[a] \subseteq stored
    BY <1>1 DEF Inv, StoredInv, Whole
<1>3. \A b \in CompoundIn(a) : Whole(b, stored)
    BY <1>2 DEF CompoundIn, Whole, Inv, StoredInv
<1>4. fills' \in [Compound -> 0..MaxFills] /\ \A b \in Compound : fills'[b] > 0 => fills[b] > 0
    <2>1. fills[a] \in 0..MaxFills /\ MaxFills \in Nat
        BY AssetsAssumption DEF Inv, TablesOK
    <2>2. fills[a] - 1 \in 0..MaxFills
        BY <1>1, <2>1
    <2>3. fills' \in [Compound -> 0..MaxFills]
        BY <1>1, <2>2 DEF Inv, TablesOK
    <2>4. \A b \in Compound : b # a => fills'[b] = fills[b]
        BY <1>1 DEF Inv, TablesOK
    <2> QED
        BY <1>1, <2>3, <2>4
<1>5. cache' \in [Compound -> Shapes]
    BY <1>1 DEF Inv, TablesOK, Shapes
<1>6. \A b \in Compound : cache'[b] # "none" => Whole(b, stored)
    <2>1. ASSUME NEW b \in Compound, cache'[b] # "none", b \notin CompoundIn(a)
          PROVE  cache[b] # "none"
        BY <1>1, <2>1
    <2> QED
        BY <1>3, <2>1 DEF Inv, StoredInv
<1>7. TablesOK' /\ BoundsOK'
    BY <1>1, <1>4, <1>5 DEF Inv, TablesOK, BoundsOK
<1>8. StoredInv'
    BY <1>1, <1>4, <1>6 DEF Inv, StoredInv, Whole
<1>9. StacksInv' /\ JobsInv'
    BY <1>1, StacksStay DEF Inv, JobsInv
<1> QED
    BY <1>7, <1>8, <1>9 DEF Inv

\* An entry of the cache expires.
LEMMA ExpireStep ==
    ASSUME Inv, NEW a \in Compound, Expire(a)
    PROVE  Inv'
<1>1. /\ cache' = [cache EXCEPT ![a] = "none"]
      /\ UNCHANGED <<job, stack, stored, fills, invalid, analysable, faults>>
    BY DEF Expire
<1>2. TablesOK' /\ BoundsOK'
    BY <1>1 DEF Inv, TablesOK, BoundsOK, Shapes
<1>3. StoredInv'
    BY <1>1 DEF Inv, TablesOK, StoredInv, Whole
<1>4. StacksInv' /\ JobsInv'
    BY <1>1, StacksStay DEF Inv, JobsInv
<1> QED
    BY <1>2, <1>3, <1>4 DEF Inv

\* A request begins a write of the cache only for a row it read, which is stored whole.
LEMMA RequestStep ==
    ASSUME Inv, NEW a \in Assets, NEW force \in BOOLEAN, Request(a, force)
    PROVE  Inv'
<1>1. UNCHANGED <<stack, stored, cache, invalid, analysable, faults>>
    BY DEF Request
<1>2. StacksInv' /\ BoundsOK'
    BY <1>1, StacksStay DEF Inv, BoundsOK
<1>3. JobsInv'
    BY <1>1, AddKeeps DEF Inv, Request
<1>4. TablesOK' /\ StoredInv'
    <2>1. CASE a \in stored \cap Compound /\ cache[a] = "none"
        <3>1. Filling(a)
            BY <2>1 DEF Request
        <3>2. /\ Whole(a, stored') /\ \A b \in stored' : Parts[b] \subseteq stored'
              /\ stored' \subseteq Assets /\ stored \subseteq stored'
            BY <1>1, <2>1 DEF Inv, StoredInv, TablesOK, Whole
        <3> QED
            BY <1>1, <3>1, <3>2, FillingKeeps DEF Inv
    <2>2. CASE ~(a \in stored \cap Compound /\ cache[a] = "none")
        <3>1. UNCHANGED fills
            BY <2>2 DEF Request
        <3> QED
            BY <1>1, <3>1, TablesStay DEF Inv, TablesOK
    <2> QED
        BY <2>1, <2>2
<1> QED
    BY <1>2, <1>3, <1>4 DEF Inv

\* The daily processors queue what they track, or what has no icon.
LEMMA QueueStep ==
    ASSUME Inv, NEW a \in Assets, Track(a) \/ Reprocess(a)
    PROVE  Inv'
<1>1. /\ UNCHANGED <<stack, stored, cache, fills, invalid, analysable, faults>>
      /\ job' = Add(a, FALSE) \/ job' = Add(a, TRUE)
    BY DEF Track, Reprocess
<1>2. TablesOK' /\ BoundsOK' /\ StoredInv'
    BY <1>1 DEF Inv, TablesOK, BoundsOK, StoredInv, Whole
<1>3. StacksInv'
    BY <1>1, StacksStay DEF Inv
<1>4. JobsInv'
    BY <1>1, AddKeeps DEF Inv
<1> QED
    BY <1>2, <1>3, <1>4 DEF Inv

-----------------------------------------------------------------------------
(* Every step keeps the invariant. *)

LEMMA InitInv ==
    ASSUME Init
    PROVE  Inv
<1>1. TablesOK /\ BoundsOK /\ StoredInv
    <2>1. 0 \in 0..MaxFills /\ 0 \in 0..MaxRetry /\ 0 \in 0..MaxFaults
        BY AssetsAssumption
    <2> QED
        BY <2>1 DEF Init, TablesOK, BoundsOK, StoredInv, Shapes
<1>2. StacksInv
    <2>1. StackOK(<<>>, stored)
        BY DEF StackOK
    <2> QED
        BY <2>1 DEF Init, StacksInv
<1>3. JobsInv
    BY DEF Init, JobsInv
<1> QED
    BY <1>1, <1>2, <1>3 DEF Inv

\* A step of a worker, whether it works or fails.
LEMMA WorkerStep ==
    ASSUME Inv, NEW w \in Workers, Work(w) \/ CallFails(w) \/ AnalyserFails(w)
    PROVE  Inv'
<1>1. StepOK(w) /\ stack[w] # <<>>
    BY WorkStep, FailsStep
<1>2. StacksInv' /\ JobsInv'
    BY <1>1, MovesKeep DEF Inv, StepOK
<1>3. BoundsOK'
    <2>1. CASE Work(w)
        BY <2>1 DEF Work, Inv, BoundsOK
    <2>2. CASE CallFails(w) \/ AnalyserFails(w)
        BY <2>2, OneMoreFault DEF CallFails, AnalyserFails, Inv
    <2> QED
        BY <2>1, <2>2
<1> QED
    BY <1>1, <1>2, <1>3 DEF Inv, StepOK

LEMMA NextInv ==
    ASSUME Inv, [Next]_vars
    PROVE  Inv'
<1>1. ASSUME NEW a \in Assets, NEW w \in Workers, Take(w, a)
      PROVE  Inv'
    BY <1>1, TakeStep
<1>2. ASSUME NEW a \in Assets, NEW force \in BOOLEAN, Request(a, force)
      PROVE  Inv'
    BY <1>2, RequestStep
<1>3. ASSUME NEW a \in Assets, Track(a) \/ Reprocess(a) \/ Stalled(a)
      PROVE  Inv'
    BY <1>3, QueueStep, StalledStep
<1>4. ASSUME NEW w \in Workers, Work(w) \/ CallFails(w) \/ AnalyserFails(w)
      PROVE  Inv'
    BY <1>4, WorkerStep
<1>5. ASSUME NEW a \in Compound, Fill(a) \/ Expire(a)
      PROVE  Inv'
    BY <1>5, FillStep, ExpireStep
<1>6. CASE Crash
    BY <1>6, CrashStep
<1>7. CASE UNCHANGED vars
    <2>1. TablesOK' /\ BoundsOK' /\ StoredInv'
        BY <1>7 DEF vars, Inv, TablesOK, BoundsOK, StoredInv, Whole
    <2>2. StacksInv' /\ JobsInv'
        BY <1>7, StacksStay DEF vars, Inv, JobsInv
    <2> QED
        BY <2>1, <2>2 DEF Inv
<1> QED
    BY <1>1, <1>2, <1>3, <1>4, <1>5, <1>6, <1>7 DEF Next

\* Every variable keeps its type, the frames of all workers included: processAsset never nests
\* except for an asset, a job never has more tries than Attempts, and a count never passes
\* MAX_INVALID_ASSET_RETRY (AssetsProcessor.TypeOK).
THEOREM TypesAreCorrect == Spec => []TypeOK
<1>1. Inv => TypeOK
    <2> SUFFICES ASSUME Inv PROVE TypeOK
        OBVIOUS
    <2>1. ASSUME NEW w \in Workers, NEW i \in DOMAIN stack[w]
          PROVE  stack[w][i] \in Frame
        <3>1. stack[w] \in Seq(Frame)
            BY DEF Inv, StacksInv, StackOK
        <3> QED
            BY <3>1
    <2> QED
        BY <2>1 DEF Inv, TablesOK, BoundsOK, JobsInv, TypeOK
<1> QED
    BY <1>1, InitInv, NextInv, PTL DEF Spec

\* What is stored or cached is stored with everything it is made of, whatever fails or is stopped
\* between the rows, and however the workers interleave (processAsset lines 125 to 147).
THEOREM StoredIsWhole == Spec => []WholeAssets
<1>1. Inv => WholeAssets
    BY DEF Inv, StoredInv, Whole, WholeAssets
<1> QED
    BY <1>1, InitInv, NextInv, PTL DEF Spec

\* "NOTE: This should prevent process asset jobs duplications": the job of an asset is with one
\* worker at most, after retries, stalls and crashes (getAssetProcessJobId, processAssets line 195).
THEOREM JobsAreNotDuplicated == Spec => []NoDuplicateJobs
<1>1. Inv => NoDuplicateJobs
    BY DEF Inv, JobsInv, NoDuplicateJobs
<1> QED
    BY <1>1, InitInv, NextInv, PTL DEF Spec
=============================================================================
