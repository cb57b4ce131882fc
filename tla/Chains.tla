------------------------------- MODULE Chains -------------------------------
(***************************************************************************)
(* Chains of pointers in a table with entries 1 .. n, 0 being the null     *)
(* pointer: first children, siblings, parents.                             *)
(***************************************************************************)
EXTENDS Integers, Sequences, SequencesExt, SequenceTheorems, FiniteSetTheorems, WellFoundedInduction, TLAPS

(* The entries that f leads to from x, x first; cut off if they go round.  *)
Chain(f, x, n) ==
  LET walk[c \in Seq(1 .. n) \ {<<>>}] ==
        IF f[Last(c)] = 0 \/ Len(c) >= n THEN c ELSE walk[Append(c, f[Last(c)])]
  IN  IF x = 0 THEN <<>> ELSE walk[<<x>>]

-----------------------------------------------------------------------------
(* A set of numbers has a least one: where an induction is needed, it is   *)
(* the choice of the least counterexample.                                 *)
LEMMA LeastNumber ==
  ASSUME NEW T, T \subseteq Nat, T # {}
  PROVE  \E m \in T : \A k \in T : m <= k
  <1>1. PICK n \in T : TRUE
    OBVIOUS
  <1> DEFINE S == 0 .. n
             D == {0 .. k : k \in T \cap S}
  <1>2. IsWellFoundedOn(StrictSubsetOrdering(S), SUBSET S)
    <2>1. IsFiniteSet(S)
      BY <1>1, FS_Interval
    <2> HIDE DEF S
    <2>2. FiniteSubsetsOf(S) = SUBSET S
      BY <2>1, FS_FiniteSubsetsOfFinite
    <2>3. QED
      BY <2>2, FS_StrictSubsetOrderingWellFounded
  <1>3. D \subseteq SUBSET S /\ D # {}
    BY <1>1
  <1>4. PICK A \in D : \A B \in D : <<B, A>> \notin StrictSubsetOrdering(S)
    <2> HIDE DEF S, D
    <2>1. QED
      BY <1>2, <1>3, WFMin
  <1>5. PICK m \in T \cap S : A = 0 .. m
    BY <1>4
  <1>6. ASSUME NEW k \in T, k < m PROVE FALSE
    <2>1. k \in S /\ k \in Nat /\ m \in Nat
      BY <1>1, <1>5, <1>6
    <2>2. 0 .. k \in D /\ 0 .. k \in SUBSET S /\ A \in SUBSET S
      BY <1>3, <1>5, <2>1
    <2>3. 0 .. k \subseteq 0 .. m /\ 0 .. k # 0 .. m
      BY <1>6, <2>1
    <2>4. <<0 .. k, A>> \in StrictSubsetOrdering(S)
      BY <1>5, <2>2, <2>3 DEF StrictSubsetOrdering
    <2>5. QED
      BY <1>4, <2>2, <2>4
  <1>7. \A k \in T : m <= k
    BY <1>1, <1>5, <1>6
  <1>8. QED
    BY <1>5, <1>7

IsWalk(g, f, n) ==
  g = [c \in Seq(1 .. n) \ {<<>>} |->
         IF f[Last(c)] = 0 \/ Len(c) >= n THEN c ELSE g[Append(c, f[Last(c)])]]

(* Entries that f leads to from x, one after the other.                    *)
Part(f, x, n, c) ==
  /\ c \in Seq(1 .. n) /\ Len(c) \in 1 .. n /\ c[1] = x
  /\ \A i \in 1 .. Len(c) - 1 : f[c[i]] = c[i + 1]

(* All of them.                                                            *)
IsChain(f, x, n, c) ==
  /\ Part(f, x, n, c)
  /\ f[c[Len(c)]] = 0 \/ Len(c) = n

LEMMA PartGrows ==
  ASSUME NEW n \in Nat, NEW f \in [1 .. n -> 0 .. n], NEW c \in Seq(1 .. n), c # <<>>
  PROVE  /\ Last(c) = c[Len(c)] /\ Last(c) \in 1 .. n /\ f[Last(c)] \in 0 .. n /\ Len(c) \in Nat \ {0}
         /\ f[Last(c)] # 0 => /\ Append(c, f[Last(c)]) \in Seq(1 .. n) /\ Append(c, f[Last(c)]) # <<>>
                              /\ Len(Append(c, f[Last(c)])) = Len(c) + 1
                              /\ Append(c, f[Last(c)])[Len(c) + 1] = f[Last(c)]
                              /\ \A i \in 1 .. Len(c) : Append(c, f[Last(c)])[i] = c[i]
  <1>1. Len(c) \in Nat \ {0}
    BY EmptySeq, LenProperties
  <1>2. Last(c) = c[Len(c)] /\ Last(c) \in 1 .. n
    BY <1>1, ElementOfSeq DEF Last
  <1>3. PICK y : y = f[Last(c)]
    OBVIOUS
  <1>4. y \in 0 .. n
    BY <1>2, <1>3
  <1>5. ASSUME y # 0
        PROVE  /\ Append(c, y) \in Seq(1 .. n) /\ Append(c, y) # <<>> /\ Len(Append(c, y)) = Len(c) + 1
               /\ Append(c, y)[Len(c) + 1] = y /\ \A i \in 1 .. Len(c) : Append(c, y)[i] = c[i]
    <2>1. y \in 1 .. n
      BY <1>4, <1>5
    <2>2. Append(c, y) \in Seq(1 .. n) /\ Append(c, y) # <<>>
      <3>1. Append(c, y) \in Seq(1 .. n)
        BY <2>1, AppendProperties
      <3>2. Len(Append(c, y)) = Len(c) + 1
        BY <2>1, AppendProperties
      <3>3. Append(c, y) # <<>>
        <4>1. PICK d : d = Append(c, y)
          OBVIOUS
        <4>2. Len(d) = Len(c) + 1 /\ Len(<<>>) = 0
          BY <3>2, <4>1
        <4>3. d # <<>>
          BY <1>1, <4>2
        <4>4. QED
          BY <4>1, <4>3
      <3>4. QED
        BY <3>1, <3>3
    <2>3. Len(Append(c, y)) = Len(c) + 1 /\ Append(c, y)[Len(c) + 1] = y
      BY <2>1, AppendProperties
    <2>4. \A i \in 1 .. Len(c) : Append(c, y)[i] = c[i]
      BY <2>1, AppendProperties
    <2>5. QED
      BY <2>2, <2>3, <2>4
  <1>6. QED
    BY <1>1, <1>2, <1>3, <1>4, <1>5

LEMMA WalkExists ==
  ASSUME NEW n \in Nat, NEW f \in [1 .. n -> 0 .. n]
  PROVE  \E g : IsWalk(g, f, n)
  <1> DEFINE S == Seq(1 .. n) \ {<<>>}
             Step(g, c) == IF f[Last(c)] = 0 \/ Len(c) >= n THEN c ELSE g[Append(c, f[Last(c)])]
             Upto(g, m) == g = [c \in S |-> g[c]] /\ \A c \in S : m <= Len(c) => g[c] = Step(g, c)
             G == {m \in 0 .. n : \E g : Upto(g, m)}
  <1>1. \A c \in S : Len(c) \in Nat \ {0} /\ (f[Last(c)] # 0 => /\ Append(c, f[Last(c)]) \in S
                                                               /\ Len(Append(c, f[Last(c)])) = Len(c) + 1)
    BY PartGrows, ZenonT(60)
  <1>2. n \in G
    <2> DEFINE g == [c \in S |-> c]
    <2>1. ASSUME NEW c \in S, n <= Len(c) PROVE g[c] = Step(g, c)
      BY <1>1, <2>1
    <2>2. g = [c \in S |-> g[c]]
      OBVIOUS
    <2> HIDE DEF g
    <2>3. Upto(g, n)
      BY <2>1, <2>2
    <2>4. QED
      BY <2>3
  <1>3. PICK m \in G : \A k \in G : m <= k
    <2>1. G \subseteq Nat
      OBVIOUS
    <2> HIDE DEF G
    <2>2. QED
      BY <1>2, <2>1, LeastNumber
  <1>4. PICK g : Upto(g, m)
    BY <1>3
  <1>5. m = 0
    <2> SUFFICES ASSUME m # 0 PROVE FALSE
      OBVIOUS
    <2> DEFINE h == [c \in S |-> IF Len(c) = m - 1 THEN Step(g, c) ELSE g[c]]
    <2>1. m - 1 \in 0 .. n /\ ~(m <= m - 1)
      BY <1>3
    <2>2. ASSUME NEW c \in S, m - 1 <= Len(c) PROVE Step(h, c) = Step(g, c)
      <3>1. CASE f[Last(c)] = 0 \/ Len(c) >= n
        BY <3>1
      <3>2. CASE ~(f[Last(c)] = 0 \/ Len(c) >= n)
        <4>1. PICK d : d = Append(c, f[Last(c)])
          OBVIOUS
        <4>2. d \in S /\ Len(d) # m - 1
          BY <1>1, <2>1, <2>2, <3>2, <4>1
        <4>3. h[d] = g[d]
          BY <4>2
        <4> HIDE DEF h, S
        <4>4. QED
          BY <3>2, <4>1, <4>3
      <3>3. QED
        BY <3>1, <3>2
    <2>3. ASSUME NEW c \in S, m - 1 <= Len(c) PROVE h[c] = Step(h, c)
      <3>1. CASE Len(c) = m - 1
        <4>1. h[c] = Step(g, c)
          BY <3>1
        <4> HIDE DEF h, S, Step
        <4>2. QED
          BY <2>2, <2>3, <4>1
      <3>2. CASE Len(c) # m - 1
        <4>1. h[c] = g[c] /\ m <= Len(c)
          BY <1>1, <2>1, <2>3, <3>2
        <4>2. g[c] = Step(g, c)
          BY <1>4, <4>1
        <4> HIDE DEF h, S, Step
        <4>3. QED
          BY <2>2, <2>3, <4>1, <4>2
      <3>3. QED
        BY <3>1, <3>2
    <2>4. h = [c \in S |-> h[c]]
      OBVIOUS
    <2> HIDE DEF h, Step, S
    <2>5. Upto(h, m - 1)
      BY <2>3, <2>4
    <2>6. m - 1 \in G
      BY <2>1, <2>5
    <2>7. m <= m - 1
      <3> HIDE DEF G, Upto
      <3>1. QED
        BY <1>3, <2>6
    <2>8. QED
      BY <2>1, <2>7
  <1>6. \A c \in S : g[c] = Step(g, c)
    <2>1. \A c \in S : m <= Len(c)
      BY <1>1, <1>5
    <2> HIDE DEF Step, S
    <2>2. QED
      BY <1>4, <2>1
  <1>7. g = [c \in S |-> Step(g, c)]
    <2> HIDE DEF Step, S
    <2>1. QED
      BY <1>4, <1>6
  <1>8. QED
    BY <1>7 DEF IsWalk

LEMMA ChainWalk ==
  ASSUME NEW n \in Nat, NEW f \in [1 .. n -> 0 .. n], NEW x \in 1 .. n
  PROVE  \E g : IsWalk(g, f, n) /\ Chain(f, x, n) = g[<<x>>]
  <1> DEFINE walk[c \in Seq(1 .. n) \ {<<>>}] ==
               IF f[Last(c)] = 0 \/ Len(c) >= n THEN c ELSE walk[Append(c, f[Last(c)])]
             Q(g) == IsWalk(g, f, n)
  <1>1. walk = CHOOSE g : Q(g)
    BY DEF IsWalk
  <1>2. Chain(f, x, n) = walk[<<x>>]
    BY DEF Chain
  <1>3. PICK g : Q(g)
    BY WalkExists
  <1> HIDE DEF Q, walk
  <1>4. Q(CHOOSE h : Q(h))
    BY <1>3, Zenon
  <1>5. QED
    BY <1>1, <1>2, <1>4 DEF Q

LEMMA ChainIs ==
  ASSUME NEW n \in Nat, NEW f \in [1 .. n -> 0 .. n], NEW x \in 1 .. n
  PROVE  IsChain(f, x, n, Chain(f, x, n))
  <1>1. PICK g : IsWalk(g, f, n) /\ Chain(f, x, n) = g[<<x>>]
    BY ChainWalk
  <1>2. \A c \in Seq(1 .. n) \ {<<>>} :
          g[c] = IF f[Last(c)] = 0 \/ Len(c) >= n THEN c ELSE g[Append(c, f[Last(c)])]
    BY <1>1 DEF IsWalk
  <1> DEFINE T == {k \in 0 .. n : \E c : Part(f, x, n, c) /\ Len(c) = n - k /\ ~IsChain(f, x, n, g[c])}
  <1>3. T = {}
    <2> SUFFICES ASSUME T # {} PROVE FALSE
      OBVIOUS
    <2>1. PICK k \in T : \A j \in T : k <= j
      <3>1. T \subseteq Nat
        OBVIOUS
      <3> HIDE DEF T
      <3>2. QED
        BY <3>1, LeastNumber
    <2>2. PICK c : Part(f, x, n, c) /\ Len(c) = n - k /\ ~IsChain(f, x, n, g[c])
      BY <2>1
    <2>3. /\ c \in Seq(1 .. n) /\ c # <<>> /\ Len(c) \in 1 .. n /\ c[1] = x
          /\ \A i \in 1 .. Len(c) - 1 : f[c[i]] = c[i + 1]
      BY <2>2, EmptySeq DEF Part
    <2>4. /\ Last(c) = c[Len(c)] /\ Last(c) \in 1 .. n /\ f[Last(c)] \in 0 .. n
          /\ f[Last(c)] # 0 => /\ Append(c, f[Last(c)]) \in Seq(1 .. n) /\ Append(c, f[Last(c)]) # <<>>
                               /\ Len(Append(c, f[Last(c)])) = Len(c) + 1
                               /\ Append(c, f[Last(c)])[Len(c) + 1] = f[Last(c)]
                               /\ \A i \in 1 .. Len(c) : Append(c, f[Last(c)])[i] = c[i]
      BY <2>3, PartGrows
    <2>5. CASE f[Last(c)] = 0 \/ Len(c) >= n
      <3>1. g[c] = c
        BY <1>2, <2>3, <2>5
      <3>2. f[c[Len(c)]] = 0 \/ Len(c) = n
        BY <2>3, <2>4, <2>5
      <3>3. QED
        BY <2>2, <3>1, <3>2 DEF IsChain
    <2>6. CASE ~(f[Last(c)] = 0 \/ Len(c) >= n)
      <3>1. PICK d : d = Append(c, f[Last(c)])
        OBVIOUS
      <3>2. /\ d \in Seq(1 .. n) /\ Len(d) = Len(c) + 1 /\ d[Len(c) + 1] = f[c[Len(c)]]
            /\ \A i \in 1 .. Len(c) : d[i] = c[i]
        <4>1. f[Last(c)] # 0 /\ Last(c) = c[Len(c)]
          BY <2>4, <2>6
        <4>2. QED
          BY <2>4, <3>1, <4>1
      <3>9. Len(c) \in Nat /\ 1 <= Len(c) /\ Len(c) < n /\ Len(d) \in 1 .. n
        <4>1. PICK m : m = Len(c)
          OBVIOUS
        <4>2. m \in 1 .. n /\ ~(m >= n)
          BY <2>3, <2>6, <4>1
        <4>3. m \in Nat /\ 1 <= m /\ m < n /\ m + 1 \in 1 .. n
          BY <4>2
        <4>4. QED
          BY <3>2, <4>1, <4>3
      <3>3. Part(f, x, n, d)
        <4>1. d[1] = x
          <5>1. 1 \in 1 .. Len(c)
            BY <3>9
          <5>2. QED
            BY <2>3, <3>2, <5>1
        <4>2. ASSUME NEW i \in 1 .. Len(d) - 1 PROVE f[d[i]] = d[i + 1]
          <5>1. i \in 1 .. Len(c)
            BY <3>2, <3>9
          <5>2. CASE i = Len(c)
            BY <3>2, <5>1, <5>2
          <5>3. CASE i # Len(c)
            <6>1. i \in 1 .. Len(c) - 1 /\ i + 1 \in 1 .. Len(c)
              BY <2>3, <5>1, <5>3
            <6>2. QED
              BY <2>3, <3>2, <5>1, <6>1
          <5>4. QED
            BY <5>2, <5>3
        <4>3. QED
          BY <3>2, <3>9, <4>1, <4>2 DEF Part
      <3>4. g[c] = g[d]
        BY <1>2, <2>3, <2>6, <3>1
      <3>5. k - 1 \in 0 .. n /\ Len(d) = n - (k - 1) /\ ~(k <= k - 1)
        <4>1. k \in 0 .. n
          BY <2>1
        <4>2. QED
          BY <2>2, <2>3, <2>6, <3>2, <4>1
      <3>6. k - 1 \in T
        BY <2>2, <3>3, <3>4, <3>5
      <3>7. k <= k - 1
        <4> HIDE DEF T
        <4>1. QED
          BY <2>1, <3>6
      <3>8. QED
        BY <3>5, <3>7
    <2>7. QED
      BY <2>5, <2>6
  <1>4. PICK c : c = <<x>>
    OBVIOUS
  <1>5. Part(f, x, n, c) /\ Len(c) = n - (n - 1) /\ n - 1 \in 0 .. n
    BY <1>4 DEF Part
  <1>6. IsChain(f, x, n, g[c])
    BY <1>3, <1>5
  <1>7. QED
    BY <1>1, <1>4, <1>6

LEMMA ChainOne ==
  ASSUME NEW n \in Nat, NEW f \in [1 .. n -> 0 .. n], NEW x \in 1 .. n, NEW c, IsChain(f, x, n, c)
  PROVE  Chain(f, x, n) = c
  <1>1. PICK d : d = Chain(f, x, n)
    OBVIOUS
  <1>2. IsChain(f, x, n, d)
    BY <1>1, ChainIs
  <1>3. PICK p, q : p = Len(c) /\ q = Len(d)
    OBVIOUS
  <1>4. /\ c \in Seq(1 .. n) /\ p \in 1 .. n /\ c[1] = x
        /\ \A i \in 1 .. p - 1 : f[c[i]] = c[i + 1]
        /\ f[c[p]] = 0 \/ p = n
    BY <1>3 DEF IsChain, Part
  <1>5. /\ d \in Seq(1 .. n) /\ q \in 1 .. n /\ d[1] = x
        /\ \A i \in 1 .. q - 1 : f[d[i]] = d[i + 1]
        /\ f[d[q]] = 0 \/ q = n
    BY <1>2, <1>3 DEF IsChain, Part
  <1> DEFINE T == {k \in 1 .. n : k <= p /\ k <= q /\ c[k] # d[k]}
  <1>6. T = {}
    <2> SUFFICES ASSUME T # {} PROVE FALSE
      OBVIOUS
    <2>1. PICK k \in T : \A j \in T : k <= j
      <3>1. T \subseteq Nat
        OBVIOUS
      <3> HIDE DEF T
      <3>2. QED
        BY <3>1, LeastNumber
    <2>2. k \in 1 .. n /\ k <= p /\ k <= q /\ c[k] # d[k]
      BY <2>1
    <2>3. k # 1
      BY <1>4, <1>5, <2>2
    <2>4. /\ k - 1 \in 1 .. n /\ k - 1 \in 1 .. p - 1 /\ k - 1 \in 1 .. q - 1 /\ k - 1 + 1 = k /\ ~(k <= k - 1)
          /\ k - 1 <= p /\ k - 1 <= q
      BY <1>4, <1>5, <2>2, <2>3
    <2>5. k - 1 \notin T
      <3> HIDE DEF T
      <3>1. QED
        BY <2>1, <2>4
    <2>6. c[k - 1] = d[k - 1]
      BY <2>4, <2>5
    <2>7. f[c[k - 1]] = c[k] /\ f[d[k - 1]] = d[k]
      BY <1>4, <1>5, <2>4
    <2>8. QED
      BY <2>2, <2>6, <2>7
  <1>7. \A k \in 1 .. n : k <= p /\ k <= q => c[k] = d[k]
    BY <1>6
  <1> HIDE DEF T
  <1>8. (\A k \in 1 .. p : c[k] \in 1 .. n) /\ (\A k \in 1 .. q : d[k] \in 1 .. n)
    BY <1>3, <1>4, <1>5, ElementOfSeq
  <1>9. p = q
    <2>1. ASSUME p < q PROVE FALSE
      <3>1. p \in 1 .. n /\ p <= p /\ p <= q /\ p # n /\ p \in 1 .. q - 1 /\ p + 1 \in 1 .. q
        BY <1>4, <1>5, <2>1
      <3>2. c[p] = d[p] /\ f[c[p]] = 0
        BY <1>4, <1>7, <3>1
      <3>3. d[p + 1] = 0
        BY <1>5, <3>1, <3>2
      <3>4. d[p + 1] \in 1 .. n
        BY <1>8, <3>1
      <3>5. QED
        BY <3>3, <3>4
    <2>2. ASSUME q < p PROVE FALSE
      <3>1. q \in 1 .. n /\ q <= p /\ q <= q /\ q # n /\ q \in 1 .. p - 1 /\ q + 1 \in 1 .. p
        BY <1>4, <1>5, <2>2
      <3>2. c[q] = d[q] /\ f[d[q]] = 0
        BY <1>5, <1>7, <3>1
      <3>3. c[q + 1] = 0
        BY <1>4, <3>1, <3>2
      <3>4. c[q + 1] \in 1 .. n
        BY <1>8, <3>1
      <3>5. QED
        BY <3>3, <3>4
    <2>3. QED
      BY <1>4, <1>5, <2>1, <2>2
  <1>10. c = d
    <2>1. \A k \in 1 .. p : c[k] = d[k]
      <3>1. \A k \in 1 .. p : k \in 1 .. n /\ k <= p /\ k <= q
        BY <1>4, <1>9
      <3>2. QED
        BY <1>7, <3>1
    <2>2. Len(c) = Len(d) /\ \A k \in 1 .. Len(c) : c[k] = d[k]
      BY <1>3, <1>9, <2>1
    <2>3. QED
      BY <1>4, <1>5, <2>2, SeqEqual
  <1>11. QED
    BY <1>1, <1>10
(* Where f leads down, the chain ends with the null pointer.               *)
LEMMA ChainDown ==
  ASSUME NEW n \in Nat, NEW f \in [1 .. n -> 0 .. n], \A y \in 1 .. n : f[y] < y,
         NEW x \in 1 .. n, NEW c, c = Chain(f, x, n)
  PROVE  /\ Part(f, x, n, c) /\ Len(c) \in 1 .. x /\ f[c[Len(c)]] = 0
         /\ \A i \in 1 .. Len(c) : c[i] \in 1 .. x
  <1>1. IsChain(f, x, n, c)
    BY ChainIs
  <1>2. /\ c \in Seq(1 .. n) /\ Len(c) \in 1 .. n /\ c[1] = x
        /\ \A i \in 1 .. Len(c) - 1 : f[c[i]] = c[i + 1]
        /\ f[c[Len(c)]] = 0 \/ Len(c) = n
    BY <1>1 DEF IsChain, Part
  <1>3. PICK k : k = Len(c)
    OBVIOUS
  <1>4. k \in 1 .. n /\ \A i \in 1 .. k : c[i] \in 1 .. n
    BY <1>2, <1>3, ElementOfSeq
  <1> DEFINE T == {i \in 1 .. k : ~(c[i] <= x - i + 1)}
  <1>5. T = {}
    <2> SUFFICES ASSUME T # {} PROVE FALSE
      OBVIOUS
    <2>1. PICK m \in T : \A j \in T : m <= j
      <3>1. T \subseteq Nat
        OBVIOUS
      <3> HIDE DEF T
      <3>2. QED
        BY <3>1, LeastNumber
    <2>2. m # 1 /\ m \in 1 .. k
      BY <1>2, <2>1
    <2>3. m - 1 \in 1 .. k /\ ~(m <= m - 1) /\ m - 1 \in 1 .. Len(c) - 1 /\ m - 1 + 1 = m
      BY <1>3, <1>4, <2>2
    <2>4. c[m - 1] <= x - (m - 1) + 1
      BY <2>1, <2>3
    <2>5. c[m] < c[m - 1]
      <3>1. f[c[m - 1]] = c[m] /\ c[m - 1] \in 1 .. n
        BY <1>2, <1>4, <2>3
      <3>2. QED
        BY <3>1
    <2>6. c[m] <= x - m + 1
      <3>1. c[m] \in 1 .. n /\ c[m - 1] \in 1 .. n
        BY <1>4, <2>2, <2>3
      <3>2. PICK a, b : a = c[m] /\ b = c[m - 1]
        OBVIOUS
      <3>3. a \in Int /\ b \in Int
        BY <3>1, <3>2
      <3>4. k \in Int
        BY <1>4
      <3>5. m \in Int
        BY <2>2, <3>4
      <3>6. b <= x - (m - 1) + 1 /\ a < b
        BY <2>4, <2>5, <3>2
      <3>7. x \in Int
        OBVIOUS
      <3>8. a <= x - m + 1
        BY <3>3, <3>5, <3>6, <3>7
      <3>9. QED
        BY <3>2, <3>8
    <2>7. QED
      BY <2>1, <2>6
  <1>6. ASSUME NEW i \in 1 .. k PROVE c[i] \in 1 .. n /\ c[i] <= x - i + 1 /\ i \in 1 .. k
    BY <1>4, <1>5
  <1>7. ASSUME NEW i \in 1 .. k PROVE c[i] \in 1 .. x
    BY <1>6
  <1>8. k \in 1 .. x
    <2>1. k \in 1 .. k
      BY <1>4
    <2>2. c[k] \in 1 .. n /\ c[k] <= x - k + 1
      BY <1>6, <2>1
    <2>3. QED
      BY <1>4, <2>2
  <1>9. f[c[k]] = 0
    <2>1. k \in 1 .. k
      BY <1>4
    <2>2. c[k] \in 1 .. n /\ c[k] <= x - k + 1
      BY <1>6, <2>1
    <2>3. CASE k = n
      <3>1. c[k] = 1
        BY <1>4, <2>2, <2>3
      <3>2. f[1] < 1 /\ f[1] \in 0 .. n
        BY <2>2, <3>1
      <3>3. QED
        BY <3>1, <3>2
    <2>4. QED
      BY <1>2, <1>3, <2>3
  <1>10. QED
    BY <1>1, <1>3, <1>7, <1>8, <1>9 DEF IsChain

(* It depends on what f is up to where it begins.                          *)
LEMMA ChainSame ==
  ASSUME NEW n \in Nat, NEW f \in [1 .. n -> 0 .. n], \A y \in 1 .. n : f[y] < y,
         NEW g \in [1 .. n -> 0 .. n], NEW x \in 1 .. n, \A y \in 1 .. x : g[y] = f[y]
  PROVE  Chain(g, x, n) = Chain(f, x, n)
  <1>1. PICK c : c = Chain(f, x, n)
    OBVIOUS
  <1>2. /\ Part(f, x, n, c) /\ Len(c) \in 1 .. x /\ f[c[Len(c)]] = 0
        /\ \A i \in 1 .. Len(c) : c[i] \in 1 .. x
    BY <1>1, ChainDown
  <1>3. \A i \in 1 .. Len(c) : g[c[i]] = f[c[i]]
    BY <1>2
  <1>4. \A i \in 1 .. Len(c) - 1 : i \in 1 .. Len(c)
    BY <1>2
  <1>5. Part(g, x, n, c)
    BY <1>2, <1>3, <1>4 DEF Part
  <1>6. g[c[Len(c)]] = 0
    BY <1>2, <1>3
  <1>7. IsChain(g, x, n, c)
    BY <1>5, <1>6 DEF IsChain
  <1>8. QED
    BY <1>1, <1>7, ChainOne

Grown(f, g, x, p, n) ==
  /\ Len(Chain(g, x, n)) = IF p = 0 THEN 1 ELSE Len(Chain(f, p, n)) + 1
  /\ ToSet(Chain(g, x, n)) = {x} \cup ToSet(Chain(f, p, n))

(* A new entry begins a chain: itself, and the chain from where it leads.  *)
LEMMA ChainGrown ==
  ASSUME NEW n \in Nat, NEW f \in [1 .. n -> 0 .. n], \A y \in 1 .. n : f[y] < y,
         NEW g \in [1 .. n -> 0 .. n], NEW x \in 1 .. n, \A y \in 1 .. x - 1 : g[y] = f[y],
         NEW p \in 0 .. x - 1, g[x] = p
  PROVE  Grown(f, g, x, p, n)
  <1>1. CASE p = 0
    <2>1. <<x>> \in Seq(1 .. n) /\ Len(<<x>>) = 1 /\ <<x>>[1] = x
      OBVIOUS
    <2>2. IsChain(g, x, n, <<x>>)
      BY <1>1, <2>1 DEF IsChain, Part
    <2>3. Chain(g, x, n) = <<x>>
      BY <2>2, ChainOne
    <2>4. ToSet(<<x>>) = {x} /\ Chain(f, p, n) = <<>> /\ ToSet(<<>>) = {}
      BY <1>1 DEF Chain, ToSet
    <2>5. QED
      BY <1>1, <2>1, <2>3, <2>4 DEF Grown
  <1>2. CASE p # 0
    <2>1. PICK c : c = Chain(f, p, n)
      OBVIOUS
    <2>2. p \in 1 .. n /\ p \in 1 .. x - 1
      BY <1>2
    <2>3. /\ Part(f, p, n, c) /\ Len(c) \in 1 .. p /\ f[c[Len(c)]] = 0
          /\ \A i \in 1 .. Len(c) : c[i] \in 1 .. p
      BY <2>1, <2>2, ChainDown, SMTT(30)
    <2>4. /\ c \in Seq(1 .. n) /\ Len(c) \in 1 .. n /\ c[1] = p
          /\ \A i \in 1 .. Len(c) - 1 : f[c[i]] = c[i + 1]
      BY <2>3 DEF Part
    <2>5. PICK k, d : k = Len(c) /\ d = <<x>> \o c
      OBVIOUS
    <2>6. k \in 1 .. p /\ k + 1 \in 1 .. n
      BY <2>2, <2>3, <2>5
    <2>7. <<x>> \in Seq(1 .. n) /\ Len(<<x>>) = 1 /\ <<x>>[1] = x
      OBVIOUS
    <2>8. d \in Seq(1 .. n)
      BY <2>4, <2>5, <2>7, ConcatProperties
    <2>9. Len(d) = k + 1
      <3>1. Len(d) = 1 + k
        BY <2>4, <2>5, <2>7, ConcatProperties
      <3>2. QED
        BY <2>6, <3>1
    <2>10. d[1] = x /\ \A i \in 1 .. k : d[i + 1] = c[i]
      <3>1. \A i \in 1 .. Len(<<x>>) + Len(c) :
              (<<x>> \o c)[i] = IF i <= Len(<<x>>) THEN <<x>>[i] ELSE c[i - Len(<<x>>)]
        BY <2>4, <2>7, ConcatProperties
      <3>2. \A i \in 1 .. 1 + k : d[i] = IF i <= 1 THEN <<x>>[i] ELSE c[i - 1]
        BY <2>5, <2>7, <3>1
      <3>3. d[1] = x
        BY <2>6, <2>7, <3>2
      <3>4. ASSUME NEW i \in 1 .. k PROVE d[i + 1] = c[i]
        <4>1. i + 1 \in 1 .. 1 + k /\ ~(i + 1 <= 1) /\ i + 1 - 1 = i
          BY <2>6
        <4>2. QED
          BY <3>2, <4>1
      <3>5. QED
        BY <3>3, <3>4
    <2>11. \A i \in 1 .. k : g[c[i]] = f[c[i]]
      <3>1. \A i \in 1 .. k : c[i] \in 1 .. x - 1
        BY <2>2, <2>3, <2>5, SMTT(30)
      <3>2. QED
        BY <3>1
    <2>12. ASSUME NEW i \in 1 .. k PROVE g[d[i]] = d[i + 1]
      <3>1. CASE i = 1
        BY <2>4, <2>6, <2>10, <3>1
      <3>2. CASE i # 1
        <4>1. i - 1 \in 1 .. k /\ i - 1 \in 1 .. Len(c) - 1 /\ i - 1 + 1 = i
          BY <2>5, <2>6, <3>2
        <4>2. d[i] = c[i - 1] /\ d[i + 1] = c[i] /\ f[c[i - 1]] = c[i]
          <5>1. d[i - 1 + 1] = c[i - 1] /\ f[c[i - 1]] = c[i - 1 + 1]
            BY <2>4, <2>10, <4>1
          <5>2. QED
            BY <2>10, <4>1, <5>1
        <4>3. QED
          BY <2>11, <4>1, <4>2
      <3>3. QED
        BY <3>1, <3>2
    <2>13. Part(g, x, n, d)
      <3>1. k + 1 - 1 = k
        BY <2>6
      <3>2. QED
        BY <2>6, <2>8, <2>9, <2>10, <2>12, <3>1 DEF Part
    <2>14. g[d[Len(d)]] = 0
      <3>1. k \in 1 .. k
        BY <2>6
      <3>2. QED
        BY <2>3, <2>5, <2>9, <2>10, <2>11, <3>1, SMTT(30)
    <2>15. IsChain(g, x, n, d)
      BY <2>13, <2>14 DEF IsChain
    <2>16. Chain(g, x, n) = d
      BY <2>15, ChainOne
    <2>17. ToSet(d) = {x} \cup ToSet(c)
      <3>1. DOMAIN d = 1 .. k + 1 /\ DOMAIN c = 1 .. k
        BY <2>4, <2>5, <2>8, <2>9, LenProperties
      <3>2. ToSet(d) \subseteq {x} \cup ToSet(c)
        <4> SUFFICES ASSUME NEW i \in 1 .. k + 1 PROVE d[i] \in {x} \cup ToSet(c)
          BY <3>1 DEF ToSet
        <4>1. CASE i = 1
          BY <2>10, <4>1
        <4>2. CASE i # 1
          <5>1. i - 1 \in 1 .. k /\ i - 1 + 1 = i
            BY <2>6, <4>2
          <5>2. d[i] = c[i - 1]
            BY <2>10, <5>1
          <5>3. QED
            BY <3>1, <5>1, <5>2 DEF ToSet
        <4>3. QED
          BY <4>1, <4>2
      <3>3. x \in ToSet(d)
        <4>1. 1 \in 1 .. k + 1
          BY <2>6
        <4>2. QED
          BY <2>10, <3>1, <4>1 DEF ToSet
      <3>4. ASSUME NEW i \in 1 .. k PROVE c[i] \in ToSet(d)
        <4>1. i + 1 \in 1 .. k + 1 /\ c[i] = d[i + 1]
          BY <2>6, <2>10
        <4>2. QED
          BY <3>1, <4>1 DEF ToSet
      <3>5. ToSet(c) \subseteq ToSet(d)
        BY <3>1, <3>4 DEF ToSet
      <3>6. QED
        BY <3>2, <3>3, <3>5
    <2>18. QED
      BY <1>2, <2>1, <2>5, <2>9, <2>16, <2>17 DEF Grown
  <1>3. QED
    BY <1>1, <1>2

LEMMA ChainNew ==
  ASSUME NEW n \in Nat, NEW f \in [1 .. n -> 0 .. n], \A y \in 1 .. n : f[y] < y,
         NEW g \in [1 .. n -> 0 .. n], NEW x \in 1 .. n, \A y \in 1 .. x - 1 : g[y] = f[y],
         NEW p \in 0 .. x - 1, g[x] = p
  PROVE  Len(Chain(g, x, n)) = IF p = 0 THEN 1 ELSE Len(Chain(f, p, n)) + 1
  <1>1. Grown(f, g, x, p, n)
    BY ChainGrown
  <1>2. QED
    BY <1>1 DEF Grown

(* A chain is where it begins, and the chain from where that leads.        *)
LEMMA ChainTail ==
  ASSUME NEW n \in Nat, NEW f \in [1 .. n -> 0 .. n], \A y \in 1 .. n : f[y] < y, NEW x \in 1 .. n
  PROVE  ToSet(Chain(f, x, n)) = {x} \cup ToSet(Chain(f, f[x], n))
  <1>1. f[x] \in 0 .. x - 1 /\ \A y \in 1 .. x - 1 : f[y] = f[y]
    OBVIOUS
  <1>2. PICK p : p = f[x]
    OBVIOUS
  <1>3. Grown(f, f, x, p, n)
    BY <1>1, <1>2, ChainGrown
  <1>4. QED
    BY <1>2, <1>3 DEF Grown

LeadsUp(f, n) == \A y \in 1 .. n : f[y] # 0 => y < f[y]

Changes(f, g, n, y) == \A w \in 1 .. n : w # y => g[w] = f[w]

(* Where f leads up, the chain ends with the null pointer, too.            *)
LEMMA ChainUp ==
  ASSUME NEW n \in Nat, NEW f \in [1 .. n -> 0 .. n], LeadsUp(f, n),
         NEW x \in 1 .. n, NEW c, IsChain(f, x, n, c)
  PROVE  f[c[Len(c)]] = 0 /\ \A i \in 1 .. Len(c) : c[i] \in 1 .. n /\ i <= c[i]
  <1>1. \A y \in 1 .. n : f[y] # 0 => y < f[y]
    BY DEF LeadsUp
  <1>2. PICK k : k = Len(c)
    OBVIOUS
  <1>3. /\ c \in Seq(1 .. n) /\ k \in 1 .. n /\ c[1] = x
        /\ \A i \in 1 .. k - 1 : f[c[i]] = c[i + 1]
        /\ f[c[k]] = 0 \/ k = n
    BY <1>2 DEF IsChain, Part
  <1>4. \A i \in 1 .. k : c[i] \in 1 .. n
    BY <1>2, <1>3, ElementOfSeq
  <1> DEFINE T == {i \in 1 .. k : ~(i <= c[i])}
  <1>5. T = {}
    <2> SUFFICES ASSUME T # {} PROVE FALSE
      OBVIOUS
    <2>1. PICK m \in T : \A j \in T : m <= j
      <3>1. T \subseteq Nat
        OBVIOUS
      <3> HIDE DEF T
      <3>2. QED
        BY <3>1, LeastNumber
    <2>2. m # 1 /\ m \in 1 .. k /\ ~(m <= c[m]) /\ c[m] \in 1 .. n
      <3>1. m \in 1 .. k /\ ~(m <= c[m])
        BY <2>1
      <3>2. c[m] \in 1 .. n
        BY <1>4, <3>1
      <3>3. m # 1
        BY <1>3, <3>1
      <3>4. QED
        BY <3>1, <3>2, <3>3
    <2>3. m - 1 \in 1 .. k /\ ~(m <= m - 1) /\ m - 1 \in 1 .. k - 1 /\ m - 1 + 1 = m
      BY <1>3, <2>2
    <2>4. m - 1 <= c[m - 1]
      BY <2>1, <2>3
    <2>5. f[c[m - 1]] = c[m] /\ c[m - 1] \in 1 .. n
      BY <1>3, <1>4, <2>3
    <2>6. c[m - 1] < c[m]
      BY <1>1, <2>2, <2>5
    <2>7. PICK a, b : a = c[m] /\ b = c[m - 1]
      OBVIOUS
    <2>8. b < a /\ m - 1 <= b /\ ~(m <= a)
      BY <2>2, <2>4, <2>6, <2>7
    <2>9. a \in Int /\ b \in Int
      BY <2>2, <2>5, <2>7
    <2>10. m \in Int
      BY <1>3, <2>2
    <2>11. QED
      BY <2>8, <2>9, <2>10
  <1>6. \A i \in 1 .. k : c[i] \in 1 .. n /\ i <= c[i]
    BY <1>4, <1>5
  <1> HIDE DEF T
  <1>7. f[c[k]] = 0
    <2>1. c[k] \in 1 .. n /\ k <= c[k]
      BY <1>3, <1>6
    <2>2. CASE k = n
      <3>1. c[k] = n
        BY <1>3, <2>1, <2>2
      <3>2. f[n] # 0 => n < f[n]
        BY <1>1, <2>1, <3>1
      <3>3. f[n] \in 0 .. n
        BY <2>1, <3>1
      <3>4. QED
        BY <3>1, <3>2, <3>3
    <2>3. QED
      BY <1>3, <2>2
  <1>8. QED
    BY <1>2, <1>6, <1>7

(* A chain that does not come to y does not depend on where it leads.      *)
LEMMA ChainApart ==
  ASSUME NEW n \in Nat, NEW f, NEW g, NEW x \in 1 .. n, NEW c, IsChain(f, x, n, c),
         NEW y, Changes(f, g, n, y), \A i \in 1 .. Len(c) : c[i] # y
  PROVE  IsChain(g, x, n, c)
  <1>1. \A w \in 1 .. n : w # y => g[w] = f[w]
    BY DEF Changes
  <1>2. /\ c \in Seq(1 .. n) /\ Len(c) \in 1 .. n /\ c[1] = x
        /\ \A i \in 1 .. Len(c) - 1 : f[c[i]] = c[i + 1]
        /\ f[c[Len(c)]] = 0 \/ Len(c) = n
    BY DEF IsChain, Part
  <1>3. PICK k : k = Len(c)
    OBVIOUS
  <1>4. k \in 1 .. n /\ \A i \in 1 .. k : c[i] \in 1 .. n /\ c[i] # y
    BY <1>2, <1>3, ElementOfSeq
  <1>5. \A i \in 1 .. k : g[c[i]] = f[c[i]]
    BY <1>1, <1>4
  <1>6. k \in 1 .. k /\ \A i \in 1 .. k - 1 : i \in 1 .. k
    BY <1>4
  <1>7. QED
    BY <1>2, <1>3, <1>5, <1>6 DEF IsChain, Part

(* A chain that goes up gets longer by one entry at its end.               *)
LEMMA ChainLonger ==
  ASSUME NEW n \in Nat, NEW f \in [1 .. n -> 0 .. n], LeadsUp(f, n), NEW x \in 1 .. n, NEW c, IsChain(f, x, n, c),
         NEW z \in 1 .. n, NEW g, Changes(f, g, n, c[Len(c)]), g[c[Len(c)]] = z, f[z] = 0, c[Len(c)] < z
  PROVE  IsChain(g, x, n, Append(c, z))
  <1>1. f[c[Len(c)]] = 0 /\ \A i \in 1 .. Len(c) : c[i] \in 1 .. n /\ i <= c[i]
    BY ChainUp
  <1>2. PICK k : k = Len(c)
    OBVIOUS
  <1>3. PICK y : y = c[k]
    OBVIOUS
  <1>4. /\ c \in Seq(1 .. n) /\ k \in 1 .. n /\ c[1] = x
        /\ \A i \in 1 .. k - 1 : f[c[i]] = c[i + 1]
    BY <1>2 DEF IsChain, Part
  <1>5. f[y] = 0 /\ y \in 1 .. n /\ k <= y /\ y < z /\ g[y] = z /\ \A i \in 1 .. k : c[i] \in 1 .. n
    BY <1>1, <1>2, <1>3, <1>4
  <1>6. \A w \in 1 .. n : w # y => g[w] = f[w]
    BY <1>2, <1>3 DEF Changes
  <1>7. PICK d : d = Append(c, z)
    OBVIOUS
  <1>8. d \in Seq(1 .. n) /\ Len(d) = k + 1 /\ d[k + 1] = z /\ \A i \in 1 .. k : d[i] = c[i]
    BY <1>2, <1>4, <1>7, AppendProperties
  <1>9. k + 1 \in 1 .. n /\ k + 1 - 1 = k
    BY <1>4, <1>5
  <1>10. g[y] = z /\ g[z] = 0
    BY <1>5, <1>6
  <1>11. ASSUME NEW i \in 1 .. k PROVE g[d[i]] = d[i + 1]
    <2>1. CASE i = k
      <3>1. d[i] = y /\ d[i + 1] = z
        <4>1. d[k] = c[k]
          BY <1>8, <1>11, <2>1
        <4>2. QED
          BY <1>3, <1>8, <2>1, <4>1
      <3>2. QED
        BY <1>10, <3>1
    <2>2. CASE i # k
      <3>1. i \in 1 .. k - 1 /\ i + 1 \in 1 .. k
        BY <1>4, <2>2
      <3>2. f[c[i]] = c[i + 1] /\ d[i + 1] = c[i + 1] /\ d[i] = c[i] /\ c[i + 1] \in 1 .. n
        BY <1>4, <1>8, <1>5, <3>1
      <3>3. c[i] # y /\ c[i] \in 1 .. n
        <4>1. c[i] \in 1 .. n
          BY <1>11, <1>5
        <4>2. f[c[i]] # 0
          BY <3>2
        <4>3. QED
          BY <1>5, <4>1, <4>2
      <3>4. g[c[i]] = f[c[i]]
        BY <1>6, <3>3
      <3>5. QED
        BY <3>2, <3>4
    <2>3. QED
      BY <2>1, <2>2
  <1>12. d[1] = x
    <2>1. 1 \in 1 .. k
      BY <1>4
    <2>2. QED
      BY <1>4, <1>8, <2>1
  <1>13. Part(g, x, n, d)
    <2>1. ASSUME NEW i \in 1 .. Len(d) - 1 PROVE g[d[i]] = d[i + 1]
      <3>1. i \in 1 .. k
        BY <1>4, <1>8, <1>9
      <3>2. QED
        BY <1>11, <3>1
    <2>2. QED
      BY <1>8, <1>9, <1>12, <2>1 DEF Part
  <1>14. IsChain(g, x, n, d)
    BY <1>8, <1>10, <1>13 DEF IsChain
  <1>15. QED
    BY <1>7, <1>14
=============================================================================
