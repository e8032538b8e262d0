----------------------------- MODULE Recursion ------------------------------
(***************************************************************************)
(* What a recursive definition computes.  tlapm unfolds f[x \in S] == e    *)
(* only to a CHOOSE; that the equation has a solution has to be proved.    *)
(* Every recursion of this project follows a parent pointer (a block its   *)
(* predecessor, an index the one before), so one existence theorem serves  *)
(* all of them.  The value at the roots and the step are functions here,   *)
(* not operators: the provers can instantiate those.  Induction is by a    *)
(* least counterexample.                                                   *)
(***************************************************************************)
EXTENDS Lists, Functions, TLAPS, WellFoundedInduction

\* A set of numbers that is not empty has a least one.
LEMMA NatLeast ==
  ASSUME NEW T \in SUBSET Nat, T # {}
  PROVE  \E n \in T : \A m \in T : n <= m
  <1> DEFINE R == OpToRel(<, Nat)
  <1>1. PICK n \in T : \A m \in T : ~(<<m, n>> \in R)
    <2>1. IsWellFoundedOn(R, Nat)
      BY Zenon, NatLessThanWellFounded
    <2> HIDE DEF R
    <2> QED BY Zenon, <2>1, WFMin
  <1>2. ASSUME NEW m \in T PROVE n <= m
    <2>1. ~(<<m, n>> \in R)
      BY Zenon, <1>1
    <2>2. ~(m < n)
      BY <2>1 DEF OpToRel
    <2> QED BY <2>2
  <1> QED BY <1>2

\* Following parent from any member of S leads out of S.
Grounded(S, parent) == \A T \in SUBSET S : T # {} => \E x \in T : parent[x] \notin T

\* f solves the recursion with these root values and this step.
Recursive(S, parent, base, step, f) ==
  \A x \in S : f[x] = IF parent[x] \in S THEN step[<<f[parent[x]], x>>] ELSE base[x]

\* A recursion along grounded parents has a solution, of the expected type.
LEMMA RecursionExists ==
  ASSUME NEW S, NEW parent, Grounded(S, parent),
         NEW V, NEW base \in [S -> V], NEW step \in [V \X S -> V]
  PROVE  \E f \in [S -> V] : Recursive(S, parent, base, step, f)
  <1> DEFINE Closed(D) == \A x \in D : parent[x] \in S => parent[x] \in D
             Solves(D, g) == \A x \in D :
               g[x] = IF parent[x] \in S THEN step[<<g[parent[x]], x>>] ELSE base[x]
             Part(x, D, g) == /\ D \in SUBSET S /\ x \in D /\ Closed(D)
                              /\ g \in [D -> V] /\ Solves(D, g)
  <1>1. ASSUME NEW x \in S PROVE \E D, g : Part(x, D, g)
    <2> DEFINE T == {y \in S : ~\E D, g : Part(y, D, g)}
    <2> SUFFICES ASSUME T # {} PROVE FALSE
      <3> HIDE DEF Part
      <3> QED BY <1>1
    <2>1. PICK y \in T : parent[y] \notin T
      BY Zenon DEF Grounded
    <2>2. CASE parent[y] \notin S
      <3> DEFINE g == [z \in {y} |-> base[y]]
      <3>1. Part(y, {y}, g)
        BY <2>2
      <3> QED BY <3>1, <2>1
    <2>3. CASE parent[y] \in S
      <3>1. PICK D, g : Part(parent[y], D, g)
        BY <2>1, <2>3
      <3>2. y \notin D
        <4> SUFFICES ASSUME y \in D PROVE FALSE
          OBVIOUS
        <4>1. Part(y, D, g)
          BY <3>1
        <4> QED BY <4>1, <2>1
      <3> DEFINE E == D \cup {y}
                 h == [z \in E |-> IF z = y THEN step[<<g[parent[y]], y>>] ELSE g[z]]
      <3>3. h \in [E -> V]
        BY <3>1
      <3>4. Closed(E)
        BY <3>1
      <3>5. Solves(E, h)
        <4> SUFFICES ASSUME NEW z \in E
                     PROVE  h[z] = IF parent[z] \in S THEN step[<<h[parent[z]], z>>] ELSE base[z]
          BY Zenon
        <4>1. CASE z = y
          <5>1. h[y] = step[<<g[parent[y]], y>>]
            OBVIOUS
          <5>2. parent[y] \in D /\ parent[y] # y
            BY <3>1, <3>2
          <5>3. h[parent[y]] = g[parent[y]]
            BY <5>2
          <5> HIDE DEF h
          <5> QED BY <4>1, <2>3, <5>1, <5>3
        <4>2. CASE z # y
          <5>1. z \in D /\ h[z] = g[z]
            BY <4>2
          <5>2. parent[z] \in S => parent[z] \in D /\ h[parent[z]] = g[parent[z]]
            BY <5>1, <3>1, <3>2
          <5>3. g[z] = IF parent[z] \in S THEN step[<<g[parent[z]], z>>] ELSE base[z]
            BY <5>1, <3>1
          <5> HIDE DEF h, E
          <5> QED BY <5>1, <5>2, <5>3
        <4> QED BY <4>1, <4>2
      <3>6. Part(y, E, h)
        BY Zenon, <3>1, <3>3, <3>4, <3>5
      <3> HIDE DEF Part, E, h
      <3> QED BY <3>6, <2>1
    <2> QED BY <2>2, <2>3
  <1>2. ASSUME NEW D, NEW g, NEW E, NEW h, NEW x, Part(x, D, g), Part(x, E, h)
        PROVE  g[x] = h[x]
    <2> DEFINE T == {y \in D \cap E : g[y] # h[y]}
    <2> SUFFICES ASSUME T # {} PROVE FALSE
      BY <1>2
    <2>1. PICK y \in T : parent[y] \notin T
      BY Zenon, <1>2 DEF Grounded
    <2>2. parent[y] \in S => g[parent[y]] = h[parent[y]]
      BY <2>1, <1>2
    <2> QED BY Zenon, <2>1, <2>2, <1>2
  <1> DEFINE val(x) == CHOOSE v : \E D, g : Part(x, D, g) /\ v = g[x]
             f == [x \in S |-> val(x)]
  <1>3. ASSUME NEW x \in S, NEW D, NEW g, Part(x, D, g) PROVE f[x] = g[x]
    <2>1. \E v : \E E, h : Part(x, E, h) /\ v = h[x]
      BY <1>3
    <2>2. \E E, h : Part(x, E, h) /\ val(x) = h[x]
      <3> HIDE DEF Part
      <3> QED BY <2>1
    <2>3. PICK E, h : Part(x, E, h) /\ val(x) = h[x]
      BY <2>2
    <2> HIDE DEF val, Part
    <2> QED BY <2>3, <1>2, <1>3
  <1>4. ASSUME NEW x \in S
        PROVE  /\ f[x] \in V
               /\ f[x] = IF parent[x] \in S THEN step[<<f[parent[x]], x>>] ELSE base[x]
    <2>1. PICK D, g : Part(x, D, g)
      BY Zenon, <1>1, <1>4
    <2>2. f[x] = g[x]
      <3> HIDE DEF f, Part
      <3> QED BY <1>3, <1>4, <2>1
    <2>3. ASSUME parent[x] \in S PROVE f[parent[x]] = g[parent[x]]
      <3>1. Part(parent[x], D, g)
        BY <2>1, <2>3
      <3> HIDE DEF f, Part
      <3> QED BY <1>3, <2>3, <3>1
    <2> HIDE DEF f
    <2> QED BY Zenon, <2>1, <2>2, <2>3
  <1>5. f \in [S -> V]
    <2>1. \A x \in S : val(x) \in V
      <3> HIDE DEF val
      <3> QED BY Zenon, <1>4
    <2> HIDE DEF val
    <2> QED BY <2>1
  <1> HIDE DEF f
  <1>6. Recursive(S, parent, base, step, f)
    BY <1>4 DEF Recursive
  <1> QED BY Zenon, <1>5, <1>6

\* f[0] is b and each later value comes from the one before.
Scans(n, b, step, f) == f[0] = b /\ \A i \in 1 .. n : f[i] = step[<<f[i-1], i>>]

\* Counting down leads out of 0 .. n.
LEMMA CountDown == \A n \in Nat : Grounded(0 .. n, [i \in 0 .. n |-> i - 1])
  <1> SUFFICES ASSUME NEW n \in Nat, NEW T \in SUBSET (0 .. n), T # {}
               PROVE  \E x \in T : [i \in 0 .. n |-> i - 1][x] \notin T
    BY Zenon DEF Grounded
  <1>1. T \in SUBSET Nat
    OBVIOUS
  <1>2. PICK x \in T : \A m \in T : x <= m
    BY <1>1, NatLeast
  <1> QED BY <1>2

\* A loop over 1 .. n computes a value for each turn.
LEMMA ScanExists ==
  ASSUME NEW n \in Nat, NEW V, NEW b \in V, NEW step \in [V \X (1 .. n) -> V]
  PROVE  \E f \in [0 .. n -> V] : Scans(n, b, step, f)
  <1> DEFINE D == 0 .. n
             parent == [i \in D |-> i - 1]
             base == [i \in D |-> b]
             next == [x \in V \X D |-> IF x[2] = 0 THEN b ELSE step[x]]
  <1>1. Grounded(D, parent)
    BY CountDown
  <1>2. base \in [D -> V] /\ next \in [V \X D -> V]
    OBVIOUS
  <1>3. PICK f \in [D -> V] : Recursive(D, parent, base, next, f)
    <2> HIDE DEF parent, base, next, D
    <2> QED BY Zenon, <1>1, <1>2, RecursionExists
  <1>4. f[0] = b
    <2>1. 0 \in D /\ ~(parent[0] \in D) /\ base[0] = b
      OBVIOUS
    <2> HIDE DEF D, parent, base
    <2> QED BY Zenon, <2>1, <1>3 DEF Recursive
  <1>5. ASSUME NEW i \in 1 .. n PROVE f[i] = step[<<f[i-1], i>>]
    <2>1. parent[i] = i - 1 /\ i - 1 \in D /\ i \in D
      OBVIOUS
    <2>2. f[i] = next[<<f[i-1], i>>] /\ f[i-1] \in V
      BY Zenon, <2>1, <1>3 DEF Recursive
    <2> QED BY <2>2
  <1> QED BY <1>4, <1>5 DEF Scans

\* A property that passes from each number to the next.
LEMMA Climb ==
  ASSUME NEW n \in Nat, NEW P \in SUBSET Nat, 0 \in P, \A i \in 1 .. n : i - 1 \in P => i \in P
  PROVE  0 .. n \subseteq P
  <1> DEFINE T == (0 .. n) \ P
  <1> SUFFICES ASSUME T # {} PROVE FALSE
    OBVIOUS
  <1>1. PICK x \in T : \A m \in T : x <= m
    <2>1. T \in SUBSET Nat /\ T # {}
      OBVIOUS
    <2> HIDE DEF T
    <2> QED BY <2>1, NatLeast
  <1>2. x # 0 /\ x \in 1 .. n /\ x - 1 \notin P
    BY <1>1
  <1>3. x - 1 \in T
    BY <1>2
  <1> QED BY <1>1, <1>3, <1>2

\* A loop that starts in V and stays there.
LEMMA ScanTyped ==
  ASSUME NEW n \in Nat, NEW V, NEW f, f = [i \in 0 .. n |-> f[i]], f[0] \in V,
         \A i \in 1 .. n : f[i-1] \in V => f[i] \in V
  PROVE  f \in [0 .. n -> V]
  <1> DEFINE P == {i \in 0 .. n : f[i] \in V}
  <1>1. P \in SUBSET Nat /\ 0 \in P /\ \A i \in 1 .. n : i - 1 \in P => i \in P
    <2>1. \A i \in 1 .. n : i \in 0 .. n /\ i - 1 \in 0 .. n
      OBVIOUS
    <2>2. 0 \in 0 .. n /\ 0 .. n \subseteq Nat
      OBVIOUS
    <2> QED BY Zenon, <2>1, <2>2
  <1> HIDE DEF P
  <1>2. 0 .. n \subseteq P
    BY <1>1, Climb
  <1>3. \A i \in 0 .. n : f[i] \in V
    BY <1>2 DEF P
  <1> QED BY <1>3

-----------------------------------------------------------------------------
(* The filtering loop. *)

\* One turn of the loop.
LEMMA KeptUnfold ==
  ASSUME NEW S, NEW list \in Seq(S), NEW T
  PROVE  /\ Kept(list, T)[0] = <<>>
         /\ \A n \in 1 .. Len(list) :
              Kept(list, T)[n] = IF list[n] \in T THEN Kept(list, T)[n-1]
                                 ELSE Append(Kept(list, T)[n-1], list[n])
  <1> DEFINE D == 0 .. Len(list)
             V == Seq(S)
             step == [x \in V \X (1 .. Len(list)) |->
                        IF list[x[2]] \in T THEN x[1] ELSE Append(x[1], list[x[2]])]
             Eq(f) == f = [n \in D |-> IF n = 0 THEN <<>>
                             ELSE IF list[n] \in T THEN f[n-1] ELSE Append(f[n-1], list[n])]
  <1>1. PICK f \in [D -> V] : Scans(Len(list), <<>>, step, f)
    <2>1. Len(list) \in Nat /\ <<>> \in V /\ step \in [V \X (1 .. Len(list)) -> V]
      OBVIOUS
    <2> HIDE DEF V, step
    <2> QED BY Zenon, <2>1, ScanExists
  <1>2. ASSUME NEW n \in 1 .. Len(list)
        PROVE  f[n] = IF list[n] \in T THEN f[n-1] ELSE Append(f[n-1], list[n])
    <2>1. f[n] = step[<<f[n-1], n>>]
      BY Zenon, <1>1 DEF Scans
    <2>2. f[n-1] \in V
      BY <1>1
    <2> QED BY <2>1, <2>2
  <1>3. Eq(f)
    <2>1. f[0] = <<>>
      BY <1>1 DEF Scans
    <2>2. \A n \in D : n = 0 \/ n \in 1 .. Len(list)
      OBVIOUS
    <2>3. f = [n \in D |-> f[n]]
      BY <1>1
    <2> HIDE DEF D
    <2> QED BY Zenon, <1>2, <2>1, <2>2, <2>3
  <1>4. Eq(Kept(list, T))
    <2>1. Kept(list, T) = CHOOSE g : Eq(g)
      BY DEF Kept
    <2> HIDE DEF Eq
    <2> QED BY <1>3, <2>1
  <1>5. ASSUME NEW k, Eq(k)
        PROVE  /\ k[0] = <<>>
               /\ \A n \in 1 .. Len(list) :
                    k[n] = IF list[n] \in T THEN k[n-1] ELSE Append(k[n-1], list[n])
    <2>1. 0 \in D /\ \A n \in 1 .. Len(list) : n \in D /\ n # 0
      OBVIOUS
    <2> HIDE DEF D
    <2> QED BY Zenon, <1>5, <2>1
  <1> HIDE DEF Eq
  <1> QED BY <1>4, <1>5

\* The loop keeps exactly the members outside T, and repeats none of them.
LEMMA DropFacts ==
  ASSUME NEW S, NEW list \in Seq(S), NEW T
  PROVE  /\ Drop(list, T) \in Seq(S)
         /\ Range(Drop(list, T)) = Range(list) \ T
         /\ Len(Drop(list, T)) <= Len(list)
         /\ IsInjective(list) => IsInjective(Drop(list, T))
  <1> DEFINE k == Kept(list, T)
             First(n) == {list[i] : i \in 1 .. n}
             Good(n) == /\ k[n] \in Seq(S) /\ Len(k[n]) <= n
                        /\ Range(k[n]) = First(n) \ T
                        /\ IsInjective(list) => IsInjective(k[n])
             P == {n \in Nat : n <= Len(list) => Good(n)}
  <1>1. /\ k[0] = <<>>
        /\ \A n \in 1 .. Len(list) :
             k[n] = IF list[n] \in T THEN k[n-1] ELSE Append(k[n-1], list[n])
    BY KeptUnfold
  <1> HIDE DEF k
  <1>2. 0 \in P
    <2>1. First(0) = {} /\ Range(<<>>) = {} /\ IsInjective(<<>>)
      BY DEF Range, IsInjective
    <2>2. <<>> \in Seq(S) /\ Len(<<>>) <= 0
      OBVIOUS
    <2>3. Good(0)
      <3> HIDE DEF First
      <3> QED BY <2>1, <2>2, <1>1
    <2> HIDE DEF Good
    <2> QED BY <2>3
  <1>3. ASSUME NEW n \in 1 .. Len(list), Good(n-1) PROVE Good(n)
    <2>1. First(n) = First(n-1) \cup {list[n]}
      OBVIOUS
    <2>2. CASE list[n] \in T
      BY <2>1, <2>2, <1>1, <1>3
    <2>3. CASE list[n] \notin T
      <3> DEFINE q == k[n-1]
      <3>0. q \in Seq(S) /\ list[n] \in S
        BY <1>3
      <3>1. k[n] = Append(q, list[n]) /\ q \in Seq(S) /\ list[n] \in S
        BY Zenon, <2>3, <1>1, <3>0
      <3>2. Range(q) = First(n-1) \ T /\ Len(q) <= n-1 /\ (IsInjective(list) => IsInjective(q))
        BY <1>3
      <3> HIDE DEF q, First
      <3>3. Range(k[n]) = Range(q) \cup {list[n]}
        BY SMTT(30), <3>1 DEF Range
      <3>4. ASSUME IsInjective(list) PROVE IsInjective(k[n])
        <4>1. list[n] \notin Range(q)
          <5>1. list[n] \notin First(n-1)
            BY <3>4 DEF First, IsInjective
          <5> QED BY <5>1, <3>2
        <4> QED BY <4>1, <3>1, <3>2, <3>4 DEF IsInjective, Range
      <3>5. k[n] \in Seq(S) /\ Len(k[n]) <= n
        BY <3>1, <3>2
      <3> QED BY <3>2, <3>3, <3>4, <3>5, <2>1, <2>3
    <2> QED BY <2>2, <2>3
  <1>4. Good(Len(list))
    <2>1. \A n \in 1 .. Len(list) : n-1 \in P => n \in P
      <3> HIDE DEF Good
      <3> QED BY <1>3
    <2>2. P \in SUBSET Nat /\ Len(list) \in Nat
      OBVIOUS
    <2>3. 0 .. Len(list) \subseteq P
      <3> HIDE DEF P
      <3> QED BY Zenon, <2>1, <2>2, <1>2, Climb
    <2> HIDE DEF Good
    <2> QED BY <2>3
  <1>5. First(Len(list)) = Range(list)
    BY DEF Range
  <1> QED BY <1>4, <1>5 DEF Drop, k
=============================================================================
