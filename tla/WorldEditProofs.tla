--------------------------- MODULE WorldEditProofs ---------------------------
(***************************************************************************)
(* What the edits of the world keep, for any players, levels, actions,     *)
(* commands, worlds, zones, signs and limits.  From the bottom up: what a  *)
(* burn does to any world under any budget (Burn), the sign list (Signs),  *)
(* the restores, the handlers and the zones (Edits), and the undo and redo *)
(* stacks as accounts of the world they came to (WorldEdit).               *)
(***************************************************************************)
EXTENDS WorldEdit, FiniteSetTheorems, FunctionTheorems, SequenceTheorems, WellFoundedInduction, TLAPS

-----------------------------------------------------------------------------
(* Numbers and recursive functions. *)

LEMMA Least ==
    ASSUME NEW S \in SUBSET Nat, S # {}
    PROVE  \E k \in S : \A j \in S : k <= j
<1> DEFINE R == StrictSubsetOrdering(Nat)
           T == {1..k : k \in S}
<1>1. IsWellFoundedOn(R, FiniteSubsetsOf(Nat))
  BY FS_StrictSubsetOrderingWellFounded
<1>2. \A k \in S : 1..k \in FiniteSubsetsOf(Nat)
  BY FS_Interval DEF FiniteSubsetsOf
<1>3. T \subseteq FiniteSubsetsOf(Nat) /\ T # {}
  BY <1>2
<1> HIDE DEF R
<1>4. PICK x \in T : \A y \in T : ~(<<y, x>> \in R)
  BY <1>1, <1>3, WFMin
<1>5. PICK k \in S : x = 1..k
  OBVIOUS
<1>6. ASSUME NEW j \in S, j < k PROVE FALSE
  <2>1. 1..j \subseteq 1..k /\ 1..j # 1..k
    <3>1. j \in Nat /\ k \in Nat
      OBVIOUS
    <3>2. k \in 1..k /\ k \notin 1..j
      BY <1>6, <3>1
    <3> QED
      BY <1>6, <3>1, <3>2
  <2>2. 1..j \in SUBSET Nat /\ 1..k \in SUBSET Nat
    OBVIOUS
  <2>3. \A U, V \in SUBSET Nat : U \subseteq V /\ U # V => <<U, V>> \in R
    BY DEF R, StrictSubsetOrdering
  <2>4. <<1..j, 1..k>> \in R
    BY <2>1, <2>2, <2>3
  <2>5. 1..j \in T
    OBVIOUS
  <2> HIDE DEF T
  <2> QED
    BY <1>4, <1>5, <2>4, <2>5
<1> QED
  BY <1>6

\* What holds of 0 and passes to the next holds of every number.
LEMMA FromZeroOn ==
    ASSUME NEW S \in SUBSET Nat, 0 \in S, \A n \in S : n + 1 \in S
    PROVE  S = Nat
<1>1. SUFFICES ASSUME Nat \ S # {} PROVE FALSE
  OBVIOUS
<1>2. PICK k \in Nat \ S : \A j \in Nat \ S : k <= j
  BY <1>1, Least
<1>3. k # 0 /\ k - 1 \in Nat /\ k - 1 \notin S
  BY <1>2
<1> QED
  BY <1>2, <1>3

IsRun(g, N, s0, step) == \A n \in 0..N : g[n] = IF n = 0 THEN s0 ELSE step[n][g[n - 1]]

\* The states a step function goes through exist.
LEMMA Runs ==
    ASSUME NEW S, NEW s0 \in S, NEW step \in [Nat -> [S -> S]], NEW N \in Nat
    PROVE  \E g \in [0..N -> S] : IsRun(g, N, s0, step)
<1> DEFINE Run(g, n) == /\ g \in [0..n -> S] /\ g[0] = s0
                        /\ \A i \in 0..n : i # n => g[i + 1] = step[i + 1][g[i]]
           Long == {n \in Nat : \E g : Run(g, n)}
<1>1. 0 \in Long
  <2>1. Run([i \in 0..0 |-> s0], 0)
    OBVIOUS
  <2> QED
    BY <2>1
<1>2. ASSUME NEW n \in Long PROVE n + 1 \in Long
  <2>1. PICK g : Run(g, n)
    OBVIOUS
  <2> DEFINE e == [i \in 0..n + 1 |-> IF i = n + 1 THEN step[n + 1][g[n]] ELSE g[i]]
  <2>2. n \in Nat /\ n \in 0..n /\ \A i \in 0..n + 1 : i = n + 1 \/ i \in 0..n
    OBVIOUS
  <2>3. g[n] \in S /\ step[n + 1] \in [S -> S]
    BY <2>1, <2>2
  <2>4. e \in [0..n + 1 -> S]
    BY <2>1, <2>2, <2>3
  <2>5. e[0] = s0
    BY <2>1, <2>2
  <2>6. ASSUME NEW i \in 0..n + 1, i # n + 1 PROVE e[i + 1] = step[i + 1][e[i]]
    <3>1. i \in 0..n /\ i + 1 \in 0..n + 1
      BY <2>2, <2>6
    <3>2. CASE i = n
      BY <2>2, <3>1, <3>2
    <3>3. CASE i # n
      <4>1. i + 1 \in 0..n /\ i + 1 # n + 1 /\ i # n + 1
        BY <3>1, <3>3
      <4> QED
        BY <2>1, <3>1, <3>3, <4>1
    <3> QED
      BY <3>2, <3>3
  <2> HIDE DEF e
  <2>7. Run(e, n + 1)
    BY <2>4, <2>5, <2>6
  <2> QED
    BY <2>2, <2>7
<1>3. PICK g : Run(g, N)
  <2> HIDE DEF Long
  <2>1. Long \in SUBSET Nat
    BY DEF Long
  <2>2. N \in Long
    BY <1>1, <1>2, <2>1, FromZeroOn
  <2> QED
    BY <2>2 DEF Long
<1>4. ASSUME NEW n \in 0..N PROVE g[n] = IF n = 0 THEN s0 ELSE step[n][g[n - 1]]
  <2>1. CASE n = 0
    BY <1>3, <2>1
  <2>2. CASE n # 0
    <3>1. n - 1 \in 0..N /\ n - 1 # N /\ (n - 1) + 1 = n
      BY <2>2
    <3>2. g[(n - 1) + 1] = step[(n - 1) + 1][g[n - 1]]
      BY <1>3, <3>1
    <3> QED
      BY <2>2, <3>1, <3>2
  <2> QED
    BY <2>1, <2>2
<1> QED
  BY <1>3, <1>4 DEF IsRun

\* What holds at the start of a run and is passed on holds along it.
LEMMA Along ==
    ASSUME NEW S, NEW N \in Nat, NEW f, f[0] \in S, \A n \in 1..N : f[n - 1] \in S => f[n] \in S
    PROVE  f[N] \in S
<1> DEFINE Good == {n \in Nat : n \in 0..N => f[n] \in S}
<1>1. 0 \in Good
  OBVIOUS
<1>2. ASSUME NEW n \in Good PROVE n + 1 \in Good
  <2>1. SUFFICES ASSUME n + 1 \in 0..N PROVE f[n + 1] \in S
    OBVIOUS
  <2>2. n \in 0..N /\ n + 1 \in 1..N /\ (n + 1) - 1 = n
    BY <2>1
  <2>3. f[n] \in S
    BY <2>2
  <2>4. f[(n + 1) - 1] \in S => f[n + 1] \in S
    BY <2>2
  <2> QED
    BY <2>2, <2>3, <2>4
<1>3. Good \in SUBSET Nat
  OBVIOUS
<1> HIDE DEF Good
<1>4. N \in Good
  BY <1>1, <1>2, <1>3, FromZeroOn
<1> QED
  BY <1>4 DEF Good

-----------------------------------------------------------------------------
(* Only. *)

\* How Only goes through a sequence.
Collects(s, S, f) ==
    /\ f[0] = <<>>
    /\ \A n \in 1..Len(s) : f[n] = IF s[n] \in S THEN Append(f[n - 1], s[n]) ELSE f[n - 1]

LEMMA OnlyRun ==
    ASSUME NEW s, Len(s) \in Nat, NEW S
    PROVE  \E f : Collects(s, S, f) /\ Only(s, S) = f[Len(s)]
<1> DEFINE N == Len(s)
           There == {x \in S : \E i \in 1..N : x = s[i]}
           R == Seq(There)
           next(u, n) == IF s[n] \in S THEN Append(u, s[n]) ELSE u
           step == [n \in Nat |-> [u \in R |-> IF n \in 1..N THEN next(u, n) ELSE u]]
<1>1. ASSUME NEW n \in 1..N, NEW u \in R PROVE next(u, n) \in R
  OBVIOUS
<1>2. step \in [Nat -> [R -> R]]
  BY <1>1
<1>3. <<>> \in R
  OBVIOUS
<1>4. PICK g \in [0..N -> R] : IsRun(g, N, <<>>, step)
  <2>1. N \in Nat
    OBVIOUS
  <2> HIDE DEF N, R, step
  <2> QED
    BY <1>2, <1>3, <2>1, Runs
<1>5. g = [n \in 0..N |-> IF n = 0 THEN <<>> ELSE next(g[n - 1], n)]
  <2>1. ASSUME NEW n \in 0..N, n # 0 PROVE step[n][g[n - 1]] = next(g[n - 1], n)
    <3>1. n - 1 \in 0..N /\ n \in 1..N /\ n \in Nat
      BY <2>1
    <3>2. g[n - 1] \in R
      BY <1>4, <3>1
    <3> QED
      BY <3>1, <3>2
  <2>2. \A n \in 0..N : g[n] = IF n = 0 THEN <<>> ELSE next(g[n - 1], n)
    <3> HIDE DEF step, next
    <3> QED
      BY <1>4, <2>1 DEF IsRun
  <2> HIDE DEF step, next
  <2> QED
    BY <1>4, <2>2
<1> DEFINE Same(f) == f = [n \in 0..N |-> IF n = 0 THEN <<>> ELSE next(f[n - 1], n)]
           f == CHOOSE f : Same(f)
<1>6. Same(f)
  BY <1>5
<1>7. Only(s, S) = f[N]
  BY DEF Only
<1> HIDE DEF f
<1>8. f[0] = <<>>
  BY <1>6
<1>9. ASSUME NEW n \in 1..N PROVE f[n] = next(f[n - 1], n)
  <2>1. n \in 0..N /\ n # 0
    OBVIOUS
  <2> HIDE DEF next
  <2> QED
    BY <1>6, <2>1
<1> QED
  BY <1>7, <1>8, <1>9 DEF Collects

\* What it has collected after n members.
Gathered(s, S, n, u) ==
    u \in Seq({x \in S : \E i \in 1..n : x = s[i]}) /\ Len(u) <= n

LEMMA GathersOn ==
    ASSUME NEW s, NEW S, NEW m \in Nat, NEW u, Gathered(s, S, m, u), NEW j, j = m + 1
    PROVE  Gathered(s, S, j, IF s[j] \in S THEN Append(u, s[j]) ELSE u)
<1> DEFINE x == s[j]
           T == {y \in S : \E i \in 1..j : y = s[i]}
<1>1. u \in Seq({y \in S : \E i \in 1..m : y = s[i]}) /\ Len(u) <= m
  BY DEF Gathered
<1>2. 1..m \subseteq 1..j /\ j \in 1..j
  OBVIOUS
<1>3. u \in Seq(T) /\ Len(u) \in Nat
  <2>1. {y \in S : \E i \in 1..m : y = s[i]} \subseteq T
    BY <1>2
  <2> HIDE DEF T
  <2> QED
    BY <1>1, <2>1, SeqMonotonic, LenProperties
<1>4. CASE x \in S
  <2> DEFINE g == Append(u, x)
  <2>1. x \in T
    BY <1>2, <1>4
  <2>2. g \in Seq(T) /\ Len(g) = Len(u) + 1 /\ g[Len(u) + 1] = x /\ \A k \in 1..Len(u) : g[k] = u[k]
    <3> HIDE DEF T, x
    <3> QED
      BY <1>3, <2>1, AppendProperties
  <2>3. Len(g) <= j
    BY <1>1, <1>3, <2>2
  <2> HIDE DEF g
  <2>4. Gathered(s, S, j, g)
    BY <2>2, <2>3 DEF Gathered
  <2> QED
    BY <1>4, <2>4 DEF g
<1>5. CASE x \notin S
  <2>1. Len(u) <= j
    BY <1>1, <1>3
  <2>2. Gathered(s, S, j, u)
    BY <1>3, <2>1 DEF Gathered
  <2> QED
    BY <1>5, <2>2
<1> QED
  BY <1>4, <1>5

LEMMA Collected ==
    ASSUME NEW s, Len(s) \in Nat, NEW S, NEW f, Collects(s, S, f), NEW n \in 0..Len(s)
    PROVE  Gathered(s, S, n, f[n])
<1> DEFINE Good == {m \in Nat : m \in 0..Len(s) => Gathered(s, S, m, f[m])}
<1>1. 0 \in Good
  <2>1. Gathered(s, S, 0, <<>>)
    BY DEF Gathered
  <2>2. f[0] = <<>>
    BY DEF Collects
  <2> QED
    BY <2>1, <2>2
<1>2. ASSUME NEW m \in Good PROVE m + 1 \in Good
  <2>1. SUFFICES ASSUME m + 1 \in 0..Len(s) PROVE Gathered(s, S, m + 1, f[m + 1])
    BY DEF Good
  <2> DEFINE j == m + 1
  <2>2. m \in Nat /\ Gathered(s, S, m, f[m]) /\ j \in 1..Len(s) /\ j - 1 = m
    BY <2>1
  <2>3. j = m + 1
    OBVIOUS
  <2> HIDE DEF j, Good
  <2>4. f[j] = IF s[j] \in S THEN Append(f[m], s[j]) ELSE f[m]
    BY <2>2 DEF Collects
  <2>5. Gathered(s, S, j, f[j])
    BY <2>2, <2>3, <2>4, GathersOn
  <2> QED
    BY <2>5 DEF j
<1>3. Good \in SUBSET Nat
  OBVIOUS
<1> HIDE DEF Good
<1>4. n \in Good
  <2>1. n \in Nat
    OBVIOUS
  <2> QED
    BY <1>1, <1>2, <1>3, <2>1, FromZeroOn
<1> QED
  BY <1>4 DEF Good

LEMMA OnlyIn ==
    ASSUME NEW s, Len(s) \in Nat, NEW S
    PROVE  /\ Only(s, S) \in Seq(S)
           /\ Len(Only(s, S)) \in Nat /\ Len(Only(s, S)) <= Len(s) /\ DOMAIN Only(s, S) = 1..Len(Only(s, S))
           /\ \A k \in 1..Len(Only(s, S)) : Only(s, S)[k] \in S /\ \E i \in 1..Len(s) : Only(s, S)[k] = s[i]
<1>1. PICK f : Collects(s, S, f) /\ Only(s, S) = f[Len(s)]
  BY OnlyRun
<1> DEFINE There == {x \in S : \E i \in 1..Len(s) : x = s[i]}
           o == Only(s, S)
<1>2. o \in Seq(There) /\ Len(o) <= Len(s)
  <2>1. Len(s) \in 0..Len(s)
    OBVIOUS
  <2> QED
    BY <1>1, <2>1, Collected DEF Gathered
<1> HIDE DEF o
<1>3. Len(o) \in Nat /\ DOMAIN o = 1..Len(o) /\ \A k \in 1..Len(o) : o[k] \in There
  BY <1>2
<1>4. o \in Seq(S)
  BY <1>2
<1> QED
  BY <1>2, <1>3, <1>4 DEF o

\* Each of them comes from a place of its own.
Placed(s, n, u) ==
    /\ \E U : u \in Seq(U)
    /\ \E pos \in [1..Len(u) -> 1..n] :
          /\ \A k \in 1..Len(u) : u[k] = s[pos[k]]
          /\ \A j, k \in 1..Len(u) : j # k => pos[j] # pos[k]

LEMMA PlacedOn ==
    ASSUME NEW s, NEW S, NEW m \in Nat, NEW u, Placed(s, m, u), NEW j, j = m + 1
    PROVE  Placed(s, j, IF s[j] \in S THEN Append(u, s[j]) ELSE u)
<1> DEFINE x == s[j]
           g == Append(u, x)
<1>1. PICK U : u \in Seq(U)
  BY DEF Placed
<1>2. PICK pos \in [1..Len(u) -> 1..m] :
         /\ \A k \in 1..Len(u) : u[k] = s[pos[k]]
         /\ \A i, k \in 1..Len(u) : i # k => pos[i] # pos[k]
  BY DEF Placed
<1>3. /\ g \in Seq(U \cup {x}) /\ Len(g) = Len(u) + 1 /\ Len(u) \in Nat /\ g[Len(u) + 1] = x
      /\ \A k \in 1..Len(u) : g[k] = u[k]
  <2>1. u \in Seq(U \cup {x}) /\ x \in U \cup {x}
    BY <1>1, SeqMonotonic
  <2> HIDE DEF x
  <2> QED
    BY <2>1, AppendProperties, LenProperties
<1> DEFINE e == [k \in 1..Len(g) |-> IF k = Len(u) + 1 THEN j ELSE pos[k]]
<1> HIDE DEF g
<1>4. e \in [1..Len(g) -> 1..j]
  BY <1>2, <1>3
<1>5. \A k \in 1..Len(g) : k = Len(u) + 1 \/ k \in 1..Len(u)
  BY <1>3
<1>6. \A k \in 1..Len(g) : g[k] = s[e[k]]
  BY <1>2, <1>3, <1>5
<1>7. ASSUME NEW i \in 1..Len(g), NEW k \in 1..Len(g), i # k PROVE e[i] # e[k]
  <2>1. \A l \in 1..Len(u) : e[l] = pos[l] /\ pos[l] \in 1..m /\ pos[l] # j
    BY <1>2, <1>3
  <2>2. e[Len(u) + 1] = j
    BY <1>3
  <2> HIDE DEF e
  <2> QED
    BY <1>2, <1>5, <1>7, <2>1, <2>2
<1> HIDE DEF e
<1>8. Placed(s, j, g)
  BY <1>3, <1>4, <1>6, <1>7 DEF Placed
<1>9. Placed(s, j, u)
  <2>1. pos \in [1..Len(u) -> 1..j]
    BY <1>2
  <2> QED
    BY <1>1, <1>2, <2>1 DEF Placed
<1> QED
  BY <1>8, <1>9 DEF g

LEMMA OnlyPlaced ==
    ASSUME NEW s, Len(s) \in Nat, NEW S
    PROVE  Placed(s, Len(s), Only(s, S))
<1>1. PICK f : Collects(s, S, f) /\ Only(s, S) = f[Len(s)]
  BY OnlyRun
<1> DEFINE Good == {m \in Nat : m \in 0..Len(s) => Placed(s, m, f[m])}
<1>2. 0 \in Good
  <2>1. Placed(s, 0, <<>>)
    <3>1. <<>> \in Seq({}) /\ Len(<<>>) = 0
      OBVIOUS
    <3>2. [k \in 1..Len(<<>>) |-> k] \in [1..Len(<<>>) -> 1..0]
      BY <3>1
    <3>3. \A k : k \notin 1..Len(<<>>)
      BY <3>1
    <3> QED
      BY <3>1, <3>2, <3>3 DEF Placed
  <2>2. f[0] = <<>>
    BY <1>1 DEF Collects
  <2> QED
    BY <2>1, <2>2
<1>3. ASSUME NEW m \in Good PROVE m + 1 \in Good
  <2>1. SUFFICES ASSUME m + 1 \in 0..Len(s) PROVE Placed(s, m + 1, f[m + 1])
    BY DEF Good
  <2> DEFINE j == m + 1
  <2>2. m \in Nat /\ Placed(s, m, f[m]) /\ j \in 1..Len(s) /\ j - 1 = m
    BY <2>1
  <2>3. j = m + 1
    OBVIOUS
  <2> HIDE DEF j, Good
  <2>4. f[j] = IF s[j] \in S THEN Append(f[m], s[j]) ELSE f[m]
    BY <1>1, <2>2 DEF Collects
  <2>5. Placed(s, j, f[j])
    BY <2>2, <2>3, <2>4, PlacedOn
  <2> QED
    BY <2>5 DEF j
<1>4. Good \in SUBSET Nat
  OBVIOUS
<1> HIDE DEF Good
<1>5. Len(s) \in Good
  BY <1>2, <1>3, <1>4, FromZeroOn
<1>6. Len(s) \in 0..Len(s)
  OBVIOUS
<1> QED
  BY <1>1, <1>5, <1>6 DEF Good

-----------------------------------------------------------------------------
(* Cells and distances. *)

Byte == 0..255
Value == Byte \X Byte
Place == Int \X Int \X Int

LEMMA ValueIs == \A v \in Value : v # Absent
<1> SUFFICES ASSUME NEW a \in Byte, NEW b \in Byte PROVE <<a, b>> # <<>>
  BY DEF Value, Absent
<1> QED
  OBVIOUS

LEMMA Sizes ==
    /\ {Width, Height, Depth, Radius, Extent} \subseteq Nat \ {0}
    /\ {MaxDepth, ChainReach, MaxVisits, Cap} \subseteq Nat
    /\ Extent <= ChainReach
    /\ explode_reach \in Nat /\ burn_reach \in Nat /\ FillsInReach \in Nat
    /\ FillsInReach + Extent = burn_reach /\ explode_reach <= FillsInReach
<1>1. Radius \in Nat /\ MaxDepth + 1 \in Nat /\ ChainReach \in Nat /\ Extent \in Nat /\ Extent <= ChainReach
  BY BurnAssumption
<1>2. Radius * (MaxDepth + 1) \in Nat
  BY <1>1
<1> QED
  BY <1>1, <1>2, BurnAssumption DEF explode_reach, burn_reach, FillsInReach

LEMMA CellsArePlaces ==
    /\ Cells \subseteq Place
    /\ \A c \in Place : c \in Cells <=> c[1] \in 0..Width - 1 /\ c[2] \in 0..Height - 1 /\ c[3] \in 0..Depth - 1
<1>1. Width \in Nat /\ Height \in Nat /\ Depth \in Nat
  BY Sizes
<1> QED
  BY <1>1 DEF Cells, Place

LEMMA CellsAreFinite == IsFiniteSet(Cells)
<1> DEFINE A == 0..Width - 1
           B == 0..Height - 1
           C == 0..Depth - 1
           P == (A \X B) \X C
           f == [p \in P |-> <<p[1][1], p[1][2], p[2]>>]
<1>1. IsFiniteSet(A) /\ IsFiniteSet(B) /\ IsFiniteSet(C)
  <2>1. 0 \in Int /\ Width - 1 \in Int /\ Height - 1 \in Int /\ Depth - 1 \in Int
    BY Sizes
  <2> QED
    BY <2>1, FS_Interval
<1> HIDE DEF A, B, C
<1>2. IsFiniteSet(P)
  BY <1>1, FS_Product
<1>3. f \in Surjection(P, A \X B \X C)
  <2>1. f \in [P -> A \X B \X C]
    OBVIOUS
  <2>2. ASSUME NEW c \in A \X B \X C PROVE \E p \in P : f[p] = c
    <3>1. <<<<c[1], c[2]>>, c[3]>> \in P /\ f[<<<<c[1], c[2]>>, c[3]>>] = c
      OBVIOUS
    <3> QED
      BY <3>1
  <2> HIDE DEF f, P
  <2> QED
    BY <2>1, <2>2, Fun_IsSurj
<1> HIDE DEF f, P
<1>4. IsFiniteSet(A \X B \X C)
  BY <1>2, <1>3, FS_Surjection
<1> QED
  BY <1>4 DEF A, B, C, Cells

LEMMA FarIs ==
    ASSUME NEW c \in Place, NEW d \in Place
    PROVE  /\ Far(c, d) \in Nat
           /\ \A n \in Int : Far(c, d) <= n <=> \A i \in 1..3 : c[i] - d[i] \in -n..n
<1> DEFINE a == Abs(c[1] - d[1])
           b == Abs(c[2] - d[2])
           e == Abs(c[3] - d[3])
           m == Max({a, b, e})
<1>1. a \in Nat /\ b \in Nat /\ e \in Nat
  BY DEF Place, Abs
<1>2. \A n \in Int : /\ a <= n <=> c[1] - d[1] \in -n..n
                     /\ b <= n <=> c[2] - d[2] \in -n..n
                     /\ e <= n <=> c[3] - d[3] \in -n..n
  BY DEF Place, Abs
<1> HIDE DEF a, b, e
<1>3. m \in {a, b, e} /\ \A x \in {a, b, e} : m >= x
  <2>1. \E x \in {a, b, e} : \A y \in {a, b, e} : x >= y
    BY <1>1
  <2> QED
    BY <2>1 DEF Max
<1> HIDE DEF m
<1>4. m \in Nat /\ \A n \in Int : m <= n <=> a <= n /\ b <= n /\ e <= n
  BY <1>1, <1>3
<1>5. Far(c, d) = m
  BY DEF m, a, b, e, Far
<1>6. 1..3 = {1, 2, 3}
  OBVIOUS
<1> QED
  BY <1>2, <1>4, <1>5, <1>6

LEMMA Natural ==
    ASSUME NEW y \in Nat
    PROVE  baseType(y) \in Byte /\ ~is_expansion(baseType(y))
<1>1. Len(Terrain) \in Nat /\ DOMAIN Terrain = 1..Len(Terrain) /\ \A i \in 1..Len(Terrain) : Terrain[i] \in Byte
  <2>1. Terrain \in Seq(Byte)
    BY TerrainAssumption DEF Byte
  <2> QED
    BY <2>1
<1>2. CASE y < Len(Terrain)
  <2>1. y + 1 \in 1..Len(Terrain)
    BY <1>1, <1>2
  <2>2. ~is_expansion(Terrain[y + 1])
    BY <1>1, <2>1, TerrainAssumption DEF is_flammable
  <2> QED
    BY <1>1, <1>2, <2>1, <2>2 DEF baseType
<1>3. CASE ~(y < Len(Terrain))
  BY <1>3 DEF baseType, Byte, Air, is_expansion
<1> QED
  BY <1>2, <1>3

-----------------------------------------------------------------------------
(* Writes and the cap. *)

LEMMA StoredIsFinite ==
    ASSUME NEW w \in [Cells -> Content]
    PROVE  Stored(w) \subseteq Cells /\ IsFiniteSet(Stored(w)) /\ Cardinality(Stored(w)) \in Nat
<1>1. Stored(w) \subseteq Cells
  BY DEF Stored
<1> QED
  BY <1>1, CellsAreFinite, FS_Subset, FS_CardinalityType

\* The last of a set of places in a sequence.
LEMMA Latest ==
    ASSUME NEW n \in Nat, NEW I \in SUBSET (1..n), I # {}
    PROVE  \E m \in I : \A i \in I : i <= m
<1> DEFINE S == {k \in Nat : \E i \in I : k = n - i}
<1>1. S # {} /\ S \in SUBSET Nat
  <2>1. PICK i \in I : TRUE
    OBVIOUS
  <2>2. n - i \in S
    OBVIOUS
  <2> QED
    BY <2>2
<1>2. PICK k \in S : \A j \in S : k <= j
  <2> HIDE DEF S
  <2> QED
    BY <1>1, Least
<1>3. PICK m \in I : k = n - m
  OBVIOUS
<1>4. ASSUME NEW i \in I PROVE i <= m
  <2>1. n - i \in S
    OBVIOUS
  <2> QED
    BY <1>2, <1>3, <2>1
<1> QED
  BY <1>3, <1>4

\* However long the batch, the world keeps to its cap, or to what it held above it.
LEMMA AcceptedFits ==
    ASSUME NEW w \in [Cells -> Content], NEW s \in Seq(Cells),
           NEW lim \in Nat, Cap <= lim, Cardinality(Stored(w)) <= lim
    PROVE  /\ Accepted(w, s) \subseteq {s[i] : i \in DOMAIN s}
           /\ Cardinality(Stored(w) \cup Accepted(w, s)) <= lim
<1> DEFINE new == {c \in ToSet(s) : Get(w, c) = Absent}
           room == Cap - Cardinality(Stored(w))
           upTo(i) == {s[j] : j \in 1..i} \cap new
           A == Accepted(w, s)
           St == Stored(w)
<1>1. /\ A = {s[i] : i \in {i \in DOMAIN s : \/ Cardinality(new) <= room
                                             \/ s[i] \notin new
                                             \/ Cardinality(upTo(i)) <= room}}
      /\ A \subseteq {s[i] : i \in DOMAIN s}
  BY DEF Accepted
<1>2. DOMAIN s = 1..Len(s) /\ Len(s) \in Nat /\ ToSet(s) = {s[i] : i \in DOMAIN s} /\ ToSet(s) \subseteq Cells
  BY DEF ToSet
<1>3. IsFiniteSet(St) /\ Cardinality(St) \in Nat /\ St \subseteq Cells
  BY StoredIsFinite
<1>4. Cap \in Nat /\ room \in Int
  BY <1>3, Sizes
<1>5. \A c \in A : c \in St \/ c \in new
  <2>1. \A c \in Cells : Get(w, c) # Absent => c \in Stored(w)
    BY DEF Get, Stored
  <2>2. A \subseteq ToSet(s)
    BY <1>1, <1>2
  <2> HIDE DEF A
  <2> QED
    BY <1>2, <2>1, <2>2
<1>6. new \subseteq Cells
  BY <1>2
<1>7. \A X \in SUBSET new : IsFiniteSet(X) /\ Cardinality(X) \in Nat
  <2> HIDE DEF new
  <2> QED
    BY <1>6, CellsAreFinite, FS_Subset, FS_CardinalityType
<1> HIDE DEF A, new, room, St
\* All of A that is new lies in a part X of the new cells for which there is room.
<1>8. ASSUME NEW X \in SUBSET new, Cardinality(X) <= room, \A c \in A : c \in new => c \in X
      PROVE  Cardinality(St \cup A) <= lim
  <2>1. St \cup A \subseteq St \cup X
    BY <1>5, <1>8
  <2>2. IsFiniteSet(X) /\ Cardinality(X) \in Nat
    BY <1>7
  <2>3. IsFiniteSet(St \cup X) /\ Cardinality(St \cup X) = Cardinality(St) + Cardinality(X) - Cardinality(St \cap X)
    BY <1>3, <2>2, FS_Union
  <2>4. Cardinality(St \cap X) \in Nat
    BY <1>3, FS_Intersection, FS_CardinalityType
  <2>5. Cardinality(St \cup A) <= Cardinality(St \cup X) /\ Cardinality(St \cup A) \in Nat
    BY <2>1, <2>3, FS_Subset, FS_CardinalityType
  <2>6. Cardinality(St \cup X) <= Cap
    BY <1>3, <1>4, <1>8, <2>2, <2>3, <2>4 DEF room, St
  <2>7. Cardinality(St \cup X) \in Nat
    BY <2>3, FS_CardinalityType
  <2> QED
    BY <1>4, <2>5, <2>6, <2>7
<1>0. SUFFICES Cardinality(St \cup A) <= lim
  BY <1>1 DEF A, St
<1>9. CASE Cardinality(new) <= room
  BY <1>8, <1>9
<1>10. CASE ~(Cardinality(new) <= room)
  <2> DEFINE I == {i \in DOMAIN s : s[i] \in new /\ Cardinality(upTo(i)) <= room}
  <2>1. \A c \in A : c \in new => \E i \in I : c = s[i]
    BY <1>1, <1>10
  <2>2. CASE I = {}
    <3>1. A \subseteq St
      BY <1>5, <2>1, <2>2
    <3>2. St \cup A = St
      BY <3>1
    <3> QED
      BY <3>2 DEF St
  <2>3. CASE I # {}
    <3>1. I \in SUBSET (1..Len(s))
      BY <1>2
    <3>2. PICK m \in I : \A i \in I : i <= m
      <4> HIDE DEF I
      <4> QED
        BY <1>2, <2>3, <3>1, Latest
    <3>3. \A i \in I : s[i] \in upTo(m)
      <4>1. \A i \in I : i \in 1..m /\ s[i] \in new
        BY <1>2, <3>1, <3>2
      <4> QED
        BY <4>1
    <3>4. upTo(m) \in SUBSET new /\ Cardinality(upTo(m)) <= room
      BY <3>2
    <3> HIDE DEF upTo, I
    <3> QED
      BY <1>8, <2>1, <3>3, <3>4
  <2> QED
    BY <2>2, <2>3
<1> QED
  BY <1>9, <1>10

-----------------------------------------------------------------------------
(* What a simulation carries, when it is no dry run.  A burn b is the world w0 it begins  *)
(* with; its root and its budget max; prot, what it may not touch; least, what stays     *)
(* stored; and lim, the cap, or what the world held above it.                            *)

Reached(root, n) == {c \in Cells : Far(c, root) <= n}
Open(b) == Reached(b.root, burn_reach) \ b.prot
Entries(b) == [at : Reached(b.root, FillsInReach) \ b.prot, type : 81..111]
Worldly(b) == {w \in [Cells -> Content] : Cardinality(Stored(w)) <= b.lim /\ b.least \subseteq Stored(w)}

Given(b) ==
    /\ b.w0 \in Worldly(b) /\ b.root \in Place /\ b.max \in Nat
    /\ b.lim \in Nat /\ Cap <= b.lim

Fields(b) ==
    [w : Worldly(b), root : {b.root}, max : {b.max}, prot : {b.prot}, dry : {FALSE},
     refused : Int, truncated : Int, explosions : Nat, expansions : Nat, visits : Nat,
     hits : SUBSET Place, written : SUBSET Open(b), aired : SUBSET Cells,
     queue : Seq(Entries(b)), lit : SUBSET Place, firing : Place \cup {Absent}, refire : BOOLEAN]

\* What it has not written is what was there.
Burning(b) ==
    {r \in Fields(b) : r.aired \subseteq r.written /\ \A c \in Cells \ r.written : r.w[c] = b.w0[c]}

\* Two results that differ in what was written or lit at most.
SameCounts(q, r) == q.visits = r.visits /\ q.explosions = r.explosions

\* What is written is open to it.
LEMMA WriteKeeps ==
    ASSUME NEW b, Given(b),
           NEW r \in Burning(b),
           NEW s, Len(s) \in Nat, NEW val,
           \A i \in 1..Len(s) : s[i] \in Cells => s[i] \in Open(b) /\ val[s[i]] \in Value
    PROVE  /\ Write(r, s, val) \in Burning(b)
           /\ SameCounts(Write(r, s, val), r) /\ Write(r, s, val).firing = r.firing
           /\ \A c \in Cells : (\A i \in 1..Len(s) : s[i] # c) => Write(r, s, val).w[c] = r.w[c]
<1> DEFINE inside == Only(s, Cells)
           taken == Accepted(r.w, inside)
           after == [c \in Cells \cup taken |-> IF c \in taken THEN val[c] ELSE r.w[c]]
           q == Wrote(r, inside, taken, val)
<1>1. r \in Fields(b) /\ r.aired \subseteq r.written /\ \A c \in Cells \ r.written : r.w[c] = b.w0[c]
  BY DEF Burning
<1>2. /\ r.w \in [Cells -> Content] /\ Cardinality(Stored(r.w)) <= b.lim /\ b.least \subseteq Stored(r.w) /\ r.dry = FALSE /\ DOMAIN r.w = Cells
      /\ r.refused \in Int /\ r.written \subseteq Open(b) /\ r.aired \subseteq Cells
  BY <1>1 DEF Fields, Worldly
<1>3. inside \in Seq(Cells) /\ \A k \in 1..Len(inside) : \E i \in 1..Len(s) : inside[k] = s[i]
  BY OnlyIn
<1>4. Len(inside) \in Nat /\ DOMAIN inside = 1..Len(inside) /\ \A k \in 1..Len(inside) : inside[k] \in Cells
  BY <1>3
<1> HIDE DEF inside
<1>5. taken \subseteq {inside[i] : i \in DOMAIN inside} /\ Cardinality(Stored(r.w) \cup taken) <= b.lim
  BY <1>2, <1>3, AcceptedFits DEF Given
<1>6. \A c \in taken : c \in Cells /\ c \in Open(b) /\ val[c] \in Value
  <2> HIDE DEF taken
  <2>1. ASSUME NEW c \in taken PROVE c \in Cells /\ c \in Open(b) /\ val[c] \in Value
    <3>1. PICK k \in 1..Len(inside) : c = inside[k]
      BY <1>4, <1>5
    <3>2. PICK i \in 1..Len(s) : c = s[i]
      BY <1>3, <3>1
    <3> QED
      BY <1>4, <3>1, <3>2
  <2> QED
    BY <2>1
<1>7. Write(r, s, val) = q
  BY <1>2 DEF Write, inside
<1>8. Len(Only(inside, taken)) \in Nat
  BY <1>4, OnlyIn
<1>9. q = [r EXCEPT !.w = after, !.written = r.written \cup taken,
                    !.aired = r.aired \cup {c \in taken : val[c][1] = Air},
                    !.refused = r.refused + Len(inside) - Len(Only(inside, taken))]
  BY <1>1, <1>2 DEF Wrote, Fields
<1> HIDE DEF taken, q
<1>10. after \in [Cells -> Content]
  BY <1>2, <1>6 DEF Content, Value, Byte
<1>11. Stored(after) \subseteq Stored(r.w) \cup taken
  BY <1>2, <1>6 DEF Stored
<1>12. Cardinality(Stored(after)) <= b.lim
  <2>1. IsFiniteSet(Stored(r.w) \cup taken)
    <3>1. Stored(r.w) \cup taken \subseteq Cells
      BY <1>2, <1>6, StoredIsFinite
    <3> QED
      BY <3>1, CellsAreFinite, FS_Subset
  <2>2. /\ Cardinality(Stored(after)) <= Cardinality(Stored(r.w) \cup taken)
        /\ Cardinality(Stored(after)) \in Nat /\ Cardinality(Stored(r.w) \cup taken) \in Nat
    BY <1>11, <2>1, FS_Subset, FS_CardinalityType
  <2> QED
    BY <1>5, <2>2 DEF Given
<1>13. after \in Worldly(b)
  <2>1. \A v \in Value : v # Absent
    BY ValueIs
  <2>2. DOMAIN after = Cells
    BY <1>10
  <2>3. \A c \in b.least : c \in Cells /\ after[c] # Absent
    <3>1. \A c \in b.least : c \in Cells /\ r.w[c] # Absent
      BY <1>2 DEF Stored
    <3> QED
      BY <1>6, <2>1, <2>2, <3>1
  <2>4. b.least \subseteq Stored(after)
    BY <2>3 DEF Stored
  <2> QED
    BY <1>10, <1>12, <2>4 DEF Worldly
<1>14. r.written \cup taken \subseteq Open(b)
  BY <1>2, <1>6
<1>15. r.aired \cup {c \in taken : val[c][1] = Air} \subseteq r.written \cup taken
  BY <1>1
<1>16. \A c \in Cells \ (r.written \cup taken) : after[c] = b.w0[c]
  BY <1>1
<1>17. r.refused + Len(inside) - Len(Only(inside, taken)) \in Int
  BY <1>2, <1>4, <1>8
<1>18. Open(b) \subseteq Cells
  BY DEF Open, Reached
<1> HIDE DEF after
<1>19. q \in Fields(b)
  BY <1>1, <1>9, <1>13, <1>14, <1>15, <1>17, <1>18 DEF Fields
<1>20. q.w = after /\ q.written = r.written \cup taken /\ q.aired = r.aired \cup {c \in taken : val[c][1] = Air}
  BY <1>1, <1>9 DEF Fields
<1>21. SameCounts(q, r) /\ q.firing = r.firing
  BY <1>1, <1>9 DEF Fields, SameCounts
<1>22. q \in Burning(b)
  BY <1>15, <1>16, <1>19, <1>20 DEF Burning
<1>23. ASSUME NEW c \in Cells, \A i \in 1..Len(s) : s[i] # c PROVE q.w[c] = r.w[c]
  <2>1. c \notin taken
    BY <1>3, <1>4, <1>5, <1>23
  <2> QED
    BY <1>20, <2>1 DEF after
<1> QED
  BY <1>7, <1>21, <1>22, <1>23

-----------------------------------------------------------------------------
(* Lighting. *)

LEMMA FirstsIn ==
    ASSUME NEW s, Len(s) \in Nat
    PROVE  Len(Firsts(s)) \in Nat /\ \A k \in 1..Len(Firsts(s)) : \E i \in 1..Len(s) : Firsts(s)[k] = s[i]
<1> DEFINE all == [i \in 1..Len(s) |-> i]
           S == {i \in 1..Len(s) : \A j \in 1..i - 1 : s[j] # s[i]}
           places == Only(all, S)
<1>1. Len(all) \in Nat
  OBVIOUS
<1>2. Len(places) \in Nat /\ \A k \in 1..Len(places) : places[k] \in S
  <2> HIDE DEF all, S
  <2> QED
    BY <1>1, OnlyIn
<1>3. Firsts(s) = [i \in 1..Len(places) |-> s[places[i]]]
  BY DEF Firsts
<1>4. S \subseteq 1..Len(s)
  OBVIOUS
<1> HIDE DEF places, S
<1>5. Len(places) \in Nat /\ \A i \in 1..Len(places) : places[i] \in 1..Len(s)
  BY <1>2, <1>4
<1> QED
  BY <1>3, <1>5

\* Expansion blocks are lit, and only those the zones leave or have been asked about.
LEMMA LightKeeps ==
    ASSUME NEW b, Given(b), NEW r \in Burning(b), NEW s, Len(s) \in Nat, NEW askZone \in BOOLEAN,
           \A i \in 1..Len(s) : /\ s[i] \in Cells /\ r.w[s[i]][1] \in 81..111
                                /\ ~askZone => s[i] \notin b.prot
    PROVE  /\ light(r, s, askZone) \in Burning(b)
           /\ SameCounts(light(r, s, askZone), r) /\ light(r, s, askZone).firing = r.firing
<1> DEFINE F == ToSet(s) \ (r.lit \cup {r.firing})
           fresh == Only(s, F)
           new == Firsts(fresh)
           A == ToSet(new) \ IF askZone THEN r.prot ELSE {}
           asked == Only(new, A)
           N == {c \in ToSet(asked) : Far(c, r.root) <= FillsInReach}
           near == Only(asked, N)
           more == [i \in 1..Len(near) |-> [at |-> near[i], type |-> r.w[near[i]][1]]]
           q == [r EXCEPT !.refire = @ \/ r.firing \in ToSet(s),
                          !.lit = @ \cup ToSet(new),
                          !.hits = @ \cup (ToSet(new) \ ToSet(asked)),
                          !.truncated = @ + Len(asked) - Len(near),
                          !.queue = @ \o more]
<1>1. r \in Fields(b) /\ r.aired \subseteq r.written /\ \A c \in Cells \ r.written : r.w[c] = b.w0[c]
  BY DEF Burning
<1>2. /\ r.prot = b.prot /\ r.root = b.root /\ r.queue \in Seq(Entries(b)) /\ r.lit \subseteq Place /\ r.hits \subseteq Place
      /\ r.truncated \in Int /\ r.refire \in BOOLEAN
  BY <1>1 DEF Fields
<1>3. Len(fresh) \in Nat /\ \A k \in 1..Len(fresh) : \E i \in 1..Len(s) : fresh[k] = s[i]
  <2> HIDE DEF F
  <2>1. Len(Only(s, F)) \in Nat
    BY OnlyIn
  <2>2. \A k \in 1..Len(Only(s, F)) : \E i \in 1..Len(s) : Only(s, F)[k] = s[i]
    BY OnlyIn
  <2> QED
    BY <2>1, <2>2
<1> HIDE DEF fresh
<1>4. Len(new) \in Nat /\ \A k \in 1..Len(new) : \E i \in 1..Len(fresh) : new[k] = fresh[i]
  BY <1>3, FirstsIn
<1> HIDE DEF new
<1>5. /\ Len(asked) \in Nat
      /\ \A k \in 1..Len(asked) : asked[k] \in A /\ \E i \in 1..Len(new) : asked[k] = new[i]
  <2> HIDE DEF A
  <2> QED
    BY <1>4, OnlyIn
<1>6. \A k \in 1..Len(asked) : askZone => asked[k] \notin r.prot
  BY <1>5
<1> HIDE DEF asked
<1>7. /\ Len(near) \in Nat
      /\ \A k \in 1..Len(near) : near[k] \in N /\ \E i \in 1..Len(asked) : near[k] = asked[i]
  <2> HIDE DEF N
  <2> QED
    BY <1>5, OnlyIn
<1>8. \A k \in 1..Len(near) : Far(near[k], r.root) <= FillsInReach
  BY <1>7
<1> HIDE DEF near
<1>9. \A k \in 1..Len(new) : \E i \in 1..Len(s) : new[k] = s[i]
  BY <1>3, <1>4
<1>10. \A k \in 1..Len(near) : near[k] \in Cells /\ near[k] \notin b.prot /\ r.w[near[k]][1] \in 81..111
  <2>1. TAKE k \in 1..Len(near)
  <2>2. PICK i \in 1..Len(asked) : near[k] = asked[i]
    BY <1>7
  <2>3. PICK j \in 1..Len(s) : asked[i] = s[j]
    BY <1>5, <1>9
  <2> QED
    BY <1>2, <1>6, <2>2, <2>3
<1>11. more \in Seq(Entries(b))
  <2>1. \A k \in 1..Len(near) : [at |-> near[k], type |-> r.w[near[k]][1]] \in Entries(b)
    BY <1>2, <1>8, <1>10 DEF Entries, Reached
  <2> QED
    BY <1>7, <2>1
<1> HIDE DEF more
<1>12. r.queue \o more \in Seq(Entries(b))
  BY <1>2, <1>11
<1>13. ToSet(new) \subseteq Place
  <2>1. ASSUME NEW c \in ToSet(new) PROVE c \in Place
    <3>1. PICK k \in DOMAIN new : c = new[k]
      BY DEF ToSet
    <3>2. DOMAIN new = 1..Len(new)
      BY <1>3 DEF new, Firsts
    <3>3. PICK i \in 1..Len(s) : c = s[i]
      BY <1>9, <3>1, <3>2
    <3> QED
      BY <3>3, CellsArePlaces
  <2> QED
    BY <2>1
<1>14. r.lit \cup ToSet(new) \in SUBSET Place /\ r.hits \cup (ToSet(new) \ ToSet(asked)) \in SUBSET Place
  BY <1>2, <1>13
<1>15. r.truncated + Len(asked) - Len(near) \in Int /\ (r.refire \/ r.firing \in ToSet(s)) \in BOOLEAN
  BY <1>2, <1>5, <1>7
<1>16. light(r, s, askZone) = q
  BY <1>1 DEF light, lightNew, Fields, fresh, new, asked, near, more
<1>17. q \in Fields(b)
  BY <1>1, <1>12, <1>14, <1>15 DEF Fields
<1>18. /\ q.w = r.w /\ q.written = r.written /\ q.aired = r.aired /\ q.firing = r.firing
       /\ q.visits = r.visits /\ q.explosions = r.explosions /\ q.refused = r.refused
  BY <1>1 DEF Fields
<1> HIDE DEF q
<1> QED
  BY <1>1, <1>16, <1>17, <1>18 DEF Burning, SameCounts

LEMMA SumIsPlace ==
    ASSUME NEW c \in Place, NEW o, o[1] \in Int, o[2] \in Int, o[3] \in Int
    PROVE  /\ Sum3(c, o) \in Place
           /\ Sum3(c, o)[1] = c[1] + o[1] /\ Sum3(c, o)[2] = c[2] + o[2] /\ Sum3(c, o)[3] = c[3] + o[3]
BY DEF Sum3, Place

\* A step of at most m in each direction.
LEMMA FartherBy ==
    ASSUME NEW c \in Place, NEW d \in Place, NEW o, NEW m \in Nat, NEW n \in Nat,
           o[1] \in -m..m, o[2] \in -m..m, o[3] \in -m..m, Far(c, d) <= n
    PROVE  Far(Sum3(c, o), d) <= n + m
<1>1. c[1] - d[1] \in -n..n /\ c[2] - d[2] \in -n..n /\ c[3] - d[3] \in -n..n
  <2>1. \A i \in 1..3 : c[i] - d[i] \in -n..n
    BY FarIs
  <2> QED
    BY <2>1
<1>2. c[1] \in Int /\ c[2] \in Int /\ c[3] \in Int /\ d[1] \in Int /\ d[2] \in Int /\ d[3] \in Int
  BY DEF Place
<1> DEFINE e == Sum3(c, o)
<1>3. e \in Place /\ e[1] = c[1] + o[1] /\ e[2] = c[2] + o[2] /\ e[3] = c[3] + o[3]
  BY SumIsPlace
<1> HIDE DEF e
<1>4. e[1] - d[1] \in -(n + m)..n + m /\ e[2] - d[2] \in -(n + m)..n + m /\ e[3] - d[3] \in -(n + m)..n + m
  BY <1>1, <1>2, <1>3
<1>5. \A i \in 1..3 : e[i] - d[i] \in -(n + m)..n + m
  <2>1. 1..3 = {1, 2, 3}
    OBVIOUS
  <2> QED
    BY <1>4, <2>1
<1>6. n + m \in Int
  OBVIOUS
<1> QED
  BY <1>3, <1>5, <1>6, FarIs DEF e

-----------------------------------------------------------------------------
(* Blasts. *)

LEMMA SphereIn ==
    /\ Len(Sphere) \in Nat
    /\ \A i \in 1..Len(Sphere) : Sphere[i] \in (-Radius..Radius) \X (-Radius..Radius) \X (-Radius..Radius)
<1> DEFINE layers == Layers(Radius - 1, Radius)
           half == Only(layers, Ball)
           Cube == (-Radius..Radius) \X (-Radius..Radius) \X (-Radius..Radius)
<1>1. Radius \in Nat /\ Radius - 1 \in Nat
  BY Sizes
<1>2. Len(layers) \in Nat
  <2> DEFINE m == (Radius - 1 + 1) * ((2 * Radius + 1) * (2 * Radius + 1))
  <2>1. m \in Nat
    BY <1>1
  <2> HIDE DEF m
  <2>2. \A f : Len([i \in 1..m |-> f[i]]) = m
    BY <2>1
  <2> QED
    BY <2>1 DEF Layers, m
<1> HIDE DEF layers
<1>3. Len(half) \in Nat /\ \A i \in 1..Len(half) : half[i] \in Ball
  BY <1>2, OnlyIn
<1> HIDE DEF half
<1>4. \A o \in Ball : o \in Cube /\ Mirrored(o) \in Cube
  BY <1>1 DEF Ball, Mirrored
<1>5. Sphere = DownUp(half)
  BY DEF Sphere, half, layers
<1>6. 2 * Len(half) \in Nat /\ \A i \in 1..2 * Len(half) : (i + 1) \div 2 \in 1..Len(half)
  BY <1>3
<1> QED
  BY <1>3, <1>4, <1>5, <1>6 DEF DownUp

LEMMA StoredThere ==
    ASSUME NEW w \in [Cells -> Content], NEW c
    PROVE  /\ Get(w, c) # Absent => c \in Cells /\ w[c] \in Value /\ Get(w, c) = w[c]
           /\ \A types : Has(w, c, types) => c \in Cells /\ w[c] \in Value /\ w[c][1] \in types
BY DEF Get, Has, Content, Value, Byte

LEMMA ClearKeeps ==
    ASSUME NEW b, Given(b), NEW r \in Burning(b), NEW c, c \in Cells => c \in Open(b)
    PROVE  /\ Clear(r, c) \in Burning(b)
           /\ SameCounts(Clear(r, c), r) /\ Clear(r, c).firing = r.firing
<1> DEFINE s == <<c>>
           val == [d \in {c} |-> <<Air, 0>>]
<1>1. Len(s) \in Nat /\ \A i \in 1..Len(s) : s[i] = c
  OBVIOUS
<1>2. val[c] \in Value
  BY DEF Value, Byte, Air
<1> HIDE DEF s, val
<1>3. \A i \in 1..Len(s) : s[i] \in Cells => s[i] \in Open(b) /\ val[s[i]] \in Value
  BY <1>1, <1>2
<1> QED
  BY <1>1, <1>3, WriteKeeps DEF Clear, s, val

\* A blast's cells: places it reaches.
Hits(b, s) ==
    Len(s) \in Nat /\ \A i \in 1..Len(s) : s[i] \in Place /\ Far(s[i], b.root) <= explode_reach

\* The members of s that stand in the world, outside the zones.
Found(b, s, t) ==
    Len(t) \in Nat /\ \A k \in 1..Len(t) : t[k] \in Cells \ b.prot /\ \E i \in 1..Len(s) : t[k] = s[i]

LEMMA HitKeeps ==
    ASSUME NEW b, Given(b), NEW r \in Burning(b), NEW s, Hits(b, s), NEW colour \in Byte,
           \A i \in 1..Len(s) : s[i] \notin b.prot
    PROVE  /\ Hit(r, s, colour)[1] \in Burning(b)
           /\ SameCounts(Hit(r, s, colour)[1], r) /\ Hit(r, s, colour)[1].firing = r.firing
           /\ Found(b, s, Hit(r, s, colour)[2])
<1> DEFINE P == {c \in ToSet(s) : Get(r.w, c) # <<Tnt, 0>>}
           T == ToSet(s) \ Of(r.w, s, {Tnt, Bedrock, Steel, Golden} \cup 81..111)
           E == Of(r.w, s, 81..111)
           X == Of(r.w, s, {Tnt})
           painted == Only(s, P)
           torn == Only(s, T)
           blocks == Only(s, E)
           tnt == Only(s, X)
           stays(c) == IF Get(r.w, c) = Absent THEN PaintedBase ELSE r.w[c][1]
           paint == [c \in ToSet(painted) |-> <<stays(c), colour>>]
           air == [c \in ToSet(torn) |-> <<Air, 0>>]
<1>1. r \in Fields(b) /\ r.w \in [Cells -> Content] /\ r.prot = b.prot
  BY DEF Burning, Fields, Worldly
<1>2. Len(s) \in Nat /\ \A i \in 1..Len(s) : s[i] \in Place /\ Far(s[i], b.root) <= burn_reach
  <2>1. explode_reach \in Nat /\ burn_reach \in Nat /\ explode_reach <= burn_reach
    BY Sizes
  <2>2. Len(s) \in Nat /\ b.root \in Place
    BY DEF Hits, Given
  <2>3. ASSUME NEW i \in 1..Len(s) PROVE s[i] \in Place /\ Far(s[i], b.root) <= burn_reach
    <3>1. s[i] \in Place /\ Far(s[i], b.root) <= explode_reach
      BY DEF Hits
    <3>2. Far(s[i], b.root) \in Nat
      BY <2>2, <3>1, FarIs
    <3> QED
      BY <2>1, <3>1, <3>2
  <2> QED
    BY <2>2, <2>3
<1>3. \A i \in 1..Len(s) : s[i] \in Cells => s[i] \in Open(b)
  BY <1>2 DEF Open, Reached
<1>4. /\ Len(painted) \in Nat /\ DOMAIN painted = 1..Len(painted)
      /\ \A k \in 1..Len(painted) : painted[k] \in P /\ \E i \in 1..Len(s) : painted[k] = s[i]
  <2> HIDE DEF P
  <2> QED
    BY <1>2, OnlyIn
<1>5. /\ Len(torn) \in Nat /\ DOMAIN torn = 1..Len(torn)
      /\ \A k \in 1..Len(torn) : torn[k] \in T /\ \E i \in 1..Len(s) : torn[k] = s[i]
  <2> HIDE DEF T
  <2> QED
    BY <1>2, OnlyIn
<1>6. /\ Len(blocks) \in Nat
      /\ \A k \in 1..Len(blocks) : blocks[k] \in E /\ \E i \in 1..Len(s) : blocks[k] = s[i]
  <2> HIDE DEF E
  <2> QED
    BY <1>2, OnlyIn
<1>7. /\ Len(tnt) \in Nat
      /\ \A k \in 1..Len(tnt) : tnt[k] \in X /\ \E i \in 1..Len(s) : tnt[k] = s[i]
  <2> HIDE DEF X
  <2> QED
    BY <1>2, OnlyIn
<1>8. \A c \in Cells : <<stays(c), colour>> \in Value
  <2>1. TAKE c \in Cells
  <2>2. stays(c) \in Byte
    <3>1. CASE Get(r.w, c) = Absent
      BY <3>1 DEF Byte, PaintedBase
    <3>2. CASE Get(r.w, c) # Absent
      BY <1>1, <3>2, StoredThere DEF Value
    <3> QED
      BY <3>1, <3>2
  <2> HIDE DEF stays
  <2> QED
    BY <2>2 DEF Value
<1>9. \A k \in 1..Len(painted) : painted[k] \in Cells => painted[k] \in Open(b) /\ paint[painted[k]] \in Value
  <2> HIDE DEF stays, painted
  <2>1. \A k \in 1..Len(painted) : painted[k] \in ToSet(painted)
    BY <1>4 DEF ToSet
  <2> QED
    BY <1>3, <1>4, <1>8, <2>1
<1>10. \A k \in 1..Len(torn) : torn[k] \in Cells => torn[k] \in Open(b) /\ air[torn[k]] \in Value
  <2> HIDE DEF torn
  <2>1. \A k \in 1..Len(torn) : torn[k] \in ToSet(torn)
    BY <1>5 DEF ToSet
  <2>2. <<Air, 0>> \in Value
    BY DEF Air, Value, Byte
  <2> QED
    BY <1>3, <1>5, <2>1, <2>2
<1> HIDE DEF painted, torn, blocks, tnt, paint, air, P
<1>11. CASE colour # 0
  <2>1. Hit(r, s, colour) = <<Write(r, painted, paint), <<>>>>
    BY <1>11 DEF Hit, painted, paint, P
  <2>2. Found(b, s, <<>>)
    BY DEF Found
  <2>3. /\ Write(r, painted, paint) \in Burning(b) /\ SameCounts(Write(r, painted, paint), r)
        /\ Write(r, painted, paint).firing = r.firing
    BY <1>4, <1>9, WriteKeeps
  <2> QED
    BY <2>1, <2>2, <2>3
<1>12. CASE colour = 0
  <2> DEFINE q == Write(r, torn, air)
  <2>1. Hit(r, s, colour) = <<light(q, blocks, FALSE), tnt>>
    BY <1>12 DEF Hit, torn, air, blocks, tnt, T, E, X
  <2>2. q \in Burning(b) /\ SameCounts(q, r) /\ q.firing = r.firing
    BY <1>5, <1>10, WriteKeeps
  <2>3. \A k \in 1..Len(blocks) : blocks[k] \in Cells /\ blocks[k] \notin b.prot /\ r.w[blocks[k]][1] \in 81..111
    <3>1. \A k \in 1..Len(blocks) : Has(r.w, blocks[k], 81..111)
      BY <1>6 DEF Of
    <3> QED
      BY <1>1, <1>6, <3>1, StoredThere
  <2>4. ASSUME NEW k \in 1..Len(blocks) PROVE q.w[blocks[k]][1] \in 81..111
    <3>1. ASSUME NEW i \in 1..Len(torn), torn[i] = blocks[k] PROVE FALSE
      <4>1. blocks[k] \in T
        BY <1>5, <3>1
      <4>2. Has(r.w, blocks[k], 81..111) /\ blocks[k] \in ToSet(s)
        BY <1>6 DEF Of
      <4>3. Has(r.w, blocks[k], {Tnt, Bedrock, Steel, Golden} \cup 81..111)
        BY <4>2 DEF Has
      <4> QED
        BY <4>1, <4>2, <4>3 DEF Of
    <3>2. q.w[blocks[k]] = r.w[blocks[k]]
      BY <1>5, <1>10, <2>3, <3>1, WriteKeeps
    <3> QED
      BY <2>3, <3>2
  <2> HIDE DEF q
  <2> DEFINE l == light(q, blocks, FALSE)
  <2>5. l \in Burning(b) /\ SameCounts(l, q) /\ l.firing = q.firing
    BY <1>6, <2>2, <2>3, <2>4, LightKeeps
  <2> HIDE DEF l
  <2>6. Found(b, s, tnt)
    <3>1. \A k \in 1..Len(tnt) : Has(r.w, tnt[k], {Tnt})
      BY <1>7 DEF Of
    <3> QED
      BY <1>1, <1>7, <3>1, StoredThere DEF Found
  <2>7. SameCounts(l, r) /\ l.firing = r.firing
    BY <2>2, <2>5 DEF SameCounts
  <2>8. Hit(r, s, colour)[1] = l /\ Hit(r, s, colour)[2] = tnt
    BY <2>1 DEF l
  <2> QED
    BY <2>5, <2>6, <2>7, <2>8
<1> QED
  BY <1>11, <1>12

LEMMA HitOpenKeeps ==
    ASSUME NEW b, Given(b), NEW r \in Burning(b), NEW s, Hits(b, s), NEW colour \in Byte
    PROVE  /\ HitOpen(r, s, colour)[1] \in Burning(b)
           /\ SameCounts(HitOpen(r, s, colour)[1], r) /\ HitOpen(r, s, colour)[1].firing = r.firing
           /\ Found(b, s, HitOpen(r, s, colour)[2])
<1> DEFINE O == ToSet(s) \ (r.prot \cup Of(r.w, s, {Air}))
           open == Only(s, O)
<1>1. r.prot = b.prot
  BY DEF Burning, Fields
<1>2. Len(open) \in Nat /\ \A k \in 1..Len(open) : open[k] \in O /\ \E i \in 1..Len(s) : open[k] = s[i]
  <2> HIDE DEF O
  <2> QED
    BY OnlyIn DEF Hits
<1>3. \A k \in 1..Len(open) : open[k] \notin b.prot
  BY <1>1, <1>2
<1> HIDE DEF O
<1>4. HitOpen(r, s, colour) = Hit(r, open, colour)
  BY DEF HitOpen, O
<1> HIDE DEF open
<1>5. Hits(b, open)
  BY <1>2 DEF Hits
<1>6. /\ Hit(r, open, colour)[1] \in Burning(b)
      /\ SameCounts(Hit(r, open, colour)[1], r) /\ Hit(r, open, colour)[1].firing = r.firing
      /\ Found(b, open, Hit(r, open, colour)[2])
  BY <1>3, <1>5, HitKeeps
<1>7. \A t : Found(b, open, t) => Found(b, s, t)
  <2>1. ASSUME NEW t, Found(b, open, t), NEW k \in 1..Len(t) PROVE \E i \in 1..Len(s) : t[k] = s[i]
    <3>1. PICK j \in 1..Len(open) : t[k] = open[j]
      BY <2>1 DEF Found
    <3> QED
      BY <1>2, <3>1
  <2> QED
    BY <2>1 DEF Found
<1> QED
  BY <1>4, <1>6, <1>7

\* A block of the chain: how far it is is bounded by how deep in the chain it was found.
Bombs(b) == {n \in [at : Cells \ b.prot, depth : 0..MaxDepth] : Far(n.at, b.root) <= Radius * n.depth}

LEMMA BlastKeeps ==
    ASSUME NEW b, Given(b), NEW r \in Burning(b), NEW n \in Bombs(b)
    PROVE  /\ GoOff(r, n)[1] \in Burning(b) /\ GoOff(r, n)[1].firing = r.firing
           /\ GoOff(r, n)[1].explosions = r.explosions + 1
           /\ GoOff(r, n)[1].visits <= r.visits + explode_visits_per_blast
           /\ Len(GoOff(r, n)[2]) \in Nat
           /\ \A k \in 1..Len(GoOff(r, n)[2]) :
                 /\ GoOff(r, n)[2][k] \in Cells \ b.prot
                 /\ Far(GoOff(r, n)[2][k], b.root) <= Radius * (n.depth + 1)
<1> DEFINE all == [i \in 1..Len(Sphere) |-> Sum3(n.at, Sphere[i])]
           H == InHeight
           s == Only(all, H)
           begun == [r EXCEPT !.explosions = @ + 1, !.visits = @ + 1 + Len(s), !.hits = @ \cup (ToSet(s) \cap r.prot)]
           m == Radius * (n.depth + 1)
           cleared == Clear(begun, n.at)
           colour == IF Get(r.w, n.at) = Absent THEN 0 ELSE r.w[n.at][2]
<1>1. /\ n.at \in Cells \ b.prot /\ n.depth \in Nat /\ n.depth <= MaxDepth /\ Far(n.at, b.root) <= Radius * n.depth
      /\ n.at \in Place
  BY Sizes, CellsArePlaces DEF Bombs
<1>2. Radius * n.depth \in Nat /\ Radius \in Nat /\ m \in Nat /\ Radius * n.depth + Radius = m
  BY <1>1, Sizes
<1>3. m <= explode_reach /\ Radius * n.depth <= explode_reach
  <2>1. Radius * (MaxDepth - n.depth) \in Nat
    BY <1>1, Sizes
  <2>2. Radius * (MaxDepth - n.depth) + m = Radius * (MaxDepth + 1)
    BY <1>1, Sizes
  <2>3. Radius * (MaxDepth + 1) = explode_reach /\ explode_reach \in Nat
    BY Sizes DEF explode_reach
  <2> HIDE DEF m
  <2> QED
    BY <1>2, <2>1, <2>2, <2>3
<1> HIDE DEF m
<1>4. b.root \in Place
  BY DEF Given
<1>5. Len(Sphere) \in Nat /\ Len(all) = Len(Sphere)
  BY SphereIn
<1>6. ASSUME NEW i \in 1..Len(Sphere) PROVE all[i] \in Place /\ Far(all[i], b.root) <= m
  <2>1. Sphere[i][1] \in -Radius..Radius /\ Sphere[i][2] \in -Radius..Radius /\ Sphere[i][3] \in -Radius..Radius
        /\ Sphere[i] \in Place
    BY SphereIn DEF Place
  <2>2. Far(Sum3(n.at, Sphere[i]), b.root) <= Radius * n.depth + Radius
    BY <1>1, <1>2, <1>4, <2>1, FartherBy
  <2>3. Sum3(n.at, Sphere[i]) \in Place
    BY <1>1, <2>1, SumIsPlace
  <2> QED
    BY <1>2, <2>2, <2>3
<1> HIDE DEF all
<1>7. /\ Len(s) \in Nat /\ Len(s) <= Len(Sphere) /\ DOMAIN s = 1..Len(s)
      /\ \A k \in 1..Len(s) : s[k] \in H /\ \E i \in 1..Len(all) : s[k] = all[i]
  <2>1. Len(all) \in Nat
    BY <1>5
  <2> HIDE DEF H
  <2>2. /\ Len(s) \in Nat /\ Len(s) <= Len(all) /\ DOMAIN s = 1..Len(s)
        /\ \A k \in 1..Len(s) : s[k] \in H /\ \E i \in 1..Len(all) : s[k] = all[i]
    BY <2>1, OnlyIn
  <2> HIDE DEF s
  <2> QED
    BY <1>5, <2>2
<1>8. \A k \in 1..Len(s) : s[k] \in Place /\ Far(s[k], b.root) <= m
  BY <1>5, <1>6, <1>7
<1> HIDE DEF s, H
<1>9. Hits(b, s)
  <2>1. ASSUME NEW k \in 1..Len(s) PROVE Far(s[k], b.root) <= explode_reach
    <3>1. Far(s[k], b.root) \in Nat /\ explode_reach \in Nat
      BY <1>4, <1>8, FarIs, Sizes
    <3> QED
      BY <1>2, <1>3, <1>8, <3>1
  <2> QED
    BY <1>7, <1>8, <2>1 DEF Hits
<1>10. begun \in Burning(b) /\ begun.visits = r.visits + 1 + Len(s) /\ begun.explosions = r.explosions + 1
       /\ begun.firing = r.firing /\ r.visits \in Nat /\ r.w \in [Cells -> Content]
  <2>1. r \in Fields(b) /\ r.aired \subseteq r.written /\ \A c \in Cells \ r.written : r.w[c] = b.w0[c]
    BY DEF Burning
  <2>2. r.visits \in Nat /\ r.explosions \in Nat /\ r.hits \subseteq Place /\ r.w \in [Cells -> Content]
    BY <2>1 DEF Fields, Worldly
  <2>3. ToSet(s) \subseteq Place
    BY <1>7, <1>8 DEF ToSet
  <2>4. r.visits + 1 + Len(s) \in Nat /\ r.explosions + 1 \in Nat /\ r.hits \cup (ToSet(s) \cap r.prot) \in SUBSET Place
    BY <1>7, <2>2, <2>3
  <2>5. begun \in Fields(b)
    BY <2>1, <2>4 DEF Fields
  <2>6. /\ begun.w = r.w /\ begun.written = r.written /\ begun.aired = r.aired /\ begun.firing = r.firing
        /\ begun.visits = r.visits + 1 + Len(s) /\ begun.explosions = r.explosions + 1
    BY <2>1 DEF Fields
  <2> HIDE DEF begun
  <2> QED
    BY <2>1, <2>2, <2>5, <2>6 DEF Burning
<1>11. n.at \in Open(b)
  <2>1. Far(n.at, b.root) \in Nat /\ explode_reach \in Nat /\ burn_reach \in Nat /\ explode_reach <= burn_reach
    BY <1>1, <1>4, FarIs, Sizes
  <2>2. Far(n.at, b.root) <= burn_reach
    BY <1>1, <1>2, <1>3, <2>1
  <2> QED
    BY <1>1, <2>2 DEF Open, Reached
<1> HIDE DEF begun
<1>12. cleared \in Burning(b) /\ SameCounts(cleared, begun) /\ cleared.firing = begun.firing
  BY <1>10, <1>11, ClearKeeps
<1>13. colour \in Byte
  <2>1. CASE Get(r.w, n.at) = Absent
    BY <2>1 DEF Byte
  <2>2. CASE Get(r.w, n.at) # Absent
    BY <1>10, <2>2, StoredThere DEF Value
  <2> QED
    BY <2>1, <2>2
<1>14. GoOff(r, n) = HitOpen(cleared, s, colour)
  BY DEF GoOff, cleared, begun, s, H, all, colour
<1> HIDE DEF cleared, colour
<1> DEFINE res == HitOpen(cleared, s, colour)
<1>15. res[1] \in Burning(b) /\ SameCounts(res[1], cleared) /\ res[1].firing = cleared.firing /\ Found(b, s, res[2])
  BY <1>9, <1>12, <1>13, HitOpenKeeps
<1> HIDE DEF res
<1>16. res[1].visits = r.visits + 1 + Len(s) /\ res[1].explosions = r.explosions + 1 /\ res[1].firing = r.firing
  BY <1>10, <1>12, <1>15 DEF SameCounts
<1>17. explode_visits_per_blast = 1 + Len(Sphere)
  BY DEF explode_visits_per_blast
<1>18. res[1].visits <= r.visits + explode_visits_per_blast
  BY <1>5, <1>7, <1>10, <1>16, <1>17
<1>19. \A k \in 1..Len(res[2]) : Far(res[2][k], b.root) <= m
  BY <1>8, <1>15 DEF Found
<1>20. Len(res[2]) \in Nat /\ \A k \in 1..Len(res[2]) : res[2][k] \in Cells \ b.prot
  BY <1>15 DEF Found
<1> QED
  BY <1>14, <1>15, <1>16, <1>18, <1>19, <1>20 DEF res, m

LEMMA MaxOfTwo ==
    ASSUME NEW x \in Int, NEW y \in Int
    PROVE  Max({x, y}) = IF x >= y THEN x ELSE y
<1> DEFINE m == IF x >= y THEN x ELSE y
<1>1. m \in {x, y} /\ \A z \in {x, y} : m >= z
  OBVIOUS
<1>2. \A k \in {x, y} : (\A z \in {x, y} : k >= z) => k = m
  BY <1>1
<1> HIDE DEF m
<1>3. Max({x, y}) = m
  BY <1>1, <1>2 DEF Max
<1> QED
  BY <1>3 DEF m

LEMMA MinOfTwo ==
    ASSUME NEW x \in Int, NEW y \in Int
    PROVE  Min({x, y}) = IF x <= y THEN x ELSE y
<1> DEFINE m == IF x <= y THEN x ELSE y
<1>1. m \in {x, y} /\ \A z \in {x, y} : m <= z
  OBVIOUS
<1>2. \A k \in {x, y} : (\A z \in {x, y} : k <= z) => k = m
  BY <1>1
<1> HIDE DEF m
<1>3. Min({x, y}) = m
  BY <1>1, <1>2 DEF Min
<1> QED
  BY <1>3 DEF m

LEMMA MaxBlastsIs ==
    ASSUME NEW max \in Nat
    PROVE  /\ maxBlasts(max) \in Nat \ {0} /\ explode_visits_per_blast \in Nat \ {0}
           /\ maxBlasts(max) * explode_visits_per_blast <= Max({max, explode_visits_per_blast})
<1> DEFINE k == explode_visits_per_blast
           d == max \div k
<1>1. k \in Nat \ {0}
  BY SphereIn DEF explode_visits_per_blast
<1> HIDE DEF k
<1>2. d \in Nat /\ k * d <= max
  BY <1>1
<1> HIDE DEF d
<1>3. maxBlasts(max) = IF 1 >= d THEN 1 ELSE d
  BY <1>2, MaxOfTwo DEF maxBlasts, d, k
<1>4. Max({max, k}) = IF max >= k THEN max ELSE k
  BY <1>1, MaxOfTwo
<1>5. maxBlasts(max) \in Nat \ {0}
  BY <1>2, <1>3
<1>6. CASE 1 >= d
  BY <1>1, <1>3, <1>4, <1>6 DEF k
<1>7. CASE ~(1 >= d)
  <2>1. d * k = k * d
    BY <1>1, <1>2
  <2> QED
    BY <1>1, <1>2, <1>3, <1>4, <1>7, <2>1 DEF k
<1> QED
  BY <1>1, <1>5, <1>6, <1>7 DEF k

\* A chain: what it has done, and what is still to go off.
Chains(b) ==
    {s \in [r : Burning(b), work : Seq(Bombs(b))] :
        /\ s.r.explosions + Len(s.work) <= maxBlasts(b.max)
        /\ s.r.visits <= s.r.explosions * explode_visits_per_blast}

LEMMA LinkedKeeps ==
    ASSUME NEW b, Given(b), NEW n \in Bombs(b), NEW work \in Seq(Bombs(b)),
           NEW blast, NEW r \in Burning(b), NEW tnt, r = blast[1], tnt = blast[2],
           r.explosions + Len(work) <= maxBlasts(b.max),
           r.visits <= r.explosions * explode_visits_per_blast,
           Len(tnt) \in Nat,
           \A k \in 1..Len(tnt) : /\ tnt[k] \in Cells \ b.prot
                                  /\ Far(tnt[k], b.root) <= Radius * (n.depth + 1)
    PROVE  Linked(blast, n, work, b.max) \in Chains(b)
<1> DEFINE found == IF n.depth + 1 > MaxDepth THEN <<>> ELSE tnt
           room == maxBlasts(b.max) - r.explosions - Len(work)
           joined == Max({0, Min({room, Len(found)})})
           more == [i \in 1..joined |-> [at |-> found[i], depth |-> n.depth + 1]]
           q == [r EXCEPT !.truncated = @ + Len(found) - joined]
<1>1. r \in Fields(b) /\ r.aired \subseteq r.written /\ \A c \in Cells \ r.written : r.w[c] = b.w0[c]
  BY DEF Burning
<1>2. r.explosions \in Nat /\ r.truncated \in Int /\ Len(work) \in Nat /\ b.max \in Nat
  <2>1. r.explosions \in Nat /\ r.truncated \in Int
    BY <1>1 DEF Fields
  <2> QED
    BY <2>1, LenProperties DEF Given
<1>3. n.depth \in Nat /\ MaxDepth \in Nat
  BY Sizes DEF Bombs
<1>4. Len(found) \in Nat
  BY <1>3
<1>5. \A k \in 1..Len(found) : [at |-> found[k], depth |-> n.depth + 1] \in Bombs(b)
  <2>1. CASE n.depth + 1 > MaxDepth
    BY <2>1
  <2>2. CASE ~(n.depth + 1 > MaxDepth)
    <3>1. n.depth + 1 \in 0..MaxDepth /\ found = tnt
      BY <1>3, <2>2
    <3> HIDE DEF found
    <3> QED
      BY <3>1 DEF Bombs
  <2> QED
    BY <2>1, <2>2
<1> HIDE DEF found
<1>6. room \in Nat
  <2>1. maxBlasts(b.max) \in Nat
    BY <1>2, MaxBlastsIs
  <2> QED
    BY <1>2, <2>1
<1>7. joined \in Nat /\ joined <= room /\ joined <= Len(found)
  <2> HIDE DEF room
  <2>1. Min({room, Len(found)}) = IF room <= Len(found) THEN room ELSE Len(found)
    BY <1>4, <1>6, MinOfTwo
  <2>2. Min({room, Len(found)}) \in Nat
    BY <1>4, <1>6, <2>1
  <2>3. Max({0, Min({room, Len(found)})}) = Min({room, Len(found)})
    <3> DEFINE m == Min({room, Len(found)})
    <3>1. m \in Nat
      BY <2>2
    <3> HIDE DEF m
    <3>2. Max({0, m}) = m
      BY <3>1, MaxOfTwo
    <3> QED
      BY <3>2 DEF m
  <2> QED
    BY <1>4, <1>6, <2>1, <2>3
<1> HIDE DEF joined
<1>8. more \in Seq(Bombs(b)) /\ Len(more) = joined
  BY <1>4, <1>5, <1>7
<1> HIDE DEF more
<1>9. work \o more \in Seq(Bombs(b)) /\ Len(work \o more) = Len(work) + joined
  <2>1. work \o more \in Seq(Bombs(b)) /\ Len(work \o more) = Len(work) + Len(more)
    BY <1>8, ConcatProperties
  <2> QED
    BY <1>8, <2>1
<1>10. r.truncated + Len(found) - joined \in Int
  BY <1>2, <1>4, <1>7
<1>11. q \in Fields(b)
  BY <1>1, <1>10 DEF Fields
<1>12. q.w = r.w /\ q.written = r.written /\ q.aired = r.aired /\ q.explosions = r.explosions /\ q.visits = r.visits
  BY <1>1 DEF Fields
<1> HIDE DEF q
<1>13. q \in Burning(b)
  BY <1>1, <1>11, <1>12 DEF Burning
<1>14. Linked(blast, n, work, b.max) = [r |-> q, work |-> work \o more]
  BY DEF Linked, q, more, found, joined, room
<1>15. q.explosions + Len(work \o more) <= maxBlasts(b.max)
  <2>1. maxBlasts(b.max) \in Nat
    BY <1>2, MaxBlastsIs
  <2> QED
    BY <1>2, <1>6, <1>7, <1>9, <1>12, <2>1 DEF room
<1> DEFINE x == work \o more
<1>16. x \in Seq(Bombs(b)) /\ q.explosions + Len(x) <= maxBlasts(b.max) /\ q.visits <= q.explosions * explode_visits_per_blast
  BY <1>9, <1>12, <1>15
<1> HIDE DEF x
<1>17. [r |-> q, work |-> x] \in Chains(b)
  BY <1>13, <1>16 DEF Chains
<1> QED
  BY <1>14, <1>17 DEF x

LEMMA NextBlastKeeps ==
    ASSUME NEW b, Given(b), NEW s \in Chains(b)
    PROVE  NextBlast(s) \in Chains(b)
<1> DEFINE n == s.work[Len(s.work)]
           work == SubSeq(s.work, 1, Len(s.work) - 1)
           blast == GoOff(s.r, n)
           K == explode_visits_per_blast
<1>1. /\ s.r \in Burning(b) /\ s.work \in Seq(Bombs(b))
      /\ s.r.explosions + Len(s.work) <= maxBlasts(b.max)
      /\ s.r.visits <= s.r.explosions * K
  BY DEF Chains
<1>2. CASE s.work = <<>>
  BY <1>2 DEF NextBlast
<1>3. CASE s.work # <<>>
  <2>1. Len(s.work) \in Nat \ {0}
    BY <1>1, <1>3
  <2>2. n \in Bombs(b) /\ work \in Seq(Bombs(b)) /\ Len(work) = Len(s.work) - 1
    BY <1>1, <2>1
  <2>3. s.r.explosions \in Nat /\ s.r.visits \in Nat /\ s.r.max = b.max /\ b.max \in Nat
    BY <1>1 DEF Burning, Fields, Given
  <2>4. NextBlast(s) = Linked(blast, n, work, b.max)
    <3>1. Last(s.work) = n /\ Front(s.work) = work
      BY DEF Last, Front
    <3> HIDE DEF n, work
    <3> QED
      BY <1>3, <2>3, <3>1 DEF NextBlast
  <2> HIDE DEF n, work
  <2>5. /\ blast[1] \in Burning(b) /\ blast[1].explosions = s.r.explosions + 1
        /\ blast[1].visits <= s.r.visits + K /\ Len(blast[2]) \in Nat
        /\ \A k \in 1..Len(blast[2]) : /\ blast[2][k] \in Cells \ b.prot
                                       /\ Far(blast[2][k], b.root) <= Radius * (n.depth + 1)
    BY <1>1, <2>2, BlastKeeps
  <2> HIDE DEF blast
  <2>6. K \in Nat /\ maxBlasts(b.max) \in Nat /\ blast[1].visits \in Nat
    BY <2>3, <2>5, MaxBlastsIs DEF Burning, Fields
  <2> HIDE DEF K
  <2> DEFINE r == blast[1]
           tnt == blast[2]
  <2>9. r.visits <= s.r.visits + K /\ r.explosions = s.r.explosions + 1 /\ r.visits \in Nat /\ r \in Burning(b)
    BY <2>5, <2>6
  <2>10. /\ Len(tnt) \in Nat
         /\ \A k \in 1..Len(tnt) : tnt[k] \in Cells \ b.prot /\ Far(tnt[k], b.root) <= Radius * (n.depth + 1)
    BY <2>5
  <2>11. r = blast[1] /\ tnt = blast[2]
    OBVIOUS
  <2> HIDE DEF r, tnt
  <2>7. r.visits <= r.explosions * K
    <3>1. (s.r.explosions + 1) * K = s.r.explosions * K + K /\ s.r.explosions * K \in Nat
      BY <2>3, <2>6
    <3> DEFINE e == s.r.explosions
    <3>2. s.r.visits <= e * K /\ (e + 1) * K = e * K + K /\ e * K \in Nat /\ r.explosions = e + 1 /\ s.r.visits \in Nat
      BY <1>1, <2>3, <2>9, <3>1
    <3> HIDE DEF e
    <3> DEFINE x == e * K
               y == (e + 1) * K
    <3>3. r.visits <= s.r.visits + K /\ s.r.visits <= x /\ y = x + K /\ x \in Nat /\ s.r.visits \in Nat /\ r.visits \in Nat
      BY <2>9, <3>2
    <3> HIDE DEF x, y
    <3>4. r.visits <= y
      BY <2>6, <3>3
    <3> QED
      BY <3>2, <3>4 DEF y
  <2>8. r.explosions + Len(work) <= maxBlasts(b.max)
    BY <1>1, <2>1, <2>2, <2>3, <2>6, <2>9
  <2> QED
    BY <2>2, <2>4, <2>7, <2>8, <2>9, <2>10, <2>11, LinkedKeeps DEF K
<1> QED
  BY <1>2, <1>3

LEMMA ChainKeeps ==
    ASSUME NEW b, Given(b), NEW s \in Chains(b)
    PROVE  /\ blastChain(s) \in Burning(b)
           /\ blastChain(s).explosions <= maxBlasts(b.max)
           /\ blastChain(s).visits <= blastChain(s).explosions * explode_visits_per_blast
<1> DEFINE N == maxBlasts(s.r.max)
           C == Chains(b)
           step == [n \in Nat |-> [c \in C |-> NextBlast(c)]]
           Same(f) == f = [n \in 0..N |-> IF n = 0 THEN s ELSE NextBlast(f[n - 1])]
           f == CHOOSE f : Same(f)
<1>1. s.r.max = b.max /\ b.max \in Nat
  BY DEF Chains, Burning, Fields, Given
<1>2. N \in Nat
  BY <1>1, MaxBlastsIs
<1>3. \A c \in C : NextBlast(c) \in C
  BY NextBlastKeeps
<1> HIDE DEF C
<1>4. step \in [Nat -> [C -> C]] /\ s \in C
  BY <1>3 DEF C
<1>5. \E g : Same(g)
  <2> HIDE DEF N
  <2>1. PICK g \in [0..N -> C] : IsRun(g, N, s, step)
    <3> HIDE DEF step
    <3> QED
      BY <1>2, <1>4, Runs
  <2>2. ASSUME NEW n \in 0..N PROVE g[n] = IF n = 0 THEN s ELSE NextBlast(g[n - 1])
    <3>1. CASE n = 0
      BY <2>1, <3>1 DEF IsRun
    <3>2. CASE n # 0
      <4>1. n \in Nat /\ n - 1 \in 0..N
        BY <1>2, <3>2
      <4>2. g[n - 1] \in C
        BY <2>1, <4>1
      <4>3. step[n][g[n - 1]] = NextBlast(g[n - 1])
        BY <4>1, <4>2
      <4>4. g[n] = step[n][g[n - 1]]
        <5> HIDE DEF step
        <5> QED
          BY <2>1, <3>2 DEF IsRun
      <4> QED
        BY <3>2, <4>3, <4>4
    <3> QED
      BY <3>1, <3>2
  <2>3. Same(g)
    <3> HIDE DEF step
    <3> QED
      BY <2>1, <2>2
  <2> QED
    BY <2>3
<1>6. Same(f)
  BY <1>5
<1>7. blastChain(s) = f[N].r
  BY DEF blastChain
<1> HIDE DEF f, N
<1>8. f[0] \in C
  BY <1>2, <1>4, <1>6
<1>9. ASSUME NEW n \in 1..N, f[n - 1] \in C PROVE f[n] \in C
  <2>1. f[n] = NextBlast(f[n - 1])
    <3>1. n \in 0..N /\ n # 0
      BY <1>2
    <3> QED
      BY <1>6, <3>1
  <2> QED
    BY <1>3, <1>9, <2>1
<1>10. f[N] \in C
  BY <1>2, <1>8, <1>9, Along
<1> DEFINE x == f[N]
<1>11. x \in Chains(b) /\ blastChain(s) = x.r
  BY <1>7, <1>10 DEF C
<1> HIDE DEF x
<1>12. /\ x.r \in Burning(b) /\ x.work \in Seq(Bombs(b)) /\ x.r.explosions + Len(x.work) <= maxBlasts(b.max)
       /\ x.r.visits <= x.r.explosions * explode_visits_per_blast
  BY <1>11 DEF Chains
<1>13. x.r.explosions \in Nat
  BY <1>12 DEF Burning, Fields
<1>14. Len(x.work) \in Nat /\ maxBlasts(b.max) \in Nat
  BY <1>1, <1>12, LenProperties, MaxBlastsIs
<1>15. x.r.explosions <= maxBlasts(b.max)
  BY <1>12, <1>13, <1>14
<1> QED
  BY <1>11, <1>12, <1>15

-----------------------------------------------------------------------------
(* Fills. *)

LEMMA MaterialIsByte ==
    ASSUME NEW t \in 81..111
    PROVE  expansion_material(t) \in Byte
<1>1. Len(Materials) = 30 /\ \A i \in 1..30 : Materials[i] \in Byte
  BY DEF Materials, Byte, Tnt, Firework, Steel
<1>2. t = 81 \/ t - 81 \in 1..30
  OBVIOUS
<1> QED
  BY <1>1, <1>2 DEF expansion_material, Byte, Air

LEMMA RampIsByte ==
    ASSUME NEW t, NEW solid \in SUBSET (1..4)
    PROVE  ramp_for_faces(expansion_ramp(t), solid) \in Byte
<1> DEFINE ramp == expansion_ramp(t)
           corner == {d \in solid : (d % 4) + 1 \in solid}
<1>1. ramp \in 0..36
  BY DEF expansion_ramp
<1> HIDE DEF ramp
<1>2. corner # {} => Min(corner) \in 1..4
  <2>1. corner \in SUBSET Nat /\ corner \subseteq 1..4
    <3>1. corner \subseteq solid
      OBVIOUS
    <3> HIDE DEF corner
    <3> QED
      BY <3>1
  <2> HIDE DEF corner
  <2>2. corner # {} => \E x \in corner : \A y \in corner : x <= y
    BY <2>1, Least
  <2> QED
    BY <2>1, <2>2 DEF Min
<1> HIDE DEF corner
<1>3. ramp_solid_material(ramp) \in Byte
  BY DEF ramp_solid_material, Byte
<1>4. CASE Cardinality(solid) = 2 /\ corner # {}
  <2>1. ramp_for_faces(ramp, solid) = ramp + 16 + Min(corner) - 1
    BY <1>4 DEF ramp_for_faces, corner
  <2> QED
    BY <1>1, <1>2, <1>4, <2>1 DEF Byte, ramp
<1>5. CASE ~(Cardinality(solid) = 2 /\ corner # {}) /\ Cardinality(solid) > 2
  <2>1. ramp_for_faces(ramp, solid) = ramp_solid_material(ramp)
    BY <1>5 DEF ramp_for_faces, corner
  <2> QED
    BY <1>3, <2>1 DEF ramp
<1>6. CASE ~(Cardinality(solid) = 2 /\ corner # {}) /\ ~(Cardinality(solid) > 2)
  <2>1. ramp_for_faces(ramp, solid) = ramp
    BY <1>6 DEF ramp_for_faces, corner
  <2> QED
    BY <1>1, <2>1 DEF Byte, ramp
<1> QED
  BY <1>4, <1>5, <1>6

\* An expansion block is drawn only where one is stored.
LEMMA ExpandersThere ==
    ASSUME NEW w \in [Cells -> Content], NEW c, is_expansion(Drawn(w, c))
    PROVE  c \in Cells /\ w[c] \in Value /\ w[c][1] \in 81..111 /\ Drawn(w, c) # Air
<1>1. \A y : is_expansion(y) <=> y \in 81..111
  BY DEF is_expansion
<1>2. c \in InHeight
  <2>1. SUFFICES ASSUME c \notin InHeight PROVE FALSE
    OBVIOUS
  <2>2. Drawn(w, c) = -1
    BY <2>1 DEF Drawn
  <2> QED
    BY <1>1, <2>2
<1>3. c[2] \in Nat
  BY <1>2, Sizes DEF InHeight
<1>4. ~(Get(w, c) = Absent \/ Has(w, c, {PaintedBase}))
  BY <1>2, <1>3, Natural DEF Drawn
<1>5. Drawn(w, c) = w[c][1]
  BY <1>2, <1>4 DEF Drawn
<1> QED
  BY <1>1, <1>4, <1>5, StoredThere DEF Air

\* Places a burn reaches.
Near(b, s) ==
    Len(s) \in Nat /\ \A i \in 1..Len(s) : s[i] \in Place /\ Far(s[i], b.root) <= burn_reach

LEMMA BoxCellsNear ==
    ASSUME NEW b, Given(b), NEW c \in Place, Far(c, b.root) <= FillsInReach, NEW lo, NEW hi,
           \A k \in 1..3 : lo[k] \in 0..Extent /\ hi[k] \in 0..Extent
    PROVE  Near(b, BoxCells(c, lo, hi)) /\ Len(BoxCells(c, lo, hi)) <= Len(Box) /\ Len(Box) \in Nat
<1> DEFINE n == Len(Box)
           within(i) ==
              /\ \A k \in 1..3 : Box[i][k] \in -lo[k]..hi[k]
              /\ IF i % 2 = 1 THEN c[2] + Box[i][2] > 0 ELSE c[2] + Box[i][2] < Height
           S == {i \in 1..n : within(i)}
           all == [i \in 1..n |-> i]
           places == Only(all, S)
<1>1. n \in Nat
  <2> DEFINE layers == Layers(Extent, Extent)
  <2>1. Len(layers) \in Nat
    <3> DEFINE m == (Extent + 1) * ((2 * Extent + 1) * (2 * Extent + 1))
    <3>1. m \in Nat
      BY Sizes
    <3> HIDE DEF m
    <3>2. \A f : Len([i \in 1..m |-> f[i]]) = m
      BY <3>1
    <3> QED
      BY <3>1 DEF Layers, m
  <2> HIDE DEF layers
  <2>2. 2 * Len(layers) \in Nat
    BY <2>1
  <2>3. n = 2 * Len(layers)
    BY <2>2 DEF Box, DownUp, layers
  <2> QED
    BY <2>2, <2>3
<1> HIDE DEF n
<1>2. Len(all) \in Nat
  BY <1>1
<1>7. Len(all) = n
  BY <1>1
<1>3. Len(places) \in Nat /\ Len(places) <= n /\ \A k \in 1..Len(places) : places[k] \in S
  <2> HIDE DEF all, S
  <2> QED
    BY <1>2, <1>7, OnlyIn
<1> HIDE DEF places
<1>4. BoxCells(c, lo, hi) = [i \in 1..Len(places) |-> Sum3(c, Box[places[i]])]
  BY DEF BoxCells, places, all, S, n
<1> DEFINE B == BoxCells(c, lo, hi)
<1>5. Len(B) = Len(places) /\ \A i \in 1..Len(places) : B[i] = Sum3(c, Box[places[i]])
  BY <1>3, <1>4
<1> HIDE DEF B
<1>6. ASSUME NEW i \in 1..Len(places) PROVE B[i] \in Place /\ Far(B[i], b.root) <= burn_reach
  <2> DEFINE o == Box[places[i]]
  <2>1. \A k \in 1..3 : o[k] \in -lo[k]..hi[k]
    BY <1>3
  <2>2. Extent \in Nat /\ FillsInReach \in Nat /\ FillsInReach + Extent = burn_reach /\ b.root \in Place
    BY Sizes DEF Given
  <2> HIDE DEF o
  <2>3. \A k \in {1, 2, 3} : o[k] \in -Extent..Extent
    <3> TAKE k \in {1, 2, 3}
    <3> DEFINE l == lo[k]
               u == hi[k]
               x == o[k]
    <3>0. k \in 1..3
      OBVIOUS
    <3>1. x \in -l..u /\ l \in 0..Extent /\ u \in 0..Extent
      BY <2>1, <3>0, Zenon
    <3> HIDE DEF l, u, x
    <3>2. x \in -Extent..Extent
      BY <2>2, <3>1
    <3> QED
      BY <3>2 DEF x
  <2>4. o[1] \in Int /\ o[2] \in Int /\ o[3] \in Int
    BY <2>3
  <2>5. Sum3(c, o) \in Place
    BY <2>4, SumIsPlace
  <2>6. Far(Sum3(c, o), b.root) <= FillsInReach + Extent
    BY <2>2, <2>3, FartherBy
  <2> QED
    BY <1>5, <2>2, <2>5, <2>6 DEF o
<1> QED
  BY <1>1, <1>3, <1>5, <1>6 DEF Near, B, n

LEMMA OnlyNear ==
    ASSUME NEW b, NEW s, Near(b, s), NEW S, NEW o, o = Only(s, S)
    PROVE  /\ Near(b, o) /\ DOMAIN o = 1..Len(o) /\ Len(o) \in Nat
           /\ \A k \in 1..Len(o) : o[k] \in S /\ \E i \in 1..Len(s) : o[k] = s[i]
<1>1. Len(s) \in Nat
  BY DEF Near
<1>2. /\ Len(o) \in Nat /\ DOMAIN o = 1..Len(o)
      /\ \A k \in 1..Len(o) : o[k] \in S /\ \E i \in 1..Len(s) : o[k] = s[i]
  BY <1>1, OnlyIn
<1> QED
  BY <1>2 DEF Near

Looked(r, v, hs) == [r EXCEPT !.visits = v, !.hits = hs]
Lit(q, r, s) == light(q, Expanders(r, s), TRUE)
Unmoved(q, r, s) == \A k \in 1..Len(Expanders(r, s)) : q.w[Expanders(r, s)[k]] = r.w[Expanders(r, s)[k]]

LEMMA VisitsKeep ==
    ASSUME NEW b, Given(b), NEW r \in Burning(b), NEW v \in Nat, NEW hs \in SUBSET Place
    PROVE  LET q == Looked(r, v, hs)
           IN q \in Burning(b) /\ q.firing = r.firing /\ q.w = r.w /\ q.prot = b.prot
              /\ q.explosions = r.explosions /\ q.visits = v /\ q.written = r.written /\ q.refused = r.refused
<1> DEFINE q == Looked(r, v, hs)
<1>1. r \in Fields(b) /\ r.aired \subseteq r.written /\ \A c \in Cells \ r.written : r.w[c] = b.w0[c]
  BY DEF Burning
<1>2. q \in Fields(b)
  BY <1>1 DEF Fields, Looked
<1>3. /\ q.w = r.w /\ q.written = r.written /\ q.aired = r.aired /\ q.firing = r.firing /\ q.prot = b.prot
      /\ q.explosions = r.explosions /\ q.visits = v /\ q.refused = r.refused
  BY <1>1 DEF Fields, Looked
<1> HIDE DEF q
<1>4. q \in Burning(b)
  BY <1>1, <1>2, <1>3 DEF Burning
<1> QED
  BY <1>3, <1>4 DEF q

LEMMA ExpandersKeep ==
    ASSUME NEW b, Given(b), NEW r \in Burning(b), NEW s, Near(b, s), NEW q \in Burning(b), Unmoved(q, r, s)
    PROVE  /\ Lit(q, r, s) \in Burning(b) /\ SameCounts(Lit(q, r, s), q) /\ Lit(q, r, s).firing = q.firing
<1> DEFINE e == Expanders(r, s)
           S == {c \in ToSet(s) : is_expansion(Drawn(r.w, c))}
<1>3. e = Only(s, S)
  BY DEF Expanders
<1>1. r.w \in [Cells -> Content]
  BY DEF Burning, Fields, Worldly
<1>2. Len(e) \in Nat /\ \A k \in 1..Len(e) : e[k] \in S
  <2> HIDE DEF S
  <2> QED
    BY <1>3, OnlyNear
<1>4. \A k \in 1..Len(e) : is_expansion(Drawn(r.w, e[k]))
  BY <1>2
<1>6. \A k \in 1..Len(e) : q.w[e[k]] = r.w[e[k]]
  BY DEF Unmoved
<1>7. Lit(q, r, s) = light(q, e, TRUE)
  BY DEF Lit
<1> HIDE DEF e
<1>5. \A k \in 1..Len(e) : e[k] \in Cells /\ q.w[e[k]][1] \in 81..111
  BY <1>1, <1>4, <1>6, ExpandersThere
<1>8. /\ light(q, e, TRUE) \in Burning(b) /\ SameCounts(light(q, e, TRUE), q)
      /\ light(q, e, TRUE).firing = q.firing
  <2> HIDE DEF S
  <2>1. TRUE \in BOOLEAN /\ Len(e) \in Nat
    BY <1>2
  <2>2. \A k \in 1..Len(e) : /\ e[k] \in Cells /\ q.w[e[k]][1] \in 81..111
                             /\ ~TRUE => e[k] \notin b.prot
    BY <1>5
  <2> QED
    BY <2>1, <2>2, LightKeeps
<1> QED
  BY <1>7, <1>8

LEMMA FillCellsKeep ==
    ASSUME NEW b, Given(b), NEW r \in Burning(b), NEW s, Near(b, s), NEW val,
           \A i \in 1..Len(s) : val[s[i]] \in Value
    PROVE  /\ FillCells(r, s, val) \in Burning(b) /\ FillCells(r, s, val).firing = r.firing
           /\ FillCells(r, s, val).explosions = r.explosions
           /\ FillCells(r, s, val).visits = r.visits + Len(s)
<1> DEFINE A == {c \in ToSet(s) : Drawn(r.w, c) = Air}
           air == Only(s, A)
           F == ToSet(air) \ r.prot
           free == Only(air, F)
           v == r.visits + Len(s)
           hs == r.hits \cup (ToSet(air) \cap r.prot)
           hit == Looked(r, v, hs)
           wrote == Write(hit, free, val)
<1>1. /\ r.w \in [Cells -> Content] /\ r.prot = b.prot /\ r.visits \in Nat /\ r.hits \subseteq Place
      /\ r \in Fields(b)
  BY DEF Burning, Fields, Worldly
<1>2. /\ Near(b, air) /\ Len(air) \in Nat /\ DOMAIN air = 1..Len(air)
      /\ \A k \in 1..Len(air) : air[k] \in A /\ \E i \in 1..Len(s) : air[k] = s[i]
  <2> HIDE DEF A
  <2> QED
    BY OnlyNear
<1>4. \A k \in 1..Len(air) : Drawn(r.w, air[k]) = Air /\ \E i \in 1..Len(s) : air[k] = s[i]
  BY <1>2
<1> HIDE DEF air, A
<1>5. /\ Near(b, free) /\ Len(free) \in Nat
      /\ \A k \in 1..Len(free) : free[k] \in F /\ \E i \in 1..Len(air) : free[k] = air[i]
  <2> HIDE DEF F
  <2> QED
    BY <1>2, OnlyNear
<1>6. \A k \in 1..Len(free) : free[k] \notin b.prot
  BY <1>1, <1>5
<1> HIDE DEF free, F
<1>7. v \in Nat /\ hs \in SUBSET Place
  <2>1. ToSet(air) \subseteq Place
    BY <1>2 DEF Near, ToSet
  <2> QED
    BY <1>1, <2>1 DEF Near
<1> HIDE DEF v, hs
<1>8. /\ hit \in Burning(b) /\ hit.firing = r.firing /\ hit.w = r.w /\ hit.explosions = r.explosions
      /\ hit.visits = v
  BY <1>7, VisitsKeep
<1> HIDE DEF hit
<1>9. \A k \in 1..Len(free) : \E i \in 1..Len(s) : free[k] = s[i]
  BY <1>4, <1>5
<1>10. \A k \in 1..Len(free) : free[k] \in Cells => free[k] \in Open(b) /\ val[free[k]] \in Value
  BY <1>5, <1>6, <1>9 DEF Near, Open, Reached
<1>11. /\ wrote \in Burning(b) /\ SameCounts(wrote, hit) /\ wrote.firing = hit.firing
       /\ \A c \in Cells : (\A k \in 1..Len(free) : free[k] # c) => wrote.w[c] = hit.w[c]
  BY <1>5, <1>8, <1>10, WriteKeeps DEF Near
<1>12. FillCells(r, s, val) = Lit(wrote, r, s)
  BY <1>1 DEF FillCells, Lit, Looked, wrote, hit, v, hs, free, F, air, A, Fields
<1> HIDE DEF wrote
<1>13. ASSUME NEW k \in 1..Len(Expanders(r, s))
       PROVE wrote.w[Expanders(r, s)[k]] = r.w[Expanders(r, s)[k]]
  <2> DEFINE e == Expanders(r, s)[k]
             S == {c \in ToSet(s) : is_expansion(Drawn(r.w, c))}
  <2>1. e \in S
    <3> DEFINE all == Expanders(r, s)
    <3>1. all = Only(s, S)
      BY DEF Expanders
    <3> HIDE DEF S, all
    <3>2. \A i \in 1..Len(all) : all[i] \in S
      BY <3>1, OnlyNear
    <3> QED
      BY <3>2 DEF all
  <2>2. is_expansion(Drawn(r.w, e))
    BY <2>1
  <2> HIDE DEF e
  <2>3. e \in Cells /\ Drawn(r.w, e) # Air
    BY <1>1, <2>2, ExpandersThere
  <2>4. \A i \in 1..Len(free) : Drawn(r.w, free[i]) = Air
    BY <1>4, <1>5
  <2>5. wrote.w[e] = hit.w[e]
    BY <1>11, <2>3, <2>4
  <2> QED
    BY <1>8, <2>5 DEF e
<1>14. Unmoved(wrote, r, s)
  BY <1>13 DEF Unmoved
<1> DEFINE l == Lit(wrote, r, s)
<1>15. l \in Burning(b) /\ SameCounts(l, wrote) /\ l.firing = wrote.firing
  BY <1>11, <1>14, ExpandersKeep
<1> HIDE DEF l
<1> QED
  BY <1>8, <1>11, <1>12, <1>15 DEF SameCounts, l, v

\* One part of a fill after the other.
Filled(b, q, r) == q \in Burning(b) /\ q.firing = r.firing /\ q.explosions = r.explosions

LitFrom(r, s, v) == light([r EXCEPT !.visits = v], Expanders(r, s), TRUE)

LEMMA LightNear ==
    ASSUME NEW b, Given(b), NEW r \in Burning(b), NEW s, Near(b, s), NEW v \in Nat
    PROVE  Filled(b, LitFrom(r, s, v), r) /\ LitFrom(r, s, v).visits = v
<1> DEFINE q == [r EXCEPT !.visits = v]
           l == Lit(q, r, s)
<1>1. r \in Fields(b) /\ r.hits \in SUBSET Place
  BY DEF Burning, Fields
<1>2. q = Looked(r, v, r.hits)
  BY <1>1 DEF Fields, Looked
<1>3. q \in Burning(b) /\ q.firing = r.firing /\ q.w = r.w /\ q.explosions = r.explosions /\ q.visits = v
  BY <1>1, <1>2, VisitsKeep
<1> HIDE DEF q
<1>4. Unmoved(q, r, s)
  BY <1>3 DEF Unmoved
<1>5. l \in Burning(b) /\ SameCounts(l, q) /\ l.firing = q.firing
  BY <1>3, <1>4, ExpandersKeep
<1>6. light(q, Expanders(r, s), TRUE) = l
  BY DEF Lit
<1> HIDE DEF l
<1>7. Filled(b, l, r) /\ l.visits = v
  BY <1>3, <1>5 DEF Filled, SameCounts
<1> QED
  BY <1>6, <1>7 DEF q, LitFrom

LEMMA FillBoxKeeps ==
    ASSUME NEW b, Given(b), NEW r \in Burning(b), NEW s, Near(b, s), NEW t \in 81..111, NEW colour \in Byte
    PROVE  Filled(b, FillBox(r, s, t, colour), r) /\ FillBox(r, s, t, colour).visits = r.visits + Len(s)
<1>1. r \in Fields(b) /\ r.visits \in Nat
  BY DEF Burning, Fields
<1>2. CASE expansion_material(t) = Air
  <2> DEFINE v == r.visits + Len(s)
  <2>1. v \in Nat
    BY <1>1 DEF Near
  <2>2. FillBox(r, s, t, colour) = LitFrom(r, s, v)
    BY <1>1, <1>2 DEF FillBox, Fields, LitFrom
  <2> HIDE DEF v
  <2>3. Filled(b, LitFrom(r, s, v), r) /\ LitFrom(r, s, v).visits = v
    BY <2>1, LightNear
  <2> QED
    BY <2>2, <2>3 DEF v
<1>3. CASE expansion_material(t) # Air
  <2> DEFINE x == <<expansion_material(t), colour>>
             val == [d \in ToSet(s) |-> x]
  <2>1. x \in Value
    BY MaterialIsByte DEF Value
  <2> HIDE DEF x
  <2>2. \A i \in 1..Len(s) : val[s[i]] \in Value
    <3>1. SUFFICES \A i \in 1..Len(s) : s[i] \in ToSet(s)
      BY <2>1
    <3> QED
      BY DEF Near, ToSet
  <2>3. FillBox(r, s, t, colour) = FillCells(r, s, val)
    BY <1>3 DEF FillBox, x
  <2> HIDE DEF val
  <2> QED
    BY <2>2, <2>3, FillCellsKeep DEF Filled
<1> QED
  BY <1>2, <1>3

LEMMA FillRingKeeps ==
    ASSUME NEW b, Given(b), NEW r \in Burning(b), NEW s, Near(b, s), NEW t, NEW colour \in Byte
    PROVE  /\ Filled(b, FillRing(r, s, t, colour), r) /\ FillRing(r, s, t, colour).visits = r.visits + Len(s)
<1> DEFINE faces(d) == {f \in 1..4 : face_solid(Drawn(r.w, Sum3(d, Faces[f])), f)}
           val == [d \in ToSet(s) |-> <<ramp_for_faces(expansion_ramp(t), faces(d)), colour>>]
<1>1. \A d : faces(d) \in SUBSET (1..4)
  OBVIOUS
<1>2. FillRing(r, s, t, colour) = FillCells(r, s, val)
  BY DEF FillRing
<1> HIDE DEF faces
<1>3. \A d : <<ramp_for_faces(expansion_ramp(t), faces(d)), colour>> \in Value
  BY <1>1, RampIsByte DEF Value
<1>4. \A i \in 1..Len(s) : s[i] \in ToSet(s)
  BY DEF Near, ToSet
<1>5. \A i \in 1..Len(s) : val[s[i]] \in Value
  BY <1>3, <1>4
<1> HIDE DEF val
<1> QED
  BY <1>2, <1>5, FillCellsKeep DEF Filled

LEMMA LightWholeKeeps ==
    ASSUME NEW b, Given(b), NEW r \in Burning(b), NEW s, Near(b, s), NEW looked \in Nat
    PROVE  /\ Filled(b, LightWhole(r, s, looked), r)
           /\ LightWhole(r, s, looked).visits = r.visits + looked + Len(s)
<1> DEFINE v == r.visits + looked + Len(s)
<1>1. r \in Fields(b) /\ r.visits \in Nat
  BY DEF Burning, Fields
<1>2. v \in Nat
  BY <1>1 DEF Near
<1>3. LightWhole(r, s, looked) = LitFrom(r, s, v)
  BY <1>1 DEF LightWhole, LitFrom, Fields
<1> HIDE DEF v
<1>4. Filled(b, LitFrom(r, s, v), r) /\ LitFrom(r, s, v).visits = v
  BY <1>2, LightNear
<1> QED
  BY <1>3, <1>4 DEF v

WholeBox(c) == BoxCells(c, <<Extent, Extent, Extent>>, <<Extent, Extent, Extent>>)

LEMMA WholeBoxNear ==
    ASSUME NEW b, Given(b), NEW c \in Place, Far(c, b.root) <= FillsInReach
    PROVE  Near(b, WholeBox(c)) /\ Len(WholeBox(c)) <= Len(Box) /\ Len(Box) \in Nat
<1> DEFINE m == <<Extent, Extent, Extent>>
<1>1. \A k \in 1..3 : m[k] \in 0..Extent
  <2>1. Extent \in Nat /\ 1..3 = {1, 2, 3}
    BY Sizes
  <2> QED
    BY <2>1
<1> HIDE DEF m
<1>2. Near(b, BoxCells(c, m, m)) /\ Len(BoxCells(c, m, m)) <= Len(Box) /\ Len(Box) \in Nat
  BY <1>1, BoxCellsNear
<1> QED
  BY <1>2 DEF m, WholeBox

CornerSeq(c, box, t) == Only(box, Corners(c, box, t))

\* The faces are looked at from a sample of the corner columns, four from each at most.
LEMMA LooksAtMost ==
    ASSUME NEW q, NEW r, NEW s, Len(s) \in Nat
    PROVE  RingLooks(q, r, s) \in Nat /\ RingLooks(q, r, s) <= 4 * Len(s)
<1> DEFINE looking(i) ==
              /\ Drawn(r.w, s[i]) = Air
              /\ s[i] \notin r.prot
              /\ Drawn(q.w, s[i]) = Air \/ \A j \in 1..i - 1 : s[j] # s[i]
           K == {i \in 1..Len(s) : looking(i)}
<1>1. RingLooks(q, r, s) = 4 * Cardinality(K)
  BY DEF RingLooks
<1>2. K \subseteq 1..Len(s)
  OBVIOUS
<1> DEFINE n == Len(s)
<1>3. n \in Nat
  OBVIOUS
<1> HIDE DEF K, n
<1>4. IsFiniteSet(1..n) /\ Cardinality(1..n) = n
  BY <1>3, FS_Interval
<1>5. K \subseteq 1..n
  BY <1>2 DEF n
<1>6. Cardinality(K) \in Nat /\ Cardinality(K) <= n
  BY <1>4, <1>5, FS_Subset, FS_CardinalityType
<1>7. RingLooks(q, r, s) \in Nat /\ RingLooks(q, r, s) <= 4 * n
  BY <1>1, <1>3, <1>6
<1> QED
  BY <1>7 DEF n

LEMMA RingedKeeps ==
    ASSUME NEW b, Given(b), NEW r \in Burning(b), NEW c \in Place, Far(c, b.root) <= FillsInReach,
           NEW box, Near(b, box), NEW t, NEW colour \in Byte
    PROVE  /\ Filled(b, Ringed(r, c, box, t, colour), r)
           /\ Ringed(r, c, box, t, colour).visits <= r.visits + 5 * Len(CornerSeq(c, box, t)) + Len(Box)
<1> DEFINE s == CornerSeq(c, box, t)
           ring == FillRing(r, s, t, colour)
           looked == RingLooks(ring, r, s)
           whole == WholeBox(c)
           q == LightWhole(ring, whole, looked)
<1>1. Near(b, s)
  <2> DEFINE K == Corners(c, box, t)
  <2> HIDE DEF K
  <2>1. Near(b, Only(box, K))
    BY OnlyNear
  <2> QED
    BY <2>1 DEF K, CornerSeq
<1>2. Near(b, whole) /\ Len(whole) <= Len(Box) /\ Len(Box) \in Nat /\ Len(whole) \in Nat
  BY WholeBoxNear DEF Near
<1>3. Ringed(r, c, box, t, colour) = q
  BY DEF Ringed, CornerSeq, WholeBox
<1>4. Len(s) \in Nat
  BY <1>1 DEF Near
<1> HIDE DEF s, whole
<1>5. Filled(b, ring, r) /\ ring.visits = r.visits + Len(s)
  BY <1>1, FillRingKeeps
<1> HIDE DEF ring
<1>6. looked \in Nat /\ looked <= 4 * Len(s)
  BY <1>4, LooksAtMost
<1> HIDE DEF looked
<1>7. ring \in Burning(b)
  BY <1>5 DEF Filled
<1>8. Filled(b, q, ring) /\ q.visits = ring.visits + looked + Len(whole)
  BY <1>2, <1>6, <1>7, LightWholeKeeps
<1> HIDE DEF q
<1>9. r.visits \in Nat
  BY DEF Burning, Fields
<1>10. q.visits <= r.visits + 5 * Len(s) + Len(Box)
  BY <1>2, <1>4, <1>5, <1>6, <1>8, <1>9
<1> QED
  BY <1>3, <1>5, <1>8, <1>10 DEF Filled, s

\* A fill looks up no more than this, with so many cells in the corner columns.
FillVisits(corners) == 6 + Len(Box) + 5 * corners + Len(Box)
BoxesOf(c) == {BoxCells(c, lo, hi) : lo \in [1..3 -> {0, Extent}], hi \in [1..3 -> {0, Extent}]}

LEMMA FillWithinKeeps ==
    ASSUME NEW b, Given(b), NEW r \in Burning(b), NEW c \in Place, Far(c, b.root) <= FillsInReach,
           NEW box, Near(b, box), Len(box) <= Len(Box), NEW t \in 81..111, NEW colour \in Byte
    PROVE  /\ Filled(b, fillWithin(r, c, box, t, colour), r)
           /\ fillWithin(r, c, box, t, colour).visits + 6 <= r.visits + FillVisits(Len(CornerSeq(c, box, t)))
<1> DEFINE K == ToSet(box) \ Corners(c, box, t)
           inner == Only(box, K)
           filled == FillBox(r, inner, t, colour)
           n == Len(CornerSeq(c, box, t))
           q == Ringed(filled, c, box, t, colour)
<1>1. Near(b, inner) /\ Len(inner) \in Nat /\ Len(inner) <= Len(box) /\ Len(box) \in Nat
  <2> HIDE DEF K
  <2>1. Len(box) \in Nat
    BY DEF Near
  <2>2. Len(inner) <= Len(box)
    BY <2>1, OnlyIn
  <2> QED
    BY <2>1, <2>2, OnlyNear
<1>2. fillWithin(r, c, box, t, colour) = q
  BY DEF fillWithin
<1> HIDE DEF inner
<1>3. Filled(b, filled, r) /\ filled.visits = r.visits + Len(inner)
  BY <1>1, FillBoxKeeps
<1> HIDE DEF filled
<1>4. filled \in Burning(b)
  BY <1>3 DEF Filled
<1>5. Filled(b, q, filled) /\ q.visits <= filled.visits + 5 * n + Len(Box)
  BY <1>4, RingedKeeps
<1>6. Filled(b, q, r)
  BY <1>3, <1>5 DEF Filled
<1>7. q.visits \in Nat /\ r.visits \in Nat
  BY <1>6 DEF Filled, Burning, Fields
<1>8. Len(Box) \in Nat /\ n \in Nat
  <2>1. Near(b, CornerSeq(c, box, t))
    <3> DEFINE C == Corners(c, box, t)
    <3> HIDE DEF C
    <3>1. Near(b, Only(box, C))
      BY OnlyNear
    <3> QED
      BY <3>1 DEF C, CornerSeq
  <2> QED
    BY <2>1, WholeBoxNear DEF Near
<1> HIDE DEF q, n
<1>9. q.visits + 6 <= r.visits + FillVisits(n)
  BY <1>1, <1>3, <1>5, <1>7, <1>8 DEF FillVisits
<1> QED
  BY <1>2, <1>6, <1>9 DEF n

LEMMA FillKeeps ==
    ASSUME NEW b, Given(b), NEW r \in Burning(b), NEW c \in Place, Far(c, b.root) <= FillsInReach,
           NEW t \in 81..111, NEW colour \in Byte
    PROVE  /\ Filled(b, fill(r, c, t, colour), r)
           /\ \E box \in BoxesOf(c) : fill(r, c, t, colour).visits <= r.visits + FillVisits(Len(CornerSeq(c, box, t)))
<1> DEFINE open(o) == IF Drawn(r.w, Sum3(c, o)) > 0 THEN 0 ELSE Extent
           floor == c[2] - 1 <= 0
           ceiling == c[2] + 1 = Height
           lo == <<open(<<-1, 0, 0>>), IF floor THEN 0 ELSE open(<<0, -1, 0>>), open(<<0, 0, -1>>)>>
           hi == <<open(<<1, 0, 0>>), IF ceiling THEN 0 ELSE open(<<0, 1, 0>>), open(<<0, 0, 1>>)>>
           more == (IF floor THEN 0 ELSE 1) + (IF ceiling THEN 0 ELSE 1)
           begun == [r EXCEPT !.visits = @ + 4 + more]
           box == BoxCells(c, lo, hi)
<1>1. fill(r, c, t, colour) = fillWithin(begun, c, box, t, colour)
  BY DEF fill
<1>2. Extent \in Nat
  BY Sizes
<1>3. \A o : open(o) \in {0, Extent}
  OBVIOUS
<1> HIDE DEF open
<1>4. lo \in [1..3 -> {0, Extent}] /\ hi \in [1..3 -> {0, Extent}]
  BY <1>3
<1>5. more \in Nat /\ more <= 2
  OBVIOUS
<1> HIDE DEF lo, hi, more
<1>6. box \in BoxesOf(c)
  BY <1>4 DEF BoxesOf
<1>7. Near(b, box) /\ Len(box) <= Len(Box)
  <2>1. \A k \in 1..3 : lo[k] \in 0..Extent /\ hi[k] \in 0..Extent
    BY <1>2, <1>4
  <2> QED
    BY <2>1, BoxCellsNear
<1>8. r \in Fields(b) /\ r.visits \in Nat /\ r.hits \in SUBSET Place
  BY DEF Burning, Fields
<1>9. begun \in Burning(b) /\ begun.firing = r.firing /\ begun.explosions = r.explosions /\ begun.visits = r.visits + 4 + more
  <2> DEFINE v == r.visits + 4 + more
  <2>1. v \in Nat
    BY <1>5, <1>8
  <2>2. begun = Looked(r, v, r.hits)
    BY <1>8 DEF Looked, Fields
  <2> HIDE DEF v
  <2> QED
    BY <1>8, <2>1, <2>2, VisitsKeep DEF v
<1> HIDE DEF begun, box
<1> DEFINE q == fillWithin(begun, c, box, t, colour)
           n == Len(CornerSeq(c, box, t))
<1>10. Filled(b, q, begun) /\ q.visits + 6 <= begun.visits + FillVisits(n)
  BY <1>7, <1>9, FillWithinKeeps
<1>11. Filled(b, q, r)
  BY <1>9, <1>10 DEF Filled
<1>12. q.visits \in Nat
  BY <1>11 DEF Filled, Burning, Fields
<1>13. FillVisits(n) \in Nat
  <2>1. n \in Nat
    <3> DEFINE C == Corners(c, box, t)
    <3> HIDE DEF C
    <3>1. Near(b, Only(box, C))
      BY <1>7, OnlyNear
    <3> QED
      BY <3>1 DEF C, CornerSeq, Near
  <2>2. Len(Box) \in Nat
    BY WholeBoxNear
  <2> HIDE DEF n
  <2> QED
    BY <2>1, <2>2 DEF FillVisits
<1> HIDE DEF q
<1>14. q.visits <= r.visits + FillVisits(n)
  BY <1>5, <1>8, <1>9, <1>10, <1>12, <1>13
<1> QED
  BY <1>1, <1>6, <1>11, <1>14 DEF q

-----------------------------------------------------------------------------
(* How many cells of a box are in its corner columns. *)

LEMMA Division ==
    ASSUME NEW n \in Nat, NEW m \in Nat \ {0}
    PROVE  n \div m \in Nat /\ n % m \in 0..m - 1 /\ n = m * (n \div m) + (n % m)
OBVIOUS

LEMMA Remainder ==
    ASSUME NEW n \in Nat, NEW m \in Nat \ {0}, NEW q \in Nat, NEW r \in 0..m - 1, n = m * q + r
    PROVE  n % m = r
<1> DEFINE a == n \div m
           x == n % m
<1>1. m * q + r = m * a + x /\ a \in Nat /\ x \in 0..m - 1
  BY Division
<1> HIDE DEF a, x
<1>2. ~(q < a)
  <2>1. SUFFICES ASSUME q < a PROVE FALSE
    OBVIOUS
  <2>2. m * (a - q) >= m
    <3>1. a - q \in Nat \ {0}
      BY <1>1, <2>1
    <3> QED
      BY <3>1
  <2>3. m * (a - q) = m * a - m * q
    BY <1>1
  <2> QED
    BY <1>1, <2>2, <2>3
<1>3. ~(a < q)
  <2>1. SUFFICES ASSUME a < q PROVE FALSE
    OBVIOUS
  <2>2. m * (q - a) >= m
    <3>1. q - a \in Nat \ {0}
      BY <1>1, <2>1
    <3> QED
      BY <3>1
  <2>3. m * (q - a) = m * q - m * a
    BY <1>1
  <2> QED
    BY <1>1, <2>2, <2>3
<1>4. a = q
  BY <1>1, <1>2, <1>3
<1> QED
  BY <1>1, <1>4 DEF x

Row == 2 * Extent + 1
Area == Row * Row
LayerOf(i) == (i - 1) \div Area
RowOf(i) == ((i - 1) % Area) \div Row
SpotOf(i) == (i - 1) % Row

LEMMA LayersAre ==
    /\ Row \in Nat \ {0} /\ Area \in Nat \ {0} /\ Len(Layers(Extent, Extent)) = (Extent + 1) * Area
    /\ \A i \in 1..Len(Layers(Extent, Extent)) :
          /\ LayerOf(i) \in 0..Extent /\ RowOf(i) \in 0..2 * Extent /\ SpotOf(i) \in 0..2 * Extent
          /\ i = (Area * LayerOf(i) + (Row * RowOf(i) + SpotOf(i))) + 1
          /\ Layers(Extent, Extent)[i] = <<RowOf(i) - Extent, Extent - LayerOf(i), SpotOf(i) - Extent>>
<1>1. Extent \in Nat \ {0}
  BY Sizes
<1>2. Row \in Nat \ {0} /\ Area \in Nat \ {0} /\ (Extent + 1) * Area \in Nat
  BY <1>1 DEF Row, Area
<1> DEFINE L == Layers(Extent, Extent)
           M == (Extent + 1) * Area
<1>3. L = [i \in 1..M |-> <<(((i - 1) % Area) \div Row) - Extent, Extent - ((i - 1) \div Area), ((i - 1) % Row) - Extent>>]
  BY DEF Layers, Row, Area
<1> HIDE DEF M
<1>4. M \in Nat /\ Len(L) = M
  BY <1>2, <1>3 DEF M
<1>5. \A i \in 1..M : L[i] = <<RowOf(i) - Extent, Extent - LayerOf(i), SpotOf(i) - Extent>>
  BY <1>3 DEF RowOf, LayerOf, SpotOf
<1>6. ASSUME NEW i \in 1..M
      PROVE  /\ LayerOf(i) \in 0..Extent /\ RowOf(i) \in 0..2 * Extent /\ SpotOf(i) \in 0..2 * Extent
             /\ i = (Area * LayerOf(i) + (Row * RowOf(i) + SpotOf(i))) + 1
  <2> DEFINE n == i - 1
             a == n \div Area
             y == n % Area
             x == y \div Row
             z == y % Row
  <2>1. n \in Nat /\ n < M
    BY <1>4
  <2> HIDE DEF n
  <2>2. a \in Nat /\ y \in 0..Area - 1 /\ n = Area * a + y
    BY <1>2, <2>1, Division
  <2> HIDE DEF a, y
  <2>3. y \in Nat
    BY <1>2, <2>2
  <2>4. x \in Nat /\ z \in 0..Row - 1 /\ y = Row * x + z
    BY <1>2, <2>3, Division
  <2> HIDE DEF x, z
  <2>5. n % Row = z
    <3> DEFINE q == Row * a + x
    <3>1. q \in Nat
      BY <1>2, <2>2, <2>4
    <3>2. Row * q = Row * (Row * a) + Row * x /\ Row * (Row * a) = (Row * Row) * a
      BY <1>2, <2>2, <2>4
    <3>3. n = Row * q + z
      BY <1>2, <2>2, <2>4, <3>2 DEF Area
    <3> HIDE DEF q
    <3> QED
      BY <1>2, <2>1, <2>4, <3>1, <3>3, Remainder
  <2>6. a <= Extent
    <3>1. SUFFICES ASSUME a >= Extent + 1 PROVE FALSE
      BY <1>1, <2>2
    <3>2. Area * a >= Area * (Extent + 1)
      <4>1. Area * (a - (Extent + 1)) \in Nat
        BY <1>1, <1>2, <2>2, <3>1
      <4>2. Area * (a - (Extent + 1)) = Area * a - Area * (Extent + 1)
        BY <1>1, <1>2, <2>2
      <4>3. Area * a \in Int /\ Area * (Extent + 1) \in Int
        BY <1>1, <1>2, <2>2
      <4> QED
        BY <4>1, <4>2, <4>3
    <3>3. Area * (Extent + 1) = M /\ Area * a \in Nat
      BY <1>1, <1>2, <2>2 DEF M
    <3> QED
      BY <1>4, <2>1, <2>2, <2>3, <3>2, <3>3
  <2>7. x <= 2 * Extent
    <3>1. SUFFICES ASSUME x >= Row PROVE FALSE
      BY <1>1, <2>4 DEF Row
    <3>2. Row * (x - Row) \in Nat /\ Row * (x - Row) = Row * x - Row * Row /\ Row * x \in Nat /\ Row * Row \in Nat
      BY <1>2, <2>4, <3>1
    <3>3. Row * x >= Area
      BY <3>2 DEF Area
    <3> QED
      BY <1>2, <2>2, <2>4, <3>2, <3>3
  <2>8. z <= 2 * Extent
    BY <1>1, <2>4 DEF Row
  <2>9. LayerOf(i) = a /\ RowOf(i) = x /\ SpotOf(i) = z
    BY <2>5 DEF LayerOf, RowOf, SpotOf, n, a, y, x, z
  <2>10. i = n + 1
    BY <1>4 DEF n
  <2> QED
    BY <1>1, <2>2, <2>4, <2>6, <2>7, <2>8, <2>9, <2>10
<1> QED
  BY <1>2, <1>4, <1>5, <1>6 DEF M

\* The place in the box of each cell of a corner sequence.
LEMMA CornerPlaces ==
    ASSUME NEW c \in Place, NEW box \in BoxesOf(c), NEW t
    PROVE  /\ Len(Box) = 2 * ((Extent + 1) * Area)
           /\ Len(CornerSeq(c, box, t)) \in Nat
           /\ \E pos \in [1..Len(CornerSeq(c, box, t)) -> 1..Len(Box)] :
                 /\ \A j, k \in 1..Len(CornerSeq(c, box, t)) : j # k => pos[j] # pos[k]
                 /\ \A k \in 1..Len(CornerSeq(c, box, t)) : Corner(c, Sum3(c, Box[pos[k]]), t)
<1> DEFINE n == Len(Box)
           M == (Extent + 1) * Area
           K == Corners(c, box, t)
           s == CornerSeq(c, box, t)
<1>1. M \in Nat /\ n = 2 * M /\ n \in Nat
  <2>1. Len(Layers(Extent, Extent)) = M /\ M \in Nat
    <3>1. Extent + 1 \in Nat /\ Area \in Nat /\ Len(Layers(Extent, Extent)) = M
      BY Sizes, LayersAre
    <3>2. \A a, e \in Nat : e * a \in Nat
      OBVIOUS
    <3> QED
      BY <3>1, <3>2
  <2> HIDE DEF M
  <2>2. 2 * M \in Nat
    BY <2>1
  <2> QED
    BY <2>1, <2>2 DEF Box, DownUp
<1>2. PICK lo \in [1..3 -> {0, Extent}], hi \in [1..3 -> {0, Extent}] : box = BoxCells(c, lo, hi)
  BY DEF BoxesOf
<1> HIDE DEF M
<1> DEFINE within(i) ==
              /\ \A k \in 1..3 : Box[i][k] \in -lo[k]..hi[k]
              /\ IF i % 2 = 1 THEN c[2] + Box[i][2] > 0 ELSE c[2] + Box[i][2] < Height
           S == {i \in 1..n : within(i)}
           all == [i \in 1..n |-> i]
           places == Only(all, S)
<1> HIDE DEF n, S
<1>3. Len(all) = n /\ \A i \in 1..n : all[i] = i
  BY <1>1
<1> HIDE DEF all
<1>4. Len(places) \in Nat /\ Placed(all, n, places)
  <2>1. Len(all) \in Nat
    BY <1>1, <1>3
  <2>2. Len(places) \in Nat
    BY <2>1, OnlyIn
  <2>3. Placed(all, Len(all), places)
    BY <2>1, OnlyPlaced
  <2> QED
    BY <1>3, <2>2, <2>3
<1>5. PICK pos1 \in [1..Len(places) -> 1..n] :
         /\ \A k \in 1..Len(places) : places[k] = all[pos1[k]]
         /\ \A j, k \in 1..Len(places) : j # k => pos1[j] # pos1[k]
  BY <1>4 DEF Placed
<1> HIDE DEF places
<1>6. box = [i \in 1..Len(places) |-> Sum3(c, Box[places[i]])]
  BY <1>2 DEF BoxCells, places, all, S, n
<1>7. Len(box) = Len(places) /\ \A i \in 1..Len(places) : box[i] = Sum3(c, Box[pos1[i]])
  BY <1>3, <1>4, <1>5, <1>6
<1>8. \A i \in K : Corner(c, i, t)
  BY DEF Corners
<1> HIDE DEF K
<1>9. Len(s) \in Nat /\ (\A k \in 1..Len(s) : s[k] \in K) /\ Placed(box, Len(box), s)
  <2>1. Len(box) \in Nat
    BY <1>4, <1>7
  <2>2. Only(box, K) = s
    BY DEF CornerSeq, K
  <2> QED
    BY <2>1, <2>2, OnlyIn, OnlyPlaced
<1> HIDE DEF s
<1>10. PICK pos2 \in [1..Len(s) -> 1..Len(box)] :
         /\ \A k \in 1..Len(s) : s[k] = box[pos2[k]]
         /\ \A j, k \in 1..Len(s) : j # k => pos2[j] # pos2[k]
  BY <1>9 DEF Placed
<1> DEFINE pos == [k \in 1..Len(s) |-> pos1[pos2[k]]]
<1>11. pos \in [1..Len(s) -> 1..n]
  BY <1>4, <1>5, <1>7, <1>10
<1>12. \A j, k \in 1..Len(s) : j # k => pos[j] # pos[k]
  BY <1>4, <1>5, <1>7, <1>10
<1>13. ASSUME NEW k \in 1..Len(s) PROVE Corner(c, Sum3(c, Box[pos[k]]), t)
  <2>1. s[k] \in K /\ s[k] = box[pos2[k]] /\ pos2[k] \in 1..Len(places)
    BY <1>7, <1>9, <1>10
  <2>2. box[pos2[k]] = Sum3(c, Box[pos[k]])
    BY <1>7, <2>1
  <2> QED
    BY <1>8, <2>1, <2>2
<1> QED
  BY <1>1, <1>9, <1>11, <1>12, <1>13 DEF n, s, M

\* Which corner, in which layer, below or above.
CornerCode(i, below) ==
    8 * LayerOf(i) + (IF RowOf(i) = 0 THEN 0 ELSE 4) + (IF SpotOf(i) = 0 THEN 0 ELSE 2) + (IF below THEN 1 ELSE 2)

LEMMA CodeIs ==
    ASSUME NEW i, LayerOf(i) \in 0..Extent, Extent \in Nat, NEW below
    PROVE  CornerCode(i, below) \in 1..8 * (Extent + 1)
<1> DEFINE x == IF RowOf(i) = 0 THEN 0 ELSE 4
           z == IF SpotOf(i) = 0 THEN 0 ELSE 2
           p == IF below THEN 1 ELSE 2
<1>1. x \in {0, 4} /\ z \in {0, 2} /\ p \in {1, 2} /\ CornerCode(i, below) = ((8 * LayerOf(i) + x) + z) + p
  BY DEF CornerCode
<1> HIDE DEF x, z, p
<1> QED
  BY <1>1

LEMMA CornersFew ==
    ASSUME NEW c \in Place, NEW box \in BoxesOf(c), NEW t
    PROVE  Len(CornerSeq(c, box, t)) \in 0..8 * (Extent + 1)
<1> DEFINE s == CornerSeq(c, box, t)
           M == (Extent + 1) * Area
           L == Layers(Extent, Extent)
           half(j) == (j + 1) \div 2
           code == [j \in 1..2 * M |-> CornerCode(half(j), j % 2 = 1)]
<1>1. Extent \in Nat \ {0} /\ M \in Nat /\ Len(L) = M /\ 2 * M \in Nat
  <2>1. Extent + 1 \in Nat /\ Area \in Nat /\ Len(L) = M /\ Extent \in Nat \ {0}
    BY Sizes, LayersAre
  <2>2. \A a, e \in Nat : e * a \in Nat
    OBVIOUS
  <2> QED
    BY <2>1, <2>2
<1>2. PICK pos \in [1..Len(s) -> 1..2 * M] :
         /\ Len(s) \in Nat /\ Len(Box) = 2 * M
         /\ \A j, k \in 1..Len(s) : j # k => pos[j] # pos[k]
         /\ \A k \in 1..Len(s) : Corner(c, Sum3(c, Box[pos[k]]), t)
  BY CornerPlaces
<1> HIDE DEF s, M
<1>3. \A j \in 1..2 * M : half(j) \in 1..M /\ j = 2 * half(j) - (IF j % 2 = 1 THEN 1 ELSE 0)
  BY <1>1
<1>4. \A j \in 1..2 * M : Box[j] = IF j % 2 = 1 THEN Mirrored(L[half(j)]) ELSE L[half(j)]
  <2>1. Box = [i \in 1..2 * M |-> IF i % 2 = 1 THEN Mirrored(L[half(i)]) ELSE L[half(i)]]
    BY <1>1 DEF Box, DownUp
  <2> HIDE DEF L, half
  <2> QED
    BY <2>1
<1>5. \A i \in 1..M : /\ LayerOf(i) \in 0..Extent /\ RowOf(i) \in 0..2 * Extent /\ SpotOf(i) \in 0..2 * Extent
                      /\ i = (Area * LayerOf(i) + (Row * RowOf(i) + SpotOf(i))) + 1
                      /\ L[i] = <<RowOf(i) - Extent, Extent - LayerOf(i), SpotOf(i) - Extent>>
  BY <1>1, LayersAre
<1> HIDE DEF L, half
<1>6. ASSUME NEW j \in 1..2 * M, Corner(c, Sum3(c, Box[j]), t)
      PROVE  RowOf(half(j)) \in {0, 2 * Extent} /\ SpotOf(half(j)) \in {0, 2 * Extent}
  <2> DEFINE i == half(j)
             o == Box[j]
             d == Sum3(c, o)
  <2>1. i \in 1..M
    BY <1>3
  <2> HIDE DEF i
  <2>2. o[1] = RowOf(i) - Extent /\ o[3] = SpotOf(i) - Extent
    <3>1. o = IF j % 2 = 1 THEN Mirrored(L[i]) ELSE L[i]
      BY <1>4 DEF i
    <3> DEFINE l == L[i]
    <3>2. l = <<RowOf(i) - Extent, Extent - LayerOf(i), SpotOf(i) - Extent>>
      BY <1>5, <2>1
    <3> HIDE DEF l, o
    <3>3. l[1] = RowOf(i) - Extent /\ l[3] = SpotOf(i) - Extent
      BY <3>2
    <3>4. Mirrored(l)[1] = l[1] /\ Mirrored(l)[3] = l[3]
      BY DEF Mirrored
    <3>5. o = Mirrored(l) \/ o = l
      BY <3>1 DEF l
    <3> QED
      BY <3>3, <3>4, <3>5
  <2>3. c[1] \in Int /\ c[3] \in Int
    BY DEF Place
  <2> HIDE DEF o
  <2>4. d[1] = c[1] + o[1] /\ d[3] = c[3] + o[3]
    BY DEF Sum3
  <2>5. Abs(d[1] - c[1]) + Abs(d[3] - c[3]) = 2 * Extent
    BY <1>6 DEF Corner, o
  <2> HIDE DEF d
  <2>6. RowOf(i) \in 0..2 * Extent /\ SpotOf(i) \in 0..2 * Extent
    BY <1>5, <2>1
  <2> DEFINE x == RowOf(i)
             z == SpotOf(i)
  <2>7. d[1] - c[1] = x - Extent /\ d[3] - c[3] = z - Extent /\ x \in 0..2 * Extent /\ z \in 0..2 * Extent
    BY <1>1, <2>2, <2>3, <2>4, <2>6
  <2> HIDE DEF x, z
  <2>8. Abs(x - Extent) + Abs(z - Extent) = 2 * Extent
    BY <2>5, <2>7
  <2>9. x \in {0, 2 * Extent} /\ z \in {0, 2 * Extent}
    BY <1>1, <2>7, <2>8 DEF Abs
  <2> QED
    BY <2>9 DEF x, z, i
<1>7. \A j \in 1..2 * M : code[j] = CornerCode(half(j), j % 2 = 1)
  OBVIOUS
<1> HIDE DEF code
<1>8. \A k \in 1..Len(s) : code[pos[k]] \in 1..8 * (Extent + 1)
  <2> TAKE k \in 1..Len(s)
  <2>1. pos[k] \in 1..2 * M
    BY <1>2
  <2> DEFINE i == half(pos[k])
             below == pos[k] % 2 = 1
  <2>2. i \in 1..M /\ code[pos[k]] = CornerCode(i, below)
    BY <1>3, <1>7, <2>1
  <2> HIDE DEF i, below
  <2>3. LayerOf(i) \in 0..Extent
    BY <1>5, <2>2
  <2> QED
    BY <1>1, <2>2, <2>3, CodeIs
<1>9. ASSUME NEW k \in 1..Len(s), NEW l \in 1..Len(s), k # l
      PROVE  code[pos[k]] # code[pos[l]]
  <2> DEFINE i == half(pos[k])
             j == half(pos[l])
             u == pos[k] % 2 = 1
             v == pos[l] % 2 = 1
  <2>1. pos[k] \in 1..2 * M /\ pos[l] \in 1..2 * M /\ pos[k] # pos[l]
    BY <1>2, <1>9
  <2>2. i \in 1..M /\ j \in 1..M /\ pos[k] = 2 * i - (IF u THEN 1 ELSE 0) /\ pos[l] = 2 * j - (IF v THEN 1 ELSE 0)
    BY <1>3, <2>1
  <2>3. RowOf(i) \in {0, 2 * Extent} /\ SpotOf(i) \in {0, 2 * Extent} /\ RowOf(j) \in {0, 2 * Extent} /\ SpotOf(j) \in {0, 2 * Extent}
    BY <1>2, <1>6, <2>1
  <2>4. u \in BOOLEAN /\ v \in BOOLEAN
    OBVIOUS
  <2>5. code[pos[k]] = CornerCode(i, u) /\ code[pos[l]] = CornerCode(j, v)
    BY <1>7, <2>1
  <2> HIDE DEF i, j, u, v
  <2>6. i # j \/ u # v
    BY <2>1, <2>2
  <2>7. SUFFICES ASSUME CornerCode(i, u) = CornerCode(j, v) PROVE FALSE
    BY <2>5
  <2>8. LayerOf(i) \in Nat /\ LayerOf(j) \in Nat
    BY <1>5, <2>2
  <2>9. LayerOf(i) = LayerOf(j) /\ RowOf(i) = RowOf(j) /\ SpotOf(i) = SpotOf(j) /\ u = v
    <3> DEFINE x1 == IF RowOf(i) = 0 THEN 0 ELSE 4
               x2 == IF RowOf(j) = 0 THEN 0 ELSE 4
               z1 == IF SpotOf(i) = 0 THEN 0 ELSE 2
               z2 == IF SpotOf(j) = 0 THEN 0 ELSE 2
               p1 == IF u THEN 1 ELSE 2
               p2 == IF v THEN 1 ELSE 2
    <3>1. /\ x1 \in {0, 4} /\ x2 \in {0, 4} /\ z1 \in {0, 2} /\ z2 \in {0, 2} /\ p1 \in {1, 2} /\ p2 \in {1, 2}
          /\ x1 = x2 => RowOf(i) = RowOf(j)
          /\ z1 = z2 => SpotOf(i) = SpotOf(j)
          /\ p1 = p2 => u = v
      BY <1>1, <2>3, <2>4
    <3>2. ((8 * LayerOf(i) + x1) + z1) + p1 = ((8 * LayerOf(j) + x2) + z2) + p2
      BY <2>7 DEF CornerCode
    <3> HIDE DEF x1, x2, z1, z2, p1, p2
    <3>3. LayerOf(i) = LayerOf(j) /\ x1 = x2 /\ z1 = z2 /\ p1 = p2
      <4> DEFINE a1 == LayerOf(i)
                 a2 == LayerOf(j)
      <4>1. /\ a1 \in Nat /\ a2 \in Nat
            /\ x1 \in {0, 4} /\ x2 \in {0, 4} /\ z1 \in {0, 2} /\ z2 \in {0, 2} /\ p1 \in {1, 2} /\ p2 \in {1, 2}
            /\ ((8 * a1 + x1) + z1) + p1 = ((8 * a2 + x2) + z2) + p2
        BY <2>8, <3>1, <3>2
      <4> HIDE DEF a1, a2
      <4>2. a1 = a2 /\ x1 = x2 /\ z1 = z2 /\ p1 = p2
        BY ONLY <4>1
      <4> QED
        BY <4>2 DEF a1, a2
    <3> QED
      BY <3>1, <3>3
  <2>10. i = j
    BY <1>5, <2>2, <2>9
  <2> QED
    BY <2>6, <2>9, <2>10
<1> DEFINE f == [k \in 1..Len(s) |-> code[pos[k]]]
<1>10. f \in Injection(1..Len(s), 1..8 * (Extent + 1))
  BY <1>8, <1>9, Fun_IsInj
<1> HIDE DEF f
<1>11. 8 * (Extent + 1) \in Nat /\ Len(s) \in Nat
  BY <1>1, <1>2
<1>12. IsFiniteSet(1..8 * (Extent + 1)) /\ Cardinality(1..8 * (Extent + 1)) = 8 * (Extent + 1) /\ Cardinality(1..Len(s)) = Len(s)
  <2> DEFINE e == 8 * (Extent + 1)
             l == Len(s)
  <2>1. e \in Nat /\ l \in Nat
    BY <1>11
  <2> HIDE DEF e, l
  <2>2. IsFiniteSet(1..e) /\ Cardinality(1..e) = e /\ Cardinality(1..l) = l
    BY <2>1, FS_Interval
  <2> QED
    BY <2>2 DEF e, l
<1>13. Cardinality(1..Len(s)) <= Cardinality(1..8 * (Extent + 1))
  BY <1>10, <1>12, FS_Injection
<1> QED
  BY <1>11, <1>12, <1>13 DEF s

-----------------------------------------------------------------------------
(* A burn. *)

LEMMA FillSpends ==
    ASSUME NEW b, Given(b), NEW r \in Burning(b), NEW c \in Place, Far(c, b.root) <= FillsInReach,
           NEW t \in 81..111, NEW colour \in Byte
    PROVE  /\ Filled(b, fill(r, c, t, colour), r) /\ expand_visits_per_fill \in Nat
           /\ fill(r, c, t, colour).visits <= r.visits + expand_visits_per_fill
<1> DEFINE q == fill(r, c, t, colour)
           m == Len(Box)
<1>1. PICK box \in BoxesOf(c) : q.visits <= r.visits + FillVisits(Len(CornerSeq(c, box, t)))
  BY FillKeeps
<1>2. Filled(b, q, r)
  BY FillKeeps
<1> DEFINE n == Len(CornerSeq(c, box, t))
<1>3. n \in Nat /\ n <= 8 * (Extent + 1) /\ Extent \in Nat
  BY CornersFew, Sizes
<1>4. Len(Box) = 2 * ((Extent + 1) * Area) /\ Area \in Nat /\ m \in Nat
  <2>1. Len(Box) = 2 * ((Extent + 1) * Area)
    BY CornerPlaces
  <2> QED
    BY <2>1, LayersAre, WholeBoxNear
<1>5. 2 * (2 * Extent + 1) * (2 * Extent + 1) * (Extent + 1) = m
  <2>1. 2 * (2 * Extent + 1) * (2 * Extent + 1) = 2 * Area
    BY <1>3 DEF Area, Row
  <2>2. 2 * (2 * Extent + 1) * (2 * Extent + 1) * (Extent + 1) = (2 * Area) * (Extent + 1)
    BY <2>1
  <2>3. (2 * Area) * (Extent + 1) = 2 * ((Extent + 1) * Area)
    BY <1>3, <1>4
  <2> QED
    BY <1>4, <2>2, <2>3
<1> HIDE DEF m, n
<1>6. FillVisits(n) <= expand_visits_per_fill /\ expand_visits_per_fill \in Nat /\ FillVisits(n) \in Nat
  <2>1. FillVisits(n) = ((6 + m) + 5 * n) + m
    BY DEF FillVisits, m
  <2>2. expand_visits_per_fill = ((6 + m) + 5 * (8 * (Extent + 1))) + m
    BY <1>5 DEF expand_visits_per_fill
  <2> QED
    BY <1>3, <1>4, <2>1, <2>2
<1>7. q.visits \in Nat /\ r.visits \in Nat
  BY <1>2 DEF Filled, Burning, Fields
<1> HIDE DEF q
<1>8. q.visits <= r.visits + FillVisits(n)
  BY <1>1 DEF n
<1>9. q.visits <= r.visits + expand_visits_per_fill
  BY <1>6, <1>7, <1>8
<1> QED
  BY <1>2, <1>6, <1>9 DEF q

\* A record whose marks of the firing block alone differ.
Marked(r, e, v, at, again) == [r EXCEPT !.expansions = e, !.visits = v, !.firing = at, !.refire = again]

LEMMA MarkedKeeps ==
    ASSUME NEW b, Given(b), NEW r \in Burning(b), NEW e \in Nat, NEW v \in Nat,
           NEW at \in Place \cup {Absent}, NEW again \in BOOLEAN
    PROVE  Marked(r, e, v, at, again) \in Burning(b)
<1> DEFINE q == Marked(r, e, v, at, again)
<1>1. r \in Fields(b) /\ r.aired \subseteq r.written /\ \A c \in Cells \ r.written : r.w[c] = b.w0[c]
  BY DEF Burning
<1>2. q \in Fields(b)
  BY <1>1 DEF Fields, Marked
<1>3. q.w = r.w /\ q.written = r.written /\ q.aired = r.aired /\ q.explosions = r.explosions /\ q.visits = v
  BY <1>1 DEF Fields, Marked
<1> HIDE DEF q
<1>4. q \in Burning(b)
  BY <1>1, <1>2, <1>3 DEF Burning
<1> QED
  BY <1>3, <1>4 DEF q

LEMMA RefireKeeps ==
    ASSUME NEW b, Given(b), NEW r \in Burning(b), NEW n \in Entries(b)
    PROVE  /\ Refire(r, n) \in Burning(b) /\ Refire(r, n).explosions = r.explosions
           /\ Refire(r, n).visits <= r.visits + expand_visits_per_fill
<1> DEFINE p == fill(r, n.at, n.type, 0)
           q == IF r.refire THEN p ELSE r
<1>1. n.at \in Place /\ Far(n.at, b.root) <= FillsInReach /\ n.type \in 81..111 /\ 0 \in Byte
  BY CellsArePlaces DEF Entries, Reached, Byte
<1>2. Filled(b, p, r) /\ expand_visits_per_fill \in Nat /\ p.visits <= r.visits + expand_visits_per_fill
  BY <1>1, FillSpends
<1> HIDE DEF p
<1>3. q \in Burning(b) /\ q.explosions = r.explosions
  BY <1>2 DEF Filled
<1>4. r.visits \in Nat /\ q.visits \in Nat /\ q.expansions \in Nat /\ q.refire \in BOOLEAN
  BY <1>3 DEF Burning, Fields
<1>5. q.visits <= r.visits + expand_visits_per_fill
  BY <1>2, <1>4
<1> HIDE DEF q
<1>6. Refire(r, n) = [q EXCEPT !.firing = Absent]
  BY DEF Refire, q, p
<1>7. [q EXCEPT !.firing = Absent] = Marked(q, q.expansions, q.visits, Absent, q.refire)
  BY <1>3 DEF Marked, Burning, Fields
<1>8. Marked(q, q.expansions, q.visits, Absent, q.refire) \in Burning(b)
  BY <1>3, <1>4, MarkedKeeps
<1>9. [q EXCEPT !.firing = Absent].explosions = q.explosions /\ [q EXCEPT !.firing = Absent].visits = q.visits
  BY <1>3 DEF Burning, Fields
<1> QED
  BY <1>3, <1>5, <1>6, <1>7, <1>8, <1>9

LEMMA FireKeeps ==
    ASSUME NEW b, Given(b), NEW r \in Burning(b), NEW n \in Entries(b)
    PROVE  /\ fire(r, n) \in Burning(b) /\ fire(r, n).explosions = r.explosions
           /\ fire(r, n).visits <= r.visits + EXPAND_VISITS_PER_LINK
           /\ EXPAND_VISITS_PER_LINK \in Nat
<1> DEFINE begun == Marked(r, r.expansions + 1, r.visits + 1, n.at, FALSE)
           colour == IF Get(r.w, n.at) = Absent THEN 0 ELSE r.w[n.at][2]
           p == fill(begun, n.at, n.type, colour)
           q == Clear(p, n.at)
<1>1. /\ n.at \in Place /\ Far(n.at, b.root) <= FillsInReach /\ n.type \in 81..111 /\ 0 \in Byte
      /\ n.at \in Cells /\ n.at \notin b.prot
  BY CellsArePlaces DEF Entries, Reached, Byte
<1>2. n.at \in Open(b)
  <2>1. Far(n.at, b.root) \in Nat /\ b.root \in Place
    BY <1>1, FarIs DEF Given
  <2>2. Far(n.at, b.root) <= burn_reach
    BY <1>1, <2>1, Sizes
  <2> QED
    BY <1>1, <2>2 DEF Open, Reached
<1>3. r \in Fields(b) /\ r.visits \in Nat /\ r.expansions \in Nat /\ r.w \in [Cells -> Content]
  BY DEF Burning, Fields, Worldly
<1>4. begun \in Burning(b) /\ begun.explosions = r.explosions /\ begun.visits = r.visits + 1
  <2> DEFINE e == r.expansions + 1
             v == r.visits + 1
  <2>1. e \in Nat /\ v \in Nat
    BY <1>3
  <2> HIDE DEF e, v
  <2>2. Marked(r, e, v, n.at, FALSE) \in Burning(b)
    BY <1>1, <2>1, MarkedKeeps
  <2>3. Marked(r, e, v, n.at, FALSE).explosions = r.explosions /\ Marked(r, e, v, n.at, FALSE).visits = v
    BY <1>3 DEF Marked, Fields
  <2> QED
    BY <2>2, <2>3 DEF e, v
<1>5. begun = [r EXCEPT !.expansions = @ + 1, !.visits = @ + 1, !.firing = n.at, !.refire = FALSE]
  BY <1>3 DEF Marked, Fields
<1> HIDE DEF begun
<1>6. colour \in Byte
  BY <1>1, <1>3, StoredThere DEF Value
<1> HIDE DEF colour
<1>7. Filled(b, p, begun) /\ expand_visits_per_fill \in Nat /\ p.visits <= begun.visits + expand_visits_per_fill
  BY <1>1, <1>4, <1>6, FillSpends
<1> HIDE DEF p
<1>8. p \in Burning(b) /\ p.explosions = r.explosions
  BY <1>4, <1>7 DEF Filled
<1>9. q \in Burning(b) /\ q.explosions = r.explosions /\ q.visits = p.visits
  BY <1>2, <1>8, ClearKeeps DEF SameCounts
<1> HIDE DEF q
<1>10. /\ Refire(q, n) \in Burning(b) /\ Refire(q, n).explosions = r.explosions
       /\ Refire(q, n).visits <= q.visits + expand_visits_per_fill
  BY <1>9, RefireKeeps
<1>11. fire(r, n) = Refire(q, n)
  BY <1>5 DEF fire, q, p, colour
<1>12. Refire(q, n).visits \in Nat /\ q.visits \in Nat /\ EXPAND_VISITS_PER_LINK = 1 + 2 * expand_visits_per_fill
  BY <1>9, <1>10 DEF Burning, Fields, EXPAND_VISITS_PER_LINK
<1>13. Refire(q, n).visits <= r.visits + EXPAND_VISITS_PER_LINK /\ EXPAND_VISITS_PER_LINK \in Nat
  BY <1>3, <1>4, <1>7, <1>9, <1>10, <1>12
<1> QED
  BY <1>10, <1>11, <1>13

\* One entry of the queue: within what the burn may look up, and a whole link for the first.
LEMMA LinkKeeps ==
    ASSUME NEW b, Given(b), NEW r \in Burning(b), NEW qi \in Nat \ {0}, NEW rootQueued \in BOOLEAN,
           NEW most \in Nat, r.visits <= most, b.max <= most,
           rootQueued /\ qi = 1 => r.visits + EXPAND_VISITS_PER_LINK <= most
    PROVE  /\ link(r, qi, rootQueued) \in Burning(b) /\ link(r, qi, rootQueued).explosions = r.explosions
           /\ link(r, qi, rootQueued).visits <= most
<1>1. /\ r \in Fields(b) /\ r.aired \subseteq r.written /\ \A c \in Cells \ r.written : r.w[c] = b.w0[c]
      /\ r.visits \in Nat /\ r.truncated \in Int /\ r.max = b.max /\ b.max \in Nat /\ Len(r.queue) \in Nat
      /\ \A k \in 1..Len(r.queue) : r.queue[k] \in Entries(b)
  <2>1. r \in Fields(b) /\ r.aired \subseteq r.written /\ \A c \in Cells \ r.written : r.w[c] = b.w0[c]
    BY DEF Burning
  <2>2. r.visits \in Nat /\ r.truncated \in Int /\ r.max = b.max /\ r.queue \in Seq(Entries(b))
    BY <2>1 DEF Fields
  <2>3. b.max \in Nat
    BY DEF Given
  <2>4. Len(r.queue) \in Nat /\ \A k \in 1..Len(r.queue) : r.queue[k] \in Entries(b)
    <3> DEFINE s == r.queue
               E == Entries(b)
    <3>1. s \in Seq(E)
      BY <2>2
    <3> HIDE DEF s, E
    <3>2. Len(s) \in Nat /\ \A k \in 1..Len(s) : s[k] \in E
      BY <3>1
    <3> QED
      BY <3>2 DEF s, E
  <2> QED
    BY <2>1, <2>2, <2>3, <2>4
<1>2. CASE qi > Len(r.queue)
  <2>1. link(r, qi, rootQueued) = r
    BY <1>1, <1>2 DEF link
  <2> QED
    BY <2>1
<1>3. CASE qi <= Len(r.queue)
  <2> DEFINE n == r.queue[qi]
             q == [r EXCEPT !.truncated = @ + 1]
             over == ~(rootQueued /\ qi = 1) /\ r.visits + EXPAND_VISITS_PER_LINK > r.max
  <2>1. n \in Entries(b)
    BY <1>1, <1>3
  <2>2. fire(r, n) \in Burning(b) /\ fire(r, n).explosions = r.explosions
        /\ fire(r, n).visits <= r.visits + EXPAND_VISITS_PER_LINK /\ EXPAND_VISITS_PER_LINK \in Nat
    BY <2>1, FireKeeps
  <2>3. CASE over
    <3>1. link(r, qi, rootQueued) = q
      BY <1>1, <1>3, <2>3 DEF link
    <3>2. q \in Fields(b)
      <4> DEFINE v == r.truncated + 1
      <4>1. v \in Int /\ q = [r EXCEPT !.truncated = v]
        BY <1>1
      <4> HIDE DEF v, q
      <4>2. [r EXCEPT !.truncated = v] \in Fields(b)
        BY <1>1, <4>1 DEF Fields
      <4> QED
        BY <4>1, <4>2
    <3>3. q.w = r.w /\ q.written = r.written /\ q.aired = r.aired /\ q.explosions = r.explosions /\ q.visits = r.visits
      BY <1>1 DEF Fields
    <3> HIDE DEF q
    <3>4. q \in Burning(b)
      BY <1>1, <3>2, <3>3 DEF Burning
    <3> QED
      BY <3>1, <3>3, <3>4
  <2>4. CASE ~over
    <3>1. ~(qi > Len(r.queue))
      BY <1>1, <1>3
    <3>2. link(r, qi, rootQueued) = fire(r, n)
      BY <1>3, <2>4, <3>1 DEF link
    <3>3. fire(r, n).visits \in Nat
      BY <2>2 DEF Burning, Fields
    <3>4. r.visits + EXPAND_VISITS_PER_LINK <= most
      BY <1>1, <2>2, <2>4
    <3>5. fire(r, n).visits <= most
      BY <1>1, <2>2, <3>3, <3>4
    <3> QED
      BY <2>2, <3>2, <3>5
  <2> QED
    BY <2>3, <2>4
<1> QED
  BY <1>1, <1>2, <1>3

LEMMA ExpansionsKeep ==
    ASSUME NEW b, Given(b), NEW r \in Burning(b), NEW rootQueued \in BOOLEAN,
           NEW most \in Nat, r.visits <= most, b.max <= most,
           rootQueued => r.visits + EXPAND_VISITS_PER_LINK <= most
    PROVE  /\ expansions(r, rootQueued) \in Burning(b) /\ expansions(r, rootQueued).explosions = r.explosions
           /\ expansions(r, rootQueued).visits <= most
<1> DEFINE N == Cardinality(Cells)
           C == {q \in Burning(b) : q.explosions = r.explosions /\ q.visits <= most}
           pass(q, n) == IF link(q, n, rootQueued) \in C THEN link(q, n, rootQueued) ELSE q
           step == [n \in Nat |-> [q \in C |-> pass(q, n)]]
           Same(f) == f = [n \in 0..N |-> IF n = 0 THEN r ELSE link(f[n - 1], n, rootQueued)]
           f == CHOOSE f : Same(f)
<1>1. N \in Nat
  BY CellsAreFinite, FS_CardinalityType
<1>2. r \in C
  BY DEF C
<1>3. \A q \in C, n \in Nat \ {0, 1} : link(q, n, rootQueued) \in C
  BY LinkKeeps
<1>4. link(r, 1, rootQueued) \in C
  BY LinkKeeps
<1> HIDE DEF C
<1>5. step \in [Nat -> [C -> C]]
  OBVIOUS
<1>6. \E g : Same(g)
  <2> HIDE DEF N
  <2>1. PICK g \in [0..N -> C] : IsRun(g, N, r, step)
    <3> HIDE DEF step
    <3> QED
      BY <1>1, <1>2, <1>5, Runs
  <2>2. ASSUME NEW n \in 0..N PROVE g[n] = IF n = 0 THEN r ELSE link(g[n - 1], n, rootQueued)
    <3>1. CASE n = 0
      BY <2>1, <3>1 DEF IsRun
    <3>2. CASE n # 0
      <4>1. n \in Nat /\ n - 1 \in 0..N
        BY <1>1, <3>2
      <4>2. g[n - 1] \in C /\ (n = 1 => g[n - 1] = r)
        <5>1. 0 \in 0..N
          BY <1>1
        <5>2. g[0] = r
          <6> HIDE DEF step
          <6> QED
            BY <2>1, <5>1 DEF IsRun
        <5> HIDE DEF step
        <5> QED
          BY <2>1, <4>1, <5>2
      <4>3. link(g[n - 1], n, rootQueued) \in C
        <5>1. CASE n = 1
          BY <1>4, <4>2, <5>1
        <5>2. CASE n # 1
          BY <1>3, <3>2, <4>1, <4>2, <5>2
        <5> QED
          BY <5>1, <5>2
      <4>4. step[n][g[n - 1]] = link(g[n - 1], n, rootQueued)
        BY <4>1, <4>2, <4>3
      <4>5. g[n] = step[n][g[n - 1]]
        <5> HIDE DEF step
        <5> QED
          BY <2>1, <3>2 DEF IsRun
      <4> QED
        BY <3>2, <4>4, <4>5
    <3> QED
      BY <3>1, <3>2
  <2>3. Same(g)
    <3> HIDE DEF step
    <3> QED
      BY <2>1, <2>2
  <2> QED
    BY <2>3
<1>7. Same(f)
  BY <1>6
<1>8. expansions(r, rootQueued) = f[N]
  BY DEF expansions
<1> HIDE DEF f, N
<1>9. f[0] = r
  BY <1>1, <1>7
<1>10. ASSUME NEW n \in 1..N, f[n - 1] \in C PROVE f[n] \in C
  <2>1. f[n] = link(f[n - 1], n, rootQueued)
    <3>1. n \in 0..N /\ n # 0
      BY <1>1
    <3> QED
      BY <1>7, <3>1
  <2>2. CASE n = 1
    BY <1>4, <1>9, <2>1, <2>2
  <2>3. CASE n # 1
    BY <1>1, <1>3, <1>10, <2>1, <2>3
  <2> QED
    BY <2>2, <2>3
<1>11. f[0] \in C
  BY <1>2, <1>9
<1>12. f[N] \in C
  BY <1>1, <1>10, <1>11, Along
<1> QED
  BY <1>8, <1>12 DEF C

Begun(b) == Start(b.w0, b.root, b.max, b.prot, FALSE)

LEMMA BegunKeeps ==
    ASSUME NEW b, Given(b), b.root \in Cells
    PROVE  /\ Begun(b) \in Burning(b) /\ Begun(b).visits = 0 /\ Begun(b).explosions = 0 /\ Begun(b).w = b.w0
           /\ Begun(b).root = b.root /\ Begun(b).prot = b.prot
           /\ [Begun(b) EXCEPT !.visits = 1] \in Burning(b)
           /\ [Begun(b) EXCEPT !.hits = {b.root}] \in Burning(b)
<1> DEFINE q == Begun(b)
           E == Seq(Entries(b))
           O == SUBSET Open(b)
           W == Worldly(b)
<1>1. Fields(b) = [w : W, root : {b.root}, max : {b.max}, prot : {b.prot}, dry : {FALSE},
                   refused : Int, truncated : Int, explosions : Nat, expansions : Nat, visits : Nat,
                   hits : SUBSET Place, written : O, aired : SUBSET Cells,
                   queue : E, lit : SUBSET Place, firing : Place \cup {Absent}, refire : BOOLEAN]
  BY DEF Fields
<1>2. {} \in O /\ <<>> \in E /\ b.w0 \in W
  BY DEF Given
<1>3. b.root \in Place
  BY CellsArePlaces
<1> HIDE DEF E, O, W
<1>4. q \in Fields(b) /\ [q EXCEPT !.visits = 1] \in Fields(b) /\ [q EXCEPT !.hits = {b.root}] \in Fields(b)
  <2>1. q \in Fields(b)
    <3>1. Absent \in Place \cup {Absent} /\ FALSE \in BOOLEAN /\ 0 \in Int /\ 0 \in Nat
      OBVIOUS
    <3>2. q = [w |-> b.w0, root |-> b.root, max |-> b.max, prot |-> b.prot, dry |-> FALSE,
               refused |-> 0, truncated |-> 0, explosions |-> 0, expansions |-> 0, visits |-> 0,
               hits |-> {}, written |-> {}, aired |-> {}, queue |-> <<>>, lit |-> {}, firing |-> Absent, refire |-> FALSE]
      BY DEF Begun, Start
    <3> DEFINE none == <<>>
               empty == {}
    <3>3. none \in E /\ empty \in O /\ empty \in SUBSET Place /\ empty \in SUBSET Cells
      BY <1>2
    <3>4. q = [w |-> b.w0, root |-> b.root, max |-> b.max, prot |-> b.prot, dry |-> FALSE,
               refused |-> 0, truncated |-> 0, explosions |-> 0, expansions |-> 0, visits |-> 0,
               hits |-> empty, written |-> empty, aired |-> empty, queue |-> none, lit |-> empty, firing |-> Absent, refire |-> FALSE]
      BY <3>2
    <3> HIDE DEF q, none, empty
    <3> QED
      BY <1>1, <1>2, <3>1, <3>3, <3>4
  <2> HIDE DEF q
  <2>2. [q EXCEPT !.visits = 1] \in Fields(b)
    BY <2>1 DEF Fields
  <2>3. {b.root} \in SUBSET Place
    BY <1>3
  <2> DEFINE root == {b.root}
  <2>4. root \in SUBSET Place
    BY <2>3
  <2> HIDE DEF root
  <2>5. [q EXCEPT !.hits = root] \in Fields(b)
    BY <2>1, <2>4 DEF Fields
  <2> QED
    BY <2>1, <2>2, <2>5 DEF root
<1>5. q.w = b.w0 /\ q.aired = {} /\ q.visits = 0 /\ q.explosions = 0 /\ q.root = b.root /\ q.prot = b.prot
  BY DEF Begun, Start
<1>6. [q EXCEPT !.visits = 1].w = b.w0 /\ [q EXCEPT !.visits = 1].aired = {}
  BY DEF Begun, Start
<1>7. [q EXCEPT !.hits = {b.root}].w = b.w0 /\ [q EXCEPT !.hits = {b.root}].aired = {}
  BY DEF Begun, Start
<1>8. \A p \in Fields(b) : p.w = b.w0 /\ p.aired = {} => p \in Burning(b)
  BY DEF Burning
<1> HIDE DEF q
<1>9. q \in Burning(b) /\ [q EXCEPT !.visits = 1] \in Burning(b) /\ [q EXCEPT !.hits = {b.root}] \in Burning(b)
  BY <1>4, <1>5, <1>6, <1>7, <1>8
<1> QED
  BY <1>5, <1>9 DEF q

\* What one burn may look up.
Allowance(max) == Max({max, explode_visits_per_blast, 1 + EXPAND_VISITS_PER_LINK})

LEMMA AllowanceIs ==
    ASSUME NEW max \in Nat
    PROVE  /\ Allowance(max) \in Nat /\ max <= Allowance(max) /\ 1 + EXPAND_VISITS_PER_LINK <= Allowance(max)
           /\ Max({max, explode_visits_per_blast}) \in Nat
           /\ Max({max, explode_visits_per_blast}) <= Allowance(max)
<1> DEFINE x == explode_visits_per_blast
           y == 1 + EXPAND_VISITS_PER_LINK
           u == IF max >= x THEN max ELSE x
           m == IF u >= y THEN u ELSE y
           S == {max, x, y}
<1>1. x \in Nat /\ y \in Nat
  <2>1. expand_visits_per_fill \in Nat
    <3>1. Len(Box) \in Nat /\ Extent \in Nat /\ Area \in Nat /\ Len(Box) = 2 * ((Extent + 1) * Area)
      <4>1. PICK c \in Place : TRUE
        <5>1. <<0, 0, 0>> \in Place
          BY DEF Place
        <5> QED
          BY <5>1
      <4>2. PICK box \in BoxesOf(c) : TRUE
        <5> DEFINE f == [i \in 1..3 |-> Extent]
                   Bounds == [1..3 -> {0, Extent}]
        <5>1. f \in Bounds
          OBVIOUS
        <5> HIDE DEF f, Bounds
        <5>2. BoxCells(c, f, f) \in {BoxCells(c, lo, hi) : lo \in Bounds, hi \in Bounds}
          BY <5>1
        <5> QED
          BY <5>2 DEF BoxesOf, Bounds
      <4>3. Len(Box) = 2 * ((Extent + 1) * Area)
        BY <4>2, CornerPlaces
      <4>4. Extent \in Nat /\ Area \in Nat
        BY Sizes, LayersAre
      <4>5. \A a, e \in Nat : 2 * ((e + 1) * a) \in Nat
        OBVIOUS
      <4> QED
        BY <4>3, <4>4, <4>5
    <3>2. 2 * (2 * Extent + 1) * (2 * Extent + 1) * (Extent + 1) \in Nat
      BY <3>1
    <3> DEFINE z == 2 * (2 * Extent + 1) * (2 * Extent + 1) * (Extent + 1)
    <3>3. expand_visits_per_fill = ((6 + z) + 5 * (8 * (Extent + 1))) + z /\ z \in Nat
      BY <3>2 DEF expand_visits_per_fill
    <3> HIDE DEF z
    <3> QED
      BY <3>1, <3>3
  <2>2. EXPAND_VISITS_PER_LINK \in Nat
    BY <2>1 DEF EXPAND_VISITS_PER_LINK
  <2> QED
    BY <2>2, SphereIn DEF explode_visits_per_blast
<1> HIDE DEF x, y
<1>2. m \in S /\ \A z \in S : m >= z
  BY <1>1
<1>3. \A k \in S : (\A z \in S : k >= z) => k = m
  <2> TAKE k \in S
  <2>1. k \in Nat /\ m \in Nat
    BY <1>1
  <2> HIDE DEF m, S
  <2> QED
    BY <1>2, <2>1
<1>4. Allowance(max) = Max(S)
  BY DEF Allowance, S, x, y
<1>5. Max({max, x}) = u
  BY <1>1, MaxOfTwo
<1>6. m \in Nat /\ max <= m /\ y <= m /\ u <= m /\ u \in Nat
  BY <1>1
<1> HIDE DEF m, S
<1>7. Max(S) = m
  BY <1>2, <1>3 DEF Max
<1> QED
  BY <1>4, <1>5, <1>6, <1>7 DEF x, y

BurnOf(b) == simBurn(b.w0, b.root, b.max, b.prot, FALSE)

\* The burn as a whole: it writes only what is open to it, within its budget.
LEMMA BurnKeeps ==
    ASSUME NEW b, Given(b), b.root \in Cells
    PROVE  /\ BurnOf(b) \in Burning(b)
           /\ BurnOf(b).explosions * explode_visits_per_blast <= Max({b.max, explode_visits_per_blast})
           /\ BurnOf(b).visits <= Allowance(b.max)
<1> DEFINE r == Begun(b)
           seen == [r EXCEPT !.visits = 1]
           struck == [r EXCEPT !.hits = {b.root}]
           c == b.root
           w == b.w0
           K == explode_visits_per_blast
           X == Max({b.max, K})
           q == BurnOf(b)
           Fine(p) == p \in Burning(b) /\ p.explosions * K <= X /\ p.visits <= Allowance(b.max)
<1>1. b.max \in Nat /\ w \in [Cells -> Content] /\ c \in Place /\ c \in Cells
  BY DEF Given, Worldly
<1>2. K \in Nat /\ X \in Nat /\ X <= Allowance(b.max) /\ Allowance(b.max) \in Nat /\ b.max <= Allowance(b.max)
      /\ 1 + EXPAND_VISITS_PER_LINK <= Allowance(b.max) /\ 1 <= K /\ K <= X
  <2>1. K \in Nat \ {0} /\ X = IF b.max >= K THEN b.max ELSE K
    BY <1>1, MaxBlastsIs, MaxOfTwo
  <2> QED
    BY <1>1, <2>1, AllowanceIs
<1>3. r \in Burning(b) /\ seen \in Burning(b) /\ struck \in Burning(b) /\ r.visits = 0 /\ r.explosions = 0 /\ r.w = w
  BY BegunKeeps
<1>4. seen.visits = 1 /\ seen.explosions = 0 /\ struck.visits = 0 /\ struck.explosions = 0 /\ seen.w = w
  BY DEF Begun, Start
<1>5. Fine(seen) /\ Fine(struck)
  <2>1. 0 * K = 0 /\ 1 <= Allowance(b.max)
    BY <1>2
  <2> QED
    BY <1>2, <1>3, <1>4, <2>1
<1>6. c \notin b.prot => c \in Open(b)
  <2>1. Far(c, c) <= 0
    BY <1>1, FarIs DEF Place
  <2>2. Far(c, c) \in Nat /\ burn_reach \in Nat
    BY <1>1, FarIs, Sizes
  <2> QED
    BY <1>1, <2>1, <2>2 DEF Open, Reached
<1>7. q = IF c \in b.prot THEN struck
          ELSE CASE Get(w, c) = Absent \/ Has(w, c, {Air}) -> seen
                 [] Has(w, c, {Tnt}) -> simExplode(r)
                 [] Has(w, c, 81..111) -> expansions(light(seen, <<c>>, FALSE), TRUE)
                 [] OTHER -> Clear(seen, c)
  BY DEF BurnOf, simBurn, Begun
<1> HIDE DEF r, seen, struck
<1>8. CASE c \in b.prot
  BY <1>5, <1>7, <1>8
<1>9. CASE c \notin b.prot /\ (Get(w, c) = Absent \/ Has(w, c, {Air}))
  <2>1. ~Has(w, c, {Tnt}) /\ ~Has(w, c, 81..111)
    BY <1>9 DEF Has, Air, Tnt
  <2>2. q = seen
    BY <1>7, <1>9, <2>1
  <2> QED
    BY <1>5, <2>2
<1>10. CASE c \notin b.prot /\ Has(w, c, {Tnt})
  <2> DEFINE bomb == [at |-> c, depth |-> 0]
             s == [r |-> r, work |-> <<bomb>>]
             e == blastChain(s)
  <2>1. Get(w, c) # Absent /\ ~Has(w, c, {Air}) /\ ~Has(w, c, 81..111)
    BY <1>10 DEF Has, Air, Tnt
  <2>2. q = simExplode(r)
    BY <1>7, <1>10, <2>1
  <2>3. r.root = c
    BY BegunKeeps DEF r
  <2>4. q = expansions(e, FALSE)
    BY <2>2, <2>3 DEF simExplode
  <2>5. bomb \in Bombs(b)
    <3>1. Far(c, c) \in Nat /\ Far(c, c) <= 0
      BY <1>1, FarIs DEF Place
    <3>2. Radius * 0 = 0 /\ 0 \in 0..MaxDepth
      BY Sizes
    <3> QED
      BY <1>1, <1>10, <3>1, <3>2 DEF Bombs
  <2>6. s \in Chains(b)
    <3> DEFINE work == <<bomb>>
    <3>1. work \in Seq(Bombs(b)) /\ Len(work) = 1
      BY <2>5
    <3>2. maxBlasts(b.max) \in Nat \ {0}
      BY <1>1, MaxBlastsIs
    <3>3. r.explosions + Len(work) <= maxBlasts(b.max) /\ r.visits <= r.explosions * K
      BY <1>2, <1>3, <3>1, <3>2
    <3>4. s = [r |-> r, work |-> work]
      OBVIOUS
    <3> HIDE DEF work, s
    <3> QED
      BY <1>3, <3>1, <3>3, <3>4 DEF Chains
  <2> HIDE DEF s
  <2>7. e \in Burning(b) /\ e.explosions <= maxBlasts(b.max) /\ e.visits <= e.explosions * K
    BY <2>6, ChainKeeps
  <2> HIDE DEF e
  <2>8. e.explosions * K <= X
    <3> DEFINE m == maxBlasts(b.max)
               n == e.explosions
    <3>1. m \in Nat /\ n \in Nat /\ n <= m /\ m * K <= X
      BY <1>1, <2>7, MaxBlastsIs DEF Burning, Fields
    <3> HIDE DEF m, n
    <3>2. (m - n) * K \in Nat
      BY <1>2, <3>1
    <3>3. (m - n) * K = m * K - n * K /\ m * K \in Nat /\ n * K \in Nat
      BY <1>2, <3>1
    <3>4. n * K <= X
      BY <1>2, <3>1, <3>2, <3>3
    <3> QED
      BY <3>4 DEF n
  <2>9. e.visits <= Allowance(b.max)
    <3> DEFINE n == e.explosions * K
               v == e.visits
    <3>1. n \in Nat /\ v \in Nat /\ v <= n /\ n <= X
      BY <1>2, <2>7, <2>8 DEF Burning, Fields
    <3> HIDE DEF n, v, X
    <3>2. v <= Allowance(b.max)
      BY <1>2, <3>1
    <3> QED
      BY <3>2 DEF v
  <2>10. /\ expansions(e, FALSE) \in Burning(b) /\ expansions(e, FALSE).explosions = e.explosions
         /\ expansions(e, FALSE).visits <= Allowance(b.max)
    BY <1>2, <2>7, <2>9, ExpansionsKeep
  <2> QED
    BY <2>4, <2>8, <2>10
<1>11. CASE c \notin b.prot /\ Has(w, c, 81..111)
  <2> DEFINE s == <<c>>
             e == light(seen, s, FALSE)
  <2>1. Get(w, c) # Absent /\ ~Has(w, c, {Air}) /\ ~Has(w, c, {Tnt})
    BY <1>11 DEF Has, Air, Tnt
  <2>2. q = expansions(e, TRUE)
    BY <1>7, <1>11, <2>1
  <2>3. Len(s) \in Nat /\ \A i \in 1..Len(s) : s[i] = c
    OBVIOUS
  <2>4. w[c][1] \in 81..111
    BY <1>1, <1>11, StoredThere
  <2> HIDE DEF s
  <2>5. e \in Burning(b) /\ SameCounts(e, seen)
    <3>1. \A i \in 1..Len(s) : /\ s[i] \in Cells /\ seen.w[s[i]][1] \in 81..111
                               /\ ~FALSE => s[i] \notin b.prot
      BY <1>1, <1>4, <1>11, <2>3, <2>4
    <3> QED
      BY <1>3, <2>3, <3>1, LightKeeps
  <2>6. e.visits = 1 /\ e.explosions = 0
    BY <1>4, <2>5 DEF SameCounts
  <2> HIDE DEF e
  <2>7. e.visits <= Allowance(b.max) /\ e.visits + EXPAND_VISITS_PER_LINK <= Allowance(b.max)
    <3>1. 1 <= Allowance(b.max)
      BY <1>2
    <3> QED
      BY <1>2, <2>6, <3>1
  <2>8. /\ expansions(e, TRUE) \in Burning(b) /\ expansions(e, TRUE).explosions = e.explosions
        /\ expansions(e, TRUE).visits <= Allowance(b.max)
    BY <1>2, <2>5, <2>7, ExpansionsKeep
  <2>9. 0 * K <= X
    BY <1>2
  <2> QED
    BY <2>2, <2>6, <2>8, <2>9
<1>12. CASE c \notin b.prot /\ ~(Get(w, c) = Absent \/ Has(w, c, {Air})) /\ ~Has(w, c, {Tnt}) /\ ~Has(w, c, 81..111)
  <2>1. q = Clear(seen, c)
    BY <1>7, <1>12
  <2>2. Clear(seen, c) \in Burning(b) /\ SameCounts(Clear(seen, c), seen)
    BY <1>3, <1>6, <1>12, ClearKeeps
  <2>3. Clear(seen, c).visits = 1 /\ Clear(seen, c).explosions = 0
    BY <1>4, <2>2 DEF SameCounts
  <2>4. 0 * K <= X /\ 1 <= Allowance(b.max)
    BY <1>2
  <2> QED
    BY <2>1, <2>2, <2>3, <2>4
<1>13. Fine(q)
  BY <1>8, <1>9, <1>10, <1>11, <1>12
<1> QED
  BY <1>13

-----------------------------------------------------------------------------
(* Signs: the list, its index and its burst go together, and no audit line of a removed *)
(* sign is lost or written twice, whatever the edits.                                    *)

Listed ==
    /\ IsFiniteSet(signs) /\ Cardinality(signs) <= MaxSigns
    /\ signBlocks = Blocks(signs)
    /\ stale \/ burst = signs

\* Lines carry the number of their edit, and the next edit's is a new one.
Numbered ==
    /\ takes \in Nat
    /\ \A l \in removals : l.n \in Nat /\ l.n < takes
    /\ \A t \in SignThreads : \A l \in hand[t] : l.n \in Nat /\ l.n < takes

SignInv ==
    /\ Listed /\ Numbered
    /\ hand = [t \in SignThreads |-> hand[t]]
    /\ RemovalsLogged

-----------------------------------------------------------------------------
LEMMA UpsertFits ==
    ASSUME IsFiniteSet(signs), Cardinality(signs) <= MaxSigns, NEW q, SignFits(q)
    PROVE  IsFiniteSet(upsert_sign(q)) /\ Cardinality(upsert_sign(q)) <= MaxSigns
<1> DEFINE rest == signs \ Slot(q)
<1>1. MaxSigns \in Nat /\ Cardinality(signs) \in Nat
  BY SignsAssumption, FS_CardinalityType
<1>2. IsFiniteSet(rest) /\ Cardinality(rest) \in Nat /\ Cardinality(rest) <= Cardinality(signs)
  BY FS_Subset, FS_CardinalityType
<1>3. Cardinality(rest) < MaxSigns
  <2>1. CASE Slot(q) = {}
    BY <1>1, <1>2, <2>1 DEF SignFits
  <2>2. CASE Slot(q) # {}
    <3>1. PICK r \in signs : r \in Slot(q)
      BY <2>2 DEF Slot
    <3>2. IsFiniteSet(signs \ {r}) /\ Cardinality(signs \ {r}) = Cardinality(signs) - 1
      BY <3>1, FS_RemoveElement
    <3>3. rest \subseteq signs \ {r}
      BY <3>1
    <3>4. Cardinality(rest) <= Cardinality(signs \ {r})
      BY <3>2, <3>3, FS_Subset
    <3> QED
      BY <1>1, <1>2, <3>2, <3>4
  <2> QED
    BY <2>1, <2>2
<1> HIDE DEF rest
<1>4. IsFiniteSet(rest \cup {q}) /\ Cardinality(rest \cup {q}) <= Cardinality(rest) + 1
  <2>1. /\ IsFiniteSet(rest \cup {q})
        /\ Cardinality(rest \cup {q}) = IF q \in rest THEN Cardinality(rest) ELSE Cardinality(rest) + 1
    BY <1>2, FS_AddElement
  <2> QED
    BY <1>2, <2>1
<1>5. Cardinality(rest \cup {q}) \in Nat
  BY <1>4, FS_CardinalityType
<1>6. IsFiniteSet(rest \cup {q}) /\ Cardinality(rest \cup {q}) <= MaxSigns
  BY <1>1, <1>2, <1>3, <1>4, <1>5
<1> QED
  BY <1>6 DEF upsert_sign, rest

\* A shorter list keeps to the limit.
LEMMA FewerFit ==
    ASSUME IsFiniteSet(signs), Cardinality(signs) <= MaxSigns, NEW s \in SUBSET signs
    PROVE  IsFiniteSet(s) /\ Cardinality(s) <= MaxSigns
<1>1. IsFiniteSet(s) /\ Cardinality(s) <= Cardinality(signs)
  BY FS_Subset
<1>2. Cardinality(s) \in Nat /\ Cardinality(signs) \in Nat /\ MaxSigns \in Nat
  BY <1>1, FS_CardinalityType, SignsAssumption
<1> QED
  BY <1>1, <1>2

\* The audit lines are not touched.
LEMMA TollKept ==
    ASSUME SignInv, UNCHANGED toll
    PROVE  Numbered' /\ hand' = [t \in SignThreads |-> hand'[t]] /\ RemovalsLogged'
BY DEF SignInv, toll, Numbered, RemovalsLogged

LEMMA PutStep ==
    ASSUME SignInv, NEW q, Put(q)
    PROVE  SignInv'
<1>1. CASE SignFits(q) /\ upsert_sign(q) # signs
  <2>1. signsChanged(upsert_sign(q))
    BY <1>1 DEF Put
  <2>2. Listed'
    BY <1>1, <2>1, UpsertFits DEF SignInv, Listed, signsChanged, Blocks
  <2> QED
    BY <2>2, TollKept DEF SignInv, Put
<1>2. CASE ~(SignFits(q) /\ upsert_sign(q) # signs)
  <2>1. Listed'
    BY <1>2 DEF Put, SignInv, Listed, Blocks
  <2> QED
    BY <2>1, TollKept DEF SignInv, Put
<1> QED
  BY <1>1, <1>2

LEMMA PutOffStep ==
    ASSUME SignInv, NEW c, PutOff(c)
    PROVE  SignInv'
<1>1. Listed'
  BY FewerFit DEF PutOff, SignInv, Listed, signsChanged, Blocks
<1> QED
  BY <1>1, TollKept DEF SignInv, PutOff

\* The lines an edit adds are nobody's yet: their number is new.
LEMMA RemoveStep ==
    ASSUME SignInv, NEW aired, NEW actor, removeSigns(aired, actor)
    PROVE  SignInv'
<1> DEFINE gone == aired \cap signBlocks
           lines == {[n |-> takes, actor |-> actor, at |-> c, signs |-> On(signs, c)] : c \in gone}
<1>1. signBlocks = Blocks(signs)
  BY DEF SignInv, Listed
<1>2. /\ signs' = {q \in signs : q.at \notin gone} /\ signBlocks' = signBlocks \ gone
      /\ stale' = (stale \/ gone # {}) /\ UNCHANGED burst
  BY DEF removeSigns
<1>3. /\ removals' = removals \cup lines /\ owed' = owed \cup lines /\ UNCHANGED hand
      /\ takes' = IF gone = {} THEN takes ELSE takes + 1
  BY <1>1 DEF removeSigns
<1>4. \A l \in lines : l.n = takes
  OBVIOUS
<1>5. lines # {} <=> gone # {}
  OBVIOUS
<1> HIDE DEF lines
<1>6. Listed'
  <2>1. IsFiniteSet(signs') /\ Cardinality(signs') <= MaxSigns
    BY <1>2, FewerFit DEF SignInv, Listed
  <2>2. signBlocks' = Blocks(signs')
    BY <1>1, <1>2 DEF Blocks
  <2>3. stale' \/ burst' = signs'
    <3>1. CASE gone = {}
      BY <1>2, <3>1 DEF SignInv, Listed
    <3>2. CASE gone # {}
      BY <1>2, <3>2
    <3> QED
      BY <3>1, <3>2
  <2> QED
    BY <2>1, <2>2, <2>3 DEF Listed, Blocks
<1> HIDE DEF gone
<1>7. takes \in Nat /\ takes' \in Nat /\ takes <= takes' /\ (lines # {} => takes < takes')
  BY <1>3, <1>5 DEF SignInv, Numbered
<1>8. Numbered'
  <2>1. \A l \in removals' : l.n \in Nat /\ l.n < takes'
    BY <1>3, <1>4, <1>7 DEF SignInv, Numbered
  <2>2. \A t \in SignThreads : \A l \in hand'[t] : l.n \in Nat /\ l.n < takes'
    BY <1>3, <1>7 DEF SignInv, Numbered
  <2> QED
    BY <1>7, <2>1, <2>2 DEF Numbered
<1>9. \A t \in SignThreads : hand[t] \cap lines = {}
  BY <1>4, <1>7 DEF SignInv, Numbered
<1>10. RemovalsLogged'
  BY <1>3, <1>9 DEF SignInv, RemovalsLogged
<1> QED
  BY <1>3, <1>6, <1>8, <1>10 DEF SignInv

LEMMA DrainStep ==
    ASSUME SignInv, NEW t \in SignThreads, Drain(t)
    PROVE  SignInv'
<1>1. Listed'
  BY DEF Drain, refreshSignBurst, SignInv, Listed, Blocks
<1>2. /\ hand' = [u \in SignThreads |-> IF u = t THEN removals ELSE hand[u]]
      /\ removals' = {} /\ UNCHANGED <<takes, owed>> /\ hand[t] = {}
  BY DEF Drain, SignInv
<1>3. Numbered'
  BY <1>2 DEF SignInv, Numbered
<1>4. RemovalsLogged'
  <2>1. owed' = UNION {hand'[u] : u \in SignThreads}
    <3>1. ASSUME NEW l \in owed PROVE \E u \in SignThreads : l \in hand'[u]
      BY <1>2, <3>1 DEF SignInv, RemovalsLogged
    <3>2. ASSUME NEW u \in SignThreads, NEW l \in hand'[u] PROVE l \in owed
      BY <1>2, <3>2 DEF SignInv, RemovalsLogged
    <3> QED
      BY <1>2, <3>1, <3>2
  <2>2. \A u, v \in SignThreads : u # v => hand'[u] \cap hand'[v] = {}
    BY <1>2 DEF SignInv, RemovalsLogged
  <2> QED
    BY <1>2, <2>1, <2>2 DEF RemovalsLogged
<1> QED
  BY <1>1, <1>2, <1>3, <1>4 DEF SignInv

\* What one thread writes no other has, and nothing of it waits.
LEMMA WriteStep ==
    ASSUME SignInv, NEW t \in SignThreads, Write_audit(t)
    PROVE  SignInv'
<1>1. Listed'
  BY DEF Write_audit, SignInv, Listed, Blocks
<1>2. /\ hand' = [u \in SignThreads |-> IF u = t THEN {} ELSE hand[u]]
      /\ owed' = owed \ hand[t] /\ UNCHANGED <<takes, removals>>
  BY DEF Write_audit, SignInv
<1>3. Numbered'
  BY <1>2 DEF SignInv, Numbered
<1>4. RemovalsLogged'
  <2>1. owed' = removals \cup UNION {hand'[u] : u \in SignThreads}
    <3>1. ASSUME NEW l \in owed' PROVE l \in removals \/ \E u \in SignThreads : l \in hand'[u]
      BY <1>2, <3>1 DEF SignInv, RemovalsLogged
    <3>2. ASSUME NEW l \in removals PROVE l \in owed'
      BY <1>2, <3>2 DEF SignInv, RemovalsLogged
    <3>3. ASSUME NEW u \in SignThreads, NEW l \in hand'[u] PROVE l \in owed'
      <4>1. u # t /\ l \in hand[u]
        BY <1>2, <3>3
      <4> QED
        BY <1>2, <4>1 DEF SignInv, RemovalsLogged
    <3> QED
      BY <3>1, <3>2, <3>3
  <2>2. \A u \in SignThreads : hand'[u] \cap removals = {} /\ \A v \in SignThreads \ {u} : hand'[u] \cap hand'[v] = {}
    BY <1>2 DEF SignInv, RemovalsLogged
  <2> QED
    BY <1>2, <2>1, <2>2 DEF RemovalsLogged
<1> QED
  BY <1>1, <1>2, <1>3, <1>4 DEF SignInv

LEMMA ServeStep ==
    ASSUME SignInv, serveSigns
    PROVE  SignInv'
<1>1. Listed'
  BY DEF serveSigns, refreshSignBurst, SignInv, Listed, Blocks
<1> QED
  BY <1>1, TollKept DEF SignInv, serveSigns

-----------------------------------------------------------------------------
LEMMA LoadedSigns ==
    ASSUME NEW s, IsFiniteSet(s), Cardinality(s) <= MaxSigns, LoadSigns(s)
    PROVE  SignInv
<1>1. Listed
  BY DEF Listed, LoadSigns
<1>2. Numbered /\ RemovalsLogged /\ hand = [t \in SignThreads |-> hand[t]]
  BY DEF LoadSigns, Numbered, RemovalsLogged
<1> QED
  BY <1>1, <1>2 DEF SignInv

LEMMA SignsInit == InitSigns => SignInv
BY LoadedSigns DEF InitSigns

LEMMA SignsNext == SignInv /\ [NextSigns]_signVars => SignInv'
<1> SUFFICES ASSUME SignInv, [NextSigns]_signVars PROVE SignInv'
  OBVIOUS
<1>1. ASSUME NEW q \in AllSigns, Put(q) PROVE SignInv'
  BY <1>1, PutStep
<1>2. ASSUME NEW c \in SignCells, PutOff(c) PROVE SignInv'
  BY <1>2, PutOffStep
<1>3. ASSUME NEW t \in SignThreads, NEW aired \in SUBSET SignCells, removeSigns(aired, t) PROVE SignInv'
  BY <1>3, RemoveStep
<1>4. ASSUME NEW t \in SignThreads, Drain(t) PROVE SignInv'
  BY <1>4, DrainStep
<1>5. ASSUME NEW t \in SignThreads, Write_audit(t) PROVE SignInv'
  BY <1>5, WriteStep
<1>6. CASE serveSigns
  BY <1>6, ServeStep
<1>7. CASE UNCHANGED signVars
  <2>1. Listed' /\ UNCHANGED toll
    BY <1>7 DEF signVars, toll, SignInv, Listed, Blocks
  <2> QED
    BY <2>1, TollKept DEF SignInv
<1> QED
  BY <1>1, <1>2, <1>3, <1>4, <1>5, <1>6, <1>7 DEF NextSigns

LEMMA SignsInvariance == SignsSpec => []SignInv
BY SignsInit, SignsNext, PTL DEF SignsSpec

\* Whatever the edits, the index is the blocks of the list, the burst is the list unless it is
\* marked stale, and the list keeps to its limit (sign_store.h, serveSigns).
THEOREM SignsAreCoherent == SignsSpec => []SignsCoherent
<1>1. SignInv => SignsCoherent
  BY DEF SignInv, Listed, SignsCoherent
<1> QED
  BY <1>1, SignsInvariance, PTL

\* Whatever the edits and however many threads drain, the audit lines still owed are those
\* that wait or that one thread has in hand (removeSignsOnBlock, drainSignRemovals).
THEOREM RemovalsAreLogged == SignsSpec => []RemovalsLogged
<1>1. SignInv => RemovalsLogged
  BY DEF SignInv
<1> QED
  BY <1>1, SignsInvariance, PTL

-----------------------------------------------------------------------------
(* Restores: what is damaged waits, and what waits is in one job. *)

Keys(job) == {<<job.target, c>> : c \in job.cells}

Covered(q) ==
    /\ q.pending = UNION {Keys(j) : j \in q.jobs}
    /\ q.hurt \subseteq q.pending
    /\ \A i, j \in q.jobs : i # j => Keys(i) \cap Keys(j) = {}

LEMMA QueueCovers ==
    ASSUME NEW q, Covered(q), NEW job
    PROVE  Covered(QueueOne(q, job))
<1> DEFINE damaged == Keys(job)
           fresh == {k \in damaged : k \notin q.pending}
           room == PendingMax - Cardinality(q.pending)
           taken == {k \in fresh : Cardinality({l \in fresh : Rank(l[2]) < Rank(k[2])}) < room}
           queued == [target |-> job.target, cells |-> {k[2] : k \in taken}]
           n == QueueOne(q, job)
<1>1. /\ n.jobs = IF taken = {} THEN q.jobs ELSE q.jobs \cup {queued}
      /\ n.pending = q.pending \cup taken
      /\ n.hurt = (q.hurt \cup damaged) \ (fresh \ taken)
  BY DEF QueueOne, Keys
<1>2. taken \subseteq fresh /\ fresh \subseteq damaged /\ fresh \cap q.pending = {} /\ damaged \ fresh \subseteq q.pending
  OBVIOUS
<1>3. \A k \in damaged : k = <<job.target, k[2]>>
  BY DEF Keys
<1> SUFFICES Covered(n)
  OBVIOUS
<1> HIDE DEF n, taken, fresh, damaged
<1>4. Keys(queued) = taken
  <2>1. \A k \in taken : k = <<job.target, k[2]>>
    BY <1>2, <1>3
  <2> QED
    BY <2>1 DEF Keys
<1> HIDE DEF queued
<1>5. \A j \in q.jobs : Keys(j) \subseteq q.pending
  BY DEF Covered
<1>6. n.hurt \subseteq n.pending
  BY <1>1, <1>2 DEF Covered
<1>7. CASE taken = {}
  BY <1>1, <1>6, <1>7 DEF Covered
<1>8. CASE taken # {}
  <2>1. n.jobs = q.jobs \cup {queued} /\ n.pending = q.pending \cup taken
    BY <1>1, <1>8
  <2>2. n.pending = UNION {Keys(j) : j \in n.jobs}
    BY <1>4, <2>1 DEF Covered
  <2>3. \A i, j \in n.jobs : i # j => Keys(i) \cap Keys(j) = {}
    BY <1>2, <1>4, <1>5, <2>1 DEF Covered
  <2> QED
    BY <1>6, <2>2, <2>3 DEF Covered
<1> QED
  BY <1>7, <1>8

LEMMA QueueStep ==
    ASSUME Covered(Waiting), NEW job, Queue(job)
    PROVE  Covered(Waiting)'
<1>1. Covered(QueueOne(Waiting, job))
  BY QueueCovers
<1>2. Waiting' = [jobs |-> jobs', pending |-> pending', hurt |-> hurt']
  BY DEF Waiting
<1> QED
  BY <1>1, <1>2 DEF Queue, Becomes, Covered

\* No other job has the cells of the one that leaves.
LEMMA RevertStep ==
    ASSUME Covered(Waiting), Revert
    PROVE  Covered(Waiting)'
<1>1. PICK job \in jobs : PopDue(job)
  BY DEF Revert
<1>2. jobs' = jobs \ {job} /\ pending' = pending \ Keys(job) /\ hurt' = hurt \ Keys(job)
  BY <1>1 DEF PopDue, Keys
<1>3. /\ pending = UNION {Keys(j) : j \in jobs} /\ hurt \subseteq pending
      /\ \A i, j \in jobs : i # j => Keys(i) \cap Keys(j) = {}
  BY DEF Waiting, Covered
<1>4. pending' = UNION {Keys(j) : j \in jobs'}
  <2>1. \A k \in pending' : \E j \in jobs' : k \in Keys(j)
    BY <1>2, <1>3
  <2>2. \A j \in jobs' : Keys(j) \subseteq pending'
    BY <1>2, <1>3
  <2> QED
    BY <2>1, <2>2
<1>5. hurt' \subseteq pending'
  BY <1>2, <1>3
<1>6. \A i, j \in jobs' : i # j => Keys(i) \cap Keys(j) = {}
  BY <1>2, <1>3
<1> QED
  BY <1>4, <1>5, <1>6 DEF Waiting, Covered

LEMMA VerdictRestores ==
    ASSUME Covered(Waiting), NEW p, Verdict(p)
    PROVE  Covered(Waiting)'
<1>1. CASE UNCHANGED revert
  BY <1>1 DEF revert, Waiting, Covered
<1>2. CASE ~UNCHANGED revert
  <2> DEFINE one == QueueOne(Waiting, [target |-> To(p, "early"), cells |-> h[p].early \cap Cells])
             two == QueueOne(one, [target |-> To(p, "late"), cells |-> h[p].late \cap Cells])
  <2>1. Becomes(two)
    BY <1>2 DEF Verdict
  <2>2. Covered(one)
    BY QueueCovers
  <2> HIDE DEF one
  <2>3. Covered(two)
    BY <2>2, QueueCovers
  <2> HIDE DEF two
  <2> QED
    BY <2>1, <2>3 DEF Becomes, Waiting, Covered
<1> QED
  BY <1>1, <1>2

-----------------------------------------------------------------------------
(* Handlers: what a handler read a step ago, and may act on, keeps it off the core zone. *)

Barred(p) == ~bypassedBy(Core, Level[p])

SoundSim(p, s) ==
    /\ s.at = "sim" /\ p \in Players /\ s.act \in Actions[p]
    /\ Barred(p) => /\ s.act.at \notin Guarded
                    /\ s.act.mode = 2 => Guarded \cap Reached(s.act.at, burn_reach) \subseteq s.held
SoundRelay(p, s) == s.at = "relay" /\ p \in Players /\ Bounded(s, s.act.at, s.held, MaxVisits)
SoundSign(p, s) == s.at = "sign" /\ p \in Players /\ (Barred(p) => s.sign.at \notin Guarded)
SoundCommit(p, s) ==
    /\ s.at = "commit" /\ p \in Players /\ s.cmd \in Commands[p] /\ s.cmd.verb \in Editing
    /\ Barred(p) => Guarded \subseteq s.held

Sound(t, s) ==
    \/ s = Idle
    \/ s.at \in {"verdict", "check"} /\ t \in Players /\ s.act \in Actions[t]
    \/ SoundSim(t, s)
    \/ s.at \in {"drain", "log"} /\ (s.then = Idle \/ SoundRelay(t, s.then))
    \/ SoundRelay(t, s)
    \/ SoundSign(t, s)
    \/ SoundCommit(t, s)

Handlers ==
    /\ h = [t \in SignThreads |-> h[t]]
    /\ \A t \in SignThreads : Sound(t, h[t])

LEMMA Threads == Players \subseteq SignThreads /\ "control" \in SignThreads /\ "server" \in SignThreads
BY EditsAssumption

LEMMA GoesKeeps ==
    ASSUME Handlers, NEW t, NEW s, Goes(t, s), t \in SignThreads => Sound(t, s)
    PROVE  Handlers'
<1>1. h' = [u \in SignThreads |-> IF u = t THEN s ELSE h[u]]
  BY DEF Handlers, Goes
<1>2. ASSUME NEW u \in SignThreads PROVE Sound(u, h'[u])
  BY <1>1 DEF Handlers
<1> QED
  BY <1>1, <1>2 DEF Handlers

LEMMA DrainsKeeps ==
    ASSUME Handlers, NEW t, NEW s, Drains(t, s), s = Idle \/ SoundRelay(t, s)
    PROVE  Handlers'
<1>1. Sound(t, s) /\ Sound(t, [at |-> "drain", then |-> s])
  BY DEF Sound
<1>2. CASE removals' = {}
  BY <1>1, <1>2, GoesKeeps DEF Drains
<1>3. CASE removals' # {}
  <2>1. Goes(t, [at |-> "drain", then |-> s])
    BY <1>3 DEF Drains
  <2> QED
    BY <1>1, <2>1, GoesKeeps
<1> QED
  BY <1>2, <1>3

LEMMA RestKeeps ==
    ASSUME Handlers, NEW t, Rest(t)
    PROVE  Handlers'
BY GoesKeeps DEF Rest, Sound

LEMMA UnchangedKeeps == Handlers /\ UNCHANGED h => Handlers'
BY DEF Handlers

\* A player's handler is where its step says, with what it took along.
LEMMA HandlerIs ==
    ASSUME Handlers, NEW t \in SignThreads
    PROVE  /\ h[t].at \in {"verdict", "check"} => t \in Players /\ h[t].act \in Actions[t]
           /\ h[t].at = "sim" => SoundSim(t, h[t])
           /\ h[t].at = "relay" => SoundRelay(t, h[t])
           /\ h[t].at = "sign" => SoundSign(t, h[t])
           /\ h[t].at = "commit" => SoundCommit(t, h[t])
           /\ h[t].at \in {"drain", "log"} => h[t].then = Idle \/ SoundRelay(t, h[t].then)
           /\ h[t].at \in {"idle", "verdict", "check", "sim", "drain", "log", "relay", "sign", "commit"}
<1>1. Sound(t, h[t])
  BY DEF Handlers
<1>2. Idle.at = "idle"
  BY DEF Idle
<1> QED
  BY <1>1, <1>2 DEF Sound, SoundSim, SoundRelay, SoundSign, SoundCommit

-----------------------------------------------------------------------------
(* Zones: whoever the core zone stops finds it among those that stand. *)

LEMMA CoreIs == Core.enforced /\ \A i \in 1..3 : Core.lo[i] \in Int /\ Core.hi[i] \in Int
<1>1. Core.lo \in Int \X Int \X Int /\ Core.hi \in Int \X Int \X Int /\ Core.enforced
  BY EditsAssumption
<1>2. 1..3 = {1, 2, 3}
  OBVIOUS
<1> QED
  BY <1>1, <1>2

LEMMA CoreBlocks ==
    ASSUME Core \in zones, NEW p, Barred(p), NEW c \in Guarded
    PROVE  blocking(zones, Level[p], c)
BY CoreIs DEF blocking, Barred, Guarded

\* Zones are looked up in a box that holds everything a burn reaches.
LEMMA ReachIsHeld ==
    ASSUME Core \in zones, NEW p, Barred(p), NEW root \in Place, NEW lo, NEW hi,
           \A i \in 1..3 : lo[i] = root[i] - burn_reach /\ hi[i] = root[i] + burn_reach
    PROVE  Guarded \cap Reached(root, burn_reach) \subseteq HeldNear(zones, Level[p], lo, hi)
<1>1. ASSUME NEW c \in Guarded, c \in Reached(root, burn_reach)
      PROVE  c \in HeldNear(zones, Level[p], lo, hi)
  <2> DEFINE near == {z \in zones : z.enforced /\ ~bypassedBy(z, Level[p]) /\ overlaps(z, lo, hi)}
  <2>1. c \in Cells /\ c \in Place /\ \A i \in 1..3 : Core.lo[i] <= c[i] /\ c[i] <= Core.hi[i] /\ c[i] \in Int
    BY <1>1, CellsArePlaces, CoreIs DEF Guarded, BoxOf
  <2>2. burn_reach \in Int
    BY Sizes
  <2>3. \A i \in 1..3 : root[i] \in Int /\ c[i] - root[i] \in -burn_reach..burn_reach
    <3>1. Far(c, root) <= burn_reach
      BY <1>1 DEF Reached
    <3>2. \A i \in 1..3 : c[i] - root[i] \in -burn_reach..burn_reach
      BY <2>1, <2>2, <3>1, FarIs
    <3>3. 1..3 = {1, 2, 3}
      OBVIOUS
    <3>4. \A i \in 1..3 : root[i] \in Int
      BY <3>3 DEF Place
    <3> QED
      BY <3>2, <3>4
  <2>4. \A i \in 1..3 : Core.lo[i] <= hi[i] /\ lo[i] <= Core.hi[i]
    BY <2>1, <2>2, <2>3, CoreIs
  <2>5. Core \in near
    BY <2>4, CoreIs DEF overlaps, Barred
  <2>6. c \in BoxOf(Core.lo, Core.hi)
    BY <1>1 DEF Guarded
  <2> HIDE DEF near
  <2>7. blocking(near, Level[p], c)
    BY <2>5, <2>6, CoreIs DEF blocking, Barred
  <2> QED
    BY <2>1, <2>7 DEF HeldNear, near
<1> QED
  BY <1>1

LEMMA CheckSound ==
    ASSUME Handlers, Core \in zones, NEW p \in Players, Check(p)
    PROVE  Handlers'
<1> DEFINE a == h[p].act
           lo == <<a.at[1] - burn_reach, a.at[2] - burn_reach, a.at[3] - burn_reach>>
           hi == <<a.at[1] + burn_reach, a.at[2] + burn_reach, a.at[3] + burn_reach>>
           held == IF a.mode = 2 THEN HeldNear(zones, Level[p], lo, hi) ELSE {}
           s == [at |-> "sim", act |-> a, held |-> held]
<1>1. a \in Actions[p]
  BY HandlerIs, Threads DEF Check
<1>2. a.at \in Place
  BY <1>1, EditsAssumption, CellsArePlaces
<1>3. Rest(p) \/ (~blocking(zones, Level[p], a.at) /\ Goes(p, s))
  BY DEF Check, ReachOfBurn
<1>4. CASE Rest(p)
  BY <1>4, RestKeeps
<1>5. CASE ~blocking(zones, Level[p], a.at) /\ Goes(p, s)
  <2>1. Barred(p) => a.at \notin Guarded
    BY <1>5, CoreBlocks
  <2>2. \A i \in 1..3 : lo[i] = a.at[i] - burn_reach /\ hi[i] = a.at[i] + burn_reach
    OBVIOUS
  <2> HIDE DEF lo, hi
  <2>3. Barred(p) => Guarded \cap Reached(a.at, burn_reach) \subseteq HeldNear(zones, Level[p], lo, hi)
    BY <1>2, <2>2, ReachIsHeld
  <2>4. s.at = "sim" /\ s.act = a /\ s.held = held
    OBVIOUS
  <2> HIDE DEF s
  <2>5. SoundSim(p, s)
    BY <1>1, <2>1, <2>3, <2>4 DEF SoundSim
  <2> QED
    BY <1>5, <2>5, GoesKeeps DEF Sound
<1> QED
  BY <1>3, <1>4, <1>5

-----------------------------------------------------------------------------
(* The world: what each edit does to it. *)

\* A burn r that began with w.
Orderly(r, w, root, held, max) ==
    /\ r.w \in [Cells -> Content]
    /\ Stored(w) \subseteq Stored(r.w)
    /\ Cardinality(Stored(w)) <= Cap => Cardinality(Stored(r.w)) <= Cap
    /\ r.written \subseteq Reached(root, burn_reach) \ held
    /\ r.aired \subseteq r.written
    /\ \A c \in Cells \ r.written : r.w[c] = w[c]
    /\ Bounded(r, root, held, max)

LEMMA BurnIs ==
    ASSUME NEW w \in [Cells -> Content], NEW root \in Cells, NEW max \in Nat, NEW held
    PROVE  Orderly(simBurn(w, root, max, held, FALSE), w, root, held, max)
<1> DEFINE had == Cardinality(Stored(w))
           least == Stored(w)
           lim == IF had <= Cap THEN Cap ELSE had
           b == [w0 |-> w, root |-> root, max |-> max, prot |-> held, lim |-> lim, least |-> least]
           r == simBurn(w, root, max, held, FALSE)
<1>1. had \in Nat /\ Cap \in Nat /\ lim \in Nat /\ had <= lim /\ Cap <= lim /\ (had <= Cap => lim = Cap)
  BY StoredIsFinite, Sizes
<1>2. b.w0 = w /\ b.root = root /\ b.max = max /\ b.prot = held /\ b.lim = lim /\ b.least = least
  OBVIOUS
<1>3. r = BurnOf(b)
  BY <1>2 DEF BurnOf
<1> HIDE DEF b, lim
<1>4. Given(b)
  <2>1. w \in Worldly(b)
    BY <1>1, <1>2 DEF Worldly
  <2> QED
    BY <1>1, <1>2, <2>1, CellsArePlaces DEF Given
<1>5. /\ r \in Burning(b)
      /\ r.explosions * explode_visits_per_blast <= Max({max, explode_visits_per_blast})
      /\ r.visits <= Allowance(max)
  BY <1>2, <1>3, <1>4, BurnKeeps
<1> SUFFICES Orderly(r, w, root, held, max)
  OBVIOUS
<1> HIDE DEF r, least, had
<1>6. r.w \in Worldly(b) /\ r.written \subseteq Open(b) /\ r.aired \subseteq r.written /\ \A c \in Cells \ r.written : r.w[c] = w[c]
  BY <1>2, <1>5 DEF Burning, Fields
<1>7. r.w \in [Cells -> Content] /\ least \subseteq Stored(r.w) /\ (had <= Cap => Cardinality(Stored(r.w)) <= Cap)
  BY <1>1, <1>2, <1>6 DEF Worldly
<1>8. r.written \subseteq Reached(root, burn_reach) \ held
  BY <1>2, <1>6 DEF Open
<1>9. \A c \in r.written : Far(c, root) <= burn_reach /\ c \notin held
  BY <1>8 DEF Reached
<1>10. Bounded(r, root, held, max)
  BY <1>5, <1>9 DEF Bounded, Allowance
<1> QED
  BY <1>6, <1>7, <1>8, <1>10 DEF Orderly, least, had

\* Nothing that is stored goes, and the cap that held holds.
Grew ==
    /\ world' \in [Cells -> Content]
    /\ Stored(world) \subseteq Stored(world')
    /\ Cardinality(Stored(world)) <= Cap => Cardinality(Stored(world')) <= Cap

LEMMA WorldSets ==
    ASSUME NEW w \in [Cells -> Content], NEW f, DOMAIN f \subseteq Cells, \A c \in DOMAIN f : f[c] \in Value
    PROVE  /\ worldSet(w, f) \in [Cells -> Content]
           /\ Stored(worldSet(w, f)) = Stored(w) \cup DOMAIN f
           /\ \A c \in DOMAIN f : worldSet(w, f)[c] = f[c]
           /\ \A c \in Cells \ DOMAIN f : worldSet(w, f)[c] = w[c]
<1> DEFINE v == worldSet(w, f)
<1>1. v = [c \in Cells |-> IF c \in DOMAIN f THEN f[c] ELSE w[c]]
  BY DEF worldSet
<1>2. v \in [Cells -> Content]
  BY <1>1 DEF Content, Value, Byte
<1>3. \A x \in Value : x # Absent
  BY ValueIs
<1>4. /\ \A c \in DOMAIN f : v[c] = f[c]
      /\ \A c \in Cells \ DOMAIN f : v[c] = w[c]
  BY <1>1
<1> HIDE DEF v
<1>5. Stored(v) = Stored(w) \cup DOMAIN f
  <2>1. DOMAIN v = Cells /\ DOMAIN w = Cells
    BY <1>2
  <2> QED
    BY <1>3, <1>4, <2>1 DEF Stored
<1> QED
  BY <1>2, <1>4, <1>5 DEF v

LEMMA UnchangedGrew == world \in [Cells -> Content] /\ UNCHANGED world => Grew
BY DEF Grew

LEMMA SimpleIs ==
    ASSUME world \in [Cells -> Content], NEW p \in Players, NEW a \in Actions[p]
    PROVE  Simple(a) \in Value
<1>1. a.at \in Cells /\ a.extra \in Byte
  BY EditsAssumption DEF Byte
<1>2. Air \in Byte /\ 0 \in Byte /\ PaintedBase \in Byte
  BY DEF Air, PaintedBase, Byte
<1>3. Get(world, a.at) # Absent => world[a.at][1] \in Byte
  BY <1>1, StoredThere DEF Value
<1>4. CASE a.mode = 0
  BY <1>1, <1>2, <1>4 DEF Simple, Value
<1>5. CASE a.mode = 1
  BY <1>2, <1>5 DEF Simple, Value
<1>6. CASE a.mode # 0 /\ a.mode # 1
  <2>1. Simple(a) = <<IF Get(world, a.at) = Absent THEN PaintedBase ELSE world[a.at][1], a.extra>>
    BY <1>6 DEF Simple
  <2> QED
    BY <1>1, <1>2, <1>3, <2>1 DEF Value
<1> QED
  BY <1>4, <1>5, <1>6

\* A new cell is written only where there is room.
LEMMA SimGrew ==
    ASSUME world \in [Cells -> Content], Handlers, NEW p \in Players, Sim(p)
    PROVE  Grew /\ \A c \in Cells : c # h[p].act.at => world'[c] = world[c]
<1> DEFINE a == h[p].act
           done == IF Refused(world, a.at) THEN {} ELSE {a.at}
           f == [c \in done |-> Simple(a)]
<1>1. a \in Actions[p]
  BY HandlerIs, Threads DEF Sim, SoundSim
<1>2. a.at \in Cells /\ Simple(a) \in Value
  BY <1>1, SimpleIs, EditsAssumption
<1>3. world' = worldSet(world, f)
  BY DEF Sim
<1>4. DOMAIN f = done /\ done \subseteq {a.at} /\ \A c \in DOMAIN f : f[c] \in Value
  BY <1>2
<1> HIDE DEF f
<1>5. /\ world' \in [Cells -> Content] /\ Stored(world') = Stored(world) \cup done
      /\ \A c \in Cells \ done : world'[c] = world[c]
  BY <1>2, <1>3, <1>4, WorldSets
<1>6. ASSUME Cardinality(Stored(world)) <= Cap PROVE Cardinality(Stored(world')) <= Cap
  <2>1. CASE done \subseteq Stored(world)
    <3>1. Stored(world') = Stored(world)
      BY <1>5, <2>1
    <3> QED
      BY <1>6, <3>1
  <2>2. CASE ~(done \subseteq Stored(world))
    <3>1. done = {a.at} /\ ~Refused(world, a.at) /\ a.at \notin Stored(world)
      BY <2>2
    <3>2. Cardinality(Stored(world)) < Cap
      <4>1. DOMAIN world = Cells /\ Get(world, a.at) = Absent
        BY <1>2, <3>1 DEF Get, Stored
      <4>2. ~(Cardinality(Stored(world)) >= Cap)
        BY <3>1, <4>1 DEF Refused
      <4> QED
        BY <4>2, StoredIsFinite, Sizes
    <3>3. Cardinality(Stored(world) \cup {a.at}) = Cardinality(Stored(world)) + 1
      BY <3>1, StoredIsFinite, FS_AddElement
    <3> QED
      BY <1>5, <3>1, <3>2, <3>3, StoredIsFinite, Sizes
  <2> QED
    BY <2>1, <2>2
<1> QED
  BY <1>4, <1>5, <1>6 DEF Grew

LEMMA SimBurnGrew ==
    ASSUME world \in [Cells -> Content], Handlers, NEW p \in Players, SimBurn(p)
    PROVE  /\ Grew /\ Handlers'
           /\ \E r : /\ Burnt(p, h[p].act, r)
                     /\ r.aired \subseteq r.written
                     /\ r.written \subseteq Reached(h[p].act.at, burn_reach) \ h[p].held
                     /\ \A c \in Cells \ r.written : world'[c] = world[c]
<1> DEFINE a == h[p].act
           held == h[p].held
           r == simBurn(world, a.at, MaxVisits, held, FALSE)
           s == [at |-> "relay", act |-> a, held |-> held, redrawn |-> Redrawn(r.hits),
                 written |-> r.written, explosions |-> r.explosions, visits |-> r.visits]
<1>1. Burnt(p, a, r) /\ a \in Actions[p]
  BY HandlerIs, Threads DEF SimBurn, SoundSim
<1>2. a.at \in Cells /\ MaxVisits \in Nat
  BY <1>1, EditsAssumption, Sizes
<1>9. Orderly(r, world, a.at, held, MaxVisits)
  BY <1>2, BurnIs
<1> HIDE DEF r
<1>3. /\ r.w \in [Cells -> Content]
      /\ Stored(world) \subseteq Stored(r.w)
      /\ Cardinality(Stored(world)) <= Cap => Cardinality(Stored(r.w)) <= Cap
      /\ r.written \subseteq Reached(a.at, burn_reach) \ held
      /\ r.aired \subseteq r.written
      /\ \A c \in Cells \ r.written : r.w[c] = world[c]
      /\ Bounded(r, a.at, held, MaxVisits)
  BY <1>9 DEF Orderly
<1>4. world' = r.w /\ Drains(p, s)
  BY <1>1 DEF Burnt
<1>5. Grew /\ \A c \in Cells \ r.written : world'[c] = world[c]
  BY <1>3, <1>4 DEF Grew
<1>6. s.at = "relay" /\ s.act = a /\ s.held = held /\ s.written = r.written /\ s.explosions = r.explosions /\ s.visits = r.visits
  OBVIOUS
<1> HIDE DEF s
<1>7. SoundRelay(p, s)
  BY <1>3, <1>6 DEF SoundRelay, Bounded
<1>8. Handlers'
  BY <1>4, <1>7, DrainsKeeps
<1> QED
  BY <1>1, <1>3, <1>5, <1>8

LEMMA WorldWriters ==
    ASSUME NextEdits
    PROVE  \/ UNCHANGED world
           \/ \E p \in Players : Sim(p) \/ SimBurn(p)
           \/ \E f \in Fills : Fill(f)
BY DEF NextEdits, Receive, Verdict, Echo, Check, Relay, SignSent, handleSignWrite, ZoneCommand, DrainSigns, LogSigns,
       Revert, SaveDrains, Serve, SignsAdd, SignsRm, TntSwitch, FireSwitch, ZoneAdd, ZoneRemove, ZoneFlags, zonePublish

LEMMA RestoreWriters ==
    ASSUME NextEdits
    PROVE  \/ UNCHANGED revert
           \/ \E p \in Players : Verdict(p) \/ Check(p) \/ Relay(p)
           \/ Revert
BY DEF NextEdits, Receive, Echo, Sim, SimBurn, Burnt, SignSent, handleSignWrite, ZoneCommand, DrainSigns, LogSigns,
       SaveDrains, Serve, Order, Fill, SignsAdd, SignsRm, TntSwitch, FireSwitch, ZoneAdd, ZoneRemove, ZoneFlags

LEMMA FillGrew ==
    ASSUME world \in [Cells -> Content], NEW f \in Fills, Fill(f)
    PROVE  Grew
<1> DEFINE box == Only(Scan, BoxOf(f.lo, f.hi))
           done == Accepted(world, box)
           g == [c \in done |-> <<f.type, f.colour>>]
           had == Cardinality(Stored(world))
           lim == IF had <= Cap THEN Cap ELSE had
<1>1. Len(Scan) \in Nat
  BY CellsAreFinite, FS_CardinalityType DEF Scan
<1>2. box \in Seq(BoxOf(f.lo, f.hi)) /\ BoxOf(f.lo, f.hi) \subseteq Cells
  BY <1>1, OnlyIn DEF BoxOf
<1>3. box \in Seq(Cells)
  BY <1>2
<1>4. had \in Nat /\ Cap \in Nat /\ lim \in Nat /\ had <= lim /\ Cap <= lim /\ (had <= Cap => lim = Cap)
  BY StoredIsFinite, Sizes
<1>5. world' = worldSet(world, g)
  BY DEF Fill
<1> HIDE DEF box, lim
<1>6. done \subseteq {box[i] : i \in DOMAIN box} /\ Cardinality(Stored(world) \cup done) <= lim
  BY <1>3, <1>4, AcceptedFits
<1>7. done \subseteq Cells
  BY <1>3, <1>6
<1>8. <<f.type, f.colour>> \in Value
  BY EditsAssumption DEF Value, Byte
<1> HIDE DEF done
<1>9. DOMAIN g = done /\ \A c \in DOMAIN g : g[c] \in Value
  BY <1>8
<1> HIDE DEF g
<1>10. world' \in [Cells -> Content] /\ Stored(world') = Stored(world) \cup done
  BY <1>5, <1>7, <1>9, WorldSets
<1> QED
  BY <1>4, <1>6, <1>10 DEF Grew

LEMMA EditsGrew ==
    ASSUME world \in [Cells -> Content], Handlers, NextEdits
    PROVE  Grew
BY WorldWriters, UnchangedGrew, SimGrew, SimBurnGrew, FillGrew

-----------------------------------------------------------------------------
(* The core zone, and what it should hold. *)

Guards == Core \in zones /\ kept = Holds(world, signs)

\* Either one it does not stop has edited, or its cells and signs are as they were.
Spared ==
    /\ \A c \in Guarded : world'[c] = world[c]
    /\ \A q : q.at \in Guarded => (q \in signs' <=> q \in signs)
    /\ UNCHANGED kept

LEMMA GuardsStay ==
    ASSUME Guards, Core \in zones', KeepAll \/ Spared
    PROVE  Guards'
<1>1. CASE KeepAll
  BY <1>1 DEF KeepAll, Guards
<1>2. CASE Spared
  <2>1. [c \in Guarded |-> world'[c]] = [c \in Guarded |-> world[c]]
    BY <1>2 DEF Spared
  <2>2. {q \in signs' : q.at \in Guarded} = {q \in signs : q.at \in Guarded}
    BY <1>2 DEF Spared
  <2> QED
    BY <1>2, <2>1, <2>2 DEF Guards, Spared, Holds
<1> QED
  BY <1>1, <1>2

LEMMA UnchangedSpared == UNCHANGED <<world, signs, kept>> => Spared
BY DEF Spared

\* An edit of one the zone does not stop keeps all, and any other leaves the zone out.
LEMMA EditSpared ==
    ASSUME NEW p, Keep(p), NEW W, NEW aired, NEW actor, removeSigns(aired, actor), aired \subseteq W,
           Barred(p) => W \cap Guarded = {},
           \A c \in Cells \ W : world'[c] = world[c]
    PROVE  KeepAll \/ Spared
<1>1. CASE ~Barred(p)
  BY <1>1 DEF Keep, Barred
<1>2. CASE Barred(p)
  <2>1. UNCHANGED kept /\ W \cap Guarded = {}
    BY <1>2 DEF Keep, Barred
  <2>2. \A c \in Guarded : world'[c] = world[c]
    BY <2>1 DEF Guarded, BoxOf
  <2>3. \A q : q.at \in Guarded => (q \in signs' <=> q \in signs)
    BY <2>1 DEF removeSigns
  <2> QED
    BY <2>1, <2>2, <2>3 DEF Spared
<1> QED
  BY <1>1, <1>2

LEMMA SimSpared ==
    ASSUME world \in [Cells -> Content], Handlers, NEW p \in Players, Sim(p)
    PROVE  KeepAll \/ Spared
<1> DEFINE a == h[p].act
           W == {a.at}
           aired == IF Simple(a)[1] = Air THEN IF Refused(world, a.at) THEN {} ELSE {a.at} ELSE {}
<1>1. SoundSim(p, h[p]) /\ Keep(p) /\ removeSigns(aired, p)
  BY HandlerIs, Threads DEF Sim
<1>2. Barred(p) => W \cap Guarded = {}
  BY <1>1 DEF SoundSim
<1>3. \A c \in Cells \ W : world'[c] = world[c]
  BY SimGrew
<1>4. aired \subseteq W
  OBVIOUS
<1> HIDE DEF aired, W
<1> QED
  BY <1>1, <1>2, <1>3, <1>4, EditSpared

LEMMA SimBurnSpared ==
    ASSUME world \in [Cells -> Content], Handlers, NEW p \in Players, SimBurn(p)
    PROVE  KeepAll \/ Spared
<1>1. PICK r : /\ Burnt(p, h[p].act, r)
               /\ r.aired \subseteq r.written
               /\ r.written \subseteq Reached(h[p].act.at, burn_reach) \ h[p].held
               /\ \A c \in Cells \ r.written : world'[c] = world[c]
  BY SimBurnGrew
<1>2. SoundSim(p, h[p]) /\ h[p].act.mode = 2
  BY HandlerIs, Threads DEF SimBurn
<1>3. Keep(p) /\ removeSigns(r.aired, p)
  BY <1>1 DEF Burnt
<1>4. Barred(p) => r.written \cap Guarded = {}
  BY <1>1, <1>2 DEF SoundSim
<1> QED
  BY <1>1, <1>3, <1>4, EditSpared

\* A sign goes where its handler saw no zone that stops it.
LEMMA SignSpared ==
    ASSUME Handlers, NEW p \in Players, handleSignWrite(p)
    PROVE  KeepAll \/ Spared
<1> DEFINE q == h[p].sign
<1>1. SoundSign(p, h[p]) /\ Put(q) /\ Keep(p) /\ UNCHANGED world
  BY HandlerIs, Threads DEF handleSignWrite
<1>2. CASE ~Barred(p)
  BY <1>1, <1>2 DEF Keep, Barred
<1>3. CASE Barred(p)
  <2>1. q.at \notin Guarded /\ UNCHANGED kept
    BY <1>1, <1>3 DEF SoundSign, Keep, Barred
  <2>2. signs' = signs \/ signs' = upsert_sign(q)
    BY <1>1 DEF Put, signsChanged
  <2>3. \A r : r.at \in Guarded => (r \in signs' <=> r \in signs)
    BY <2>1, <2>2 DEF upsert_sign, Slot
  <2> QED
    BY <1>1, <2>1, <2>3 DEF Spared
<1> QED
  BY <1>2, <1>3

LEMMA CoreStands ==
    ASSUME Core \in zones, NextEdits
    PROVE  Core \in zones'
BY DEF NextEdits, Receive, Verdict, Echo, Check, Relay, Sim, SimBurn, Burnt, SignSent, handleSignWrite, ZoneCommand,
       DrainSigns, LogSigns, Revert, SaveDrains, Serve, Fill, SignsAdd, SignsRm, TntSwitch, FireSwitch,
       ZoneAdd, ZoneRemove, ZoneFlags, zonePublish, Flipped

LEMMA KeptWriters ==
    ASSUME NextEdits
    PROVE  \/ UNCHANGED <<world, signs, kept>>
           \/ KeepAll
           \/ \E p \in Players : Sim(p) \/ SimBurn(p) \/ handleSignWrite(p)
BY DEF NextEdits, Receive, Verdict, Echo, Check, Relay, SignSent, ZoneCommand, DrainSigns, LogSigns, Drain, Write_audit,
       Revert, SaveDrains, Serve, serveSigns, Fill, SignsAdd, SignsRm, TntSwitch, FireSwitch, Quiet,
       ZoneAdd, ZoneRemove, ZoneFlags, zonePublish, signVars

LEMMA EditsGuard ==
    ASSUME world \in [Cells -> Content], Handlers, Guards, NextEdits
    PROVE  Guards'
<1>1. KeepAll \/ Spared
  BY KeptWriters, UnchangedSpared, SimSpared, SimBurnSpared, SignSpared
<1>2. Core \in zones'
  BY CoreStands DEF Guards
<1> QED
  BY <1>1, <1>2, GuardsStay

-----------------------------------------------------------------------------
(* What the players' edits and the operator's orders keep. *)

LEMMA ReceiveSound ==
    ASSUME Handlers, NEW p \in Players, NEW a \in Actions[p], Receive(p, a)
    PROVE  Handlers'
<1>1. PICK s : (UNCHANGED h \/ Goes(p, s)) /\ s.at \in {"verdict", "check"} /\ s.act = a
  <2> DEFINE dry == RunDry(a, preview_burn(world, a.at, MaxVisits))
             check == [at |-> "check", act |-> a]
  <2>1. UNCHANGED h \/ Goes(p, dry) \/ Goes(p, check)
    BY DEF Receive
  <2>2. dry.at = "verdict" /\ dry.act = a /\ check.at = "check" /\ check.act = a
    BY DEF RunDry
  <2> HIDE DEF dry, check
  <2> QED
    BY <2>1, <2>2
<1>2. Sound(p, s)
  BY <1>1 DEF Sound
<1> QED
  BY <1>1, <1>2, GoesKeeps, UnchangedKeeps

LEMMA VerdictSound ==
    ASSUME Handlers, NEW p \in Players, Verdict(p)
    PROVE  Handlers'
<1> DEFINE s == [at |-> "check", act |-> h[p].act]
<1>1. h[p].act \in Actions[p]
  BY HandlerIs, Threads DEF Verdict
<1>2. Rest(p) \/ Goes(p, s)
  BY DEF Verdict
<1>3. Sound(p, s)
  BY <1>1 DEF Sound
<1> HIDE DEF s
<1> QED
  BY <1>2, <1>3, GoesKeeps, RestKeeps

LEMMA SignSentSound ==
    ASSUME Handlers, Core \in zones, NEW p \in Players, NEW q \in Written[p], SignSent(p, q)
    PROVE  Handlers'
<1> DEFINE s == [at |-> "sign", sign |-> q]
<1>1. UNCHANGED h \/ (~blocking(zones, Level[p], q.at) /\ Goes(p, s))
  BY DEF SignSent
<1>2. CASE UNCHANGED h
  BY <1>2, UnchangedKeeps
<1>3. CASE ~blocking(zones, Level[p], q.at) /\ Goes(p, s)
  <2>1. Barred(p) => q.at \notin Guarded
    BY <1>3, CoreBlocks
  <2>2. s.at = "sign" /\ s.sign = q
    OBVIOUS
  <2> HIDE DEF s
  <2>3. Sound(p, s)
    BY <2>1, <2>2 DEF Sound, SoundSign
  <2> QED
    BY <1>3, <2>3, GoesKeeps
<1> QED
  BY <1>1, <1>2, <1>3

\* Once the lines are written, a thread goes on with what it had before.
LEMMA DrainSignsSound ==
    ASSUME Handlers, NEW t \in SignThreads, DrainSigns(t) \/ LogSigns(t)
    PROVE  Handlers'
<1> DEFINE next == h[t].then
           log == [at |-> "log", then |-> next]
<1>1. next = Idle \/ SoundRelay(t, next)
  BY HandlerIs DEF DrainSigns, LogSigns
<1>2. Goes(t, next) \/ Goes(t, log)
  BY DEF DrainSigns, LogSigns
<1>3. Sound(t, next) /\ Sound(t, log)
  <2>1. log.at = "log" /\ log.then = next
    OBVIOUS
  <2> HIDE DEF log, next
  <2> QED
    BY <1>1, <2>1 DEF Sound
<1> HIDE DEF next, log
<1> QED
  BY <1>2, <1>3, GoesKeeps

LEMMA SaveDrainsSound ==
    ASSUME Handlers, SaveDrains
    PROVE  Handlers'
<1> DEFINE s == [at |-> "drain", then |-> Idle]
<1>1. Sound("server", s) /\ Goes("server", s)
  BY DEF Sound, SaveDrains
<1> HIDE DEF s
<1> QED
  BY <1>1, GoesKeeps

LEMMA EditsSound ==
    ASSUME world \in [Cells -> Content], Handlers, Core \in zones, NextEdits
    PROVE  Handlers'
<1>1. ASSUME NEW p \in Players, NEW a \in Actions[p], Receive(p, a) PROVE Handlers'
  BY <1>1, ReceiveSound
<1>2. ASSUME NEW p \in Players, Verdict(p) PROVE Handlers'
  BY <1>2, VerdictSound
<1>3. ASSUME NEW p \in Players, Echo(p) PROVE Handlers'
  BY <1>3, RestKeeps DEF Echo
<1>4. ASSUME NEW p \in Players, Check(p) PROVE Handlers'
  BY <1>4, CheckSound
<1>5. ASSUME NEW p \in Players, Sim(p) PROVE Handlers'
  BY <1>5, DrainsKeeps DEF Sim
<1>6. ASSUME NEW p \in Players, SimBurn(p) PROVE Handlers'
  BY <1>6, SimBurnGrew
<1>7. ASSUME NEW p \in Players, Relay(p) PROVE Handlers'
  BY <1>7, RestKeeps DEF Relay
<1>8. ASSUME NEW p \in Players, NEW q \in Written[p], SignSent(p, q) PROVE Handlers'
  BY <1>8, SignSentSound
<1>9. ASSUME NEW p \in Players, handleSignWrite(p) PROVE Handlers'
  BY <1>9, RestKeeps DEF handleSignWrite
<1>10. ASSUME NEW t \in SignThreads, DrainSigns(t) \/ LogSigns(t) PROVE Handlers'
  BY <1>10, DrainSignsSound
<1>11. CASE SaveDrains
  BY <1>11, SaveDrainsSound
<1>12. ASSUME NEW f \in Fills, Fill(f) PROVE Handlers'
  BY <1>12, DrainsKeeps DEF Fill
<1>13. ASSUME NEW q, SignsAdd(q) PROVE Handlers'
  BY <1>13, DrainsKeeps, UnchangedKeeps DEF SignsAdd
<1>14. ASSUME NEW c \in Cells, SignsRm(c) PROVE Handlers'
  BY <1>14, DrainsKeeps DEF SignsRm
<1>15. ASSUME NEW p \in Players, ZoneCommand(p) PROVE Handlers'
  BY <1>15, UnchangedKeeps DEF ZoneCommand
<1>16. CASE Revert \/ Serve
  BY <1>16, UnchangedKeeps DEF Revert, Serve
<1>17. ASSUME NEW on \in BOOLEAN, TntSwitch(on) \/ FireSwitch(on) PROVE Handlers'
  BY <1>17, UnchangedKeeps DEF TntSwitch, FireSwitch, Quiet
<1>18. ASSUME NEW z, ZoneAdd(z) \/ ZoneRemove(z) \/ ZoneFlags(z) PROVE Handlers'
  BY <1>18, UnchangedKeeps DEF ZoneAdd, ZoneRemove, ZoneFlags
<1> QED
  BY <1>1, <1>2, <1>3, <1>4, <1>5, <1>6, <1>7, <1>8, <1>9, <1>10, <1>11, <1>12, <1>13, <1>14, <1>15, <1>16,
     <1>17, <1>18 DEF NextEdits

LEMMA EditsCover ==
    ASSUME Covered(Waiting), NextEdits
    PROVE  Covered(Waiting)'
<1>1. CASE UNCHANGED revert
  BY <1>1 DEF revert, Waiting, Covered
<1>2. ASSUME NEW p \in Players, Verdict(p) PROVE Covered(Waiting)'
  BY <1>2, VerdictRestores
<1>3. ASSUME NEW p \in Players, Check(p) \/ Relay(p) PROVE Covered(Waiting)'
  <2>1. UNCHANGED revert \/ \E job : Queue(job)
    BY <1>3 DEF Check, Relay
  <2> QED
    BY <1>1, <2>1, QueueStep
<1> QED
  BY <1>1, <1>2, <1>3, RestoreWriters, RevertStep

LEMMA EditsSigns ==
    ASSUME SignInv, NextEdits
    PROVE  SignInv'
<1>1. CASE UNCHANGED signVars
  BY <1>1, SignsNext
<1>2. ASSUME NEW q, Put(q) PROVE SignInv'
  BY <1>2, PutStep
<1>3. ASSUME NEW c, PutOff(c) PROVE SignInv'
  BY <1>3, PutOffStep
<1>4. ASSUME NEW aired, NEW actor, removeSigns(aired, actor) PROVE SignInv'
  BY <1>4, RemoveStep
<1>5. ASSUME NEW t \in SignThreads, Drain(t) \/ Write_audit(t) PROVE SignInv'
  BY <1>5, DrainStep, WriteStep
<1>6. CASE serveSigns
  BY <1>6, ServeStep
<1>7. \/ UNCHANGED signVars \/ (\E q : Put(q)) \/ (\E c : PutOff(c)) \/ (\E aired, actor : removeSigns(aired, actor))
      \/ (\E t \in SignThreads : Drain(t) \/ Write_audit(t)) \/ serveSigns
  BY DEF NextEdits, Receive, Verdict, Echo, Check, Relay, Sim, SimBurn, Burnt, SignSent, handleSignWrite, ZoneCommand,
     DrainSigns, LogSigns, Revert, SaveDrains, Serve, Fill, SignsAdd, SignsRm, TntSwitch, FireSwitch, Quiet,
     ZoneAdd, ZoneRemove, ZoneFlags, zonePublish
<1> QED
  BY <1>1, <1>2, <1>3, <1>4, <1>5, <1>6, <1>7

-----------------------------------------------------------------------------
(* Stacks of batches: a stack tells how the world came to be what it is, off the cells F *)
(* that others wrote.  A view is the world as WorldEdit reads it.                        *)

Views == [Cells -> Value]
Batches == {B \in SUBSET [at : Cells, old : Value, new : Value] : \A e, d \in B : e.at = d.at => e = d}

SameOff(y, z, F) == \A c \in Cells \ F : y[c] = z[c]

\* B takes y to z.
Moves(y, B, z, F) ==
    \A c \in Cells \ F :
        /\ \A e \in B : e.at = c => y[c] = e.old /\ z[c] = e.new
        /\ (\A e \in B : e.at # c) => z[c] = y[c]

Tells(x, s, F) == \A i \in 1..Len(s) : Moves(x[i - 1], s[i], x[i], F)
Told(s, F, v) == \E x \in [0..Len(s) -> Views] : SameOff(x[Len(s)], v, F) /\ Tells(x, s, F)

LEMMA FrontIs ==
    ASSUME NEW S, NEW s \in Seq(S), s # <<>>
    PROVE  /\ Len(s) - 1 \in Nat /\ Front(s) = [i \in 1..Len(s) - 1 |-> s[i]]
           /\ Last(s) = s[Len(s)] /\ Last(s) \in S /\ Front(s) \in Seq(S)
<1>1. Len(s) \in Nat \ {0} /\ \A i \in 1..Len(s) : s[i] \in S
  OBVIOUS
<1>2. Front(s) = [i \in 1..Len(s) - 1 |-> s[i]]
  BY <1>1 DEF Front
<1>3. Front(s) \in Seq(S)
  BY <1>1, <1>2
<1> QED
  BY <1>1, <1>2, <1>3 DEF Last

LEMMA SinceIs ==
    ASSUME NEW S, NEW s \in Seq(S), NEW n \in 0..Len(s)
    PROVE  Since(s, n) = [i \in 1..Len(s) - n |-> s[i + n]] /\ Since(s, n) \in Seq(S)
<1>1. Len(s) \in Nat /\ \A i \in 1..Len(s) : s[i] \in S
  OBVIOUS
<1>2. SubSeq(s, n + 1, Len(s)) = [i \in 1..(1 + Len(s)) - (n + 1) |-> s[(i + (n + 1)) - 1]]
  BY <1>1
<1>3. Since(s, n) = [i \in 1..Len(s) - n |-> s[i + n]]
  BY <1>1, <1>2 DEF Since
<1>4. \A i \in 1..Len(s) - n : s[i + n] \in S
  BY <1>1
<1> QED
  BY <1>1, <1>3, <1>4

LEMMA ToldNone ==
    ASSUME NEW v \in Views, NEW F
    PROVE  Told(<<>>, F, v)
<1> DEFINE s == <<>>
           x == [i \in 0..Len(s) |-> v]
<1>1. Len(s) = 0
  OBVIOUS
<1>2. x \in [0..Len(s) -> Views] /\ x[Len(s)] = v
  BY <1>1
<1>3. Tells(x, s, F)
  BY <1>1 DEF Tells
<1> HIDE DEF x, s
<1>4. Told(s, F, v)
  BY <1>2, <1>3 DEF Told, SameOff
<1> QED
  BY <1>4 DEF s

LEMMA ToldFurther ==
    ASSUME NEW s, NEW F, NEW v, Told(s, F, v), NEW G, F \subseteq G, NEW u, SameOff(v, u, G)
    PROVE  Told(s, G, u)
<1>1. PICK x \in [0..Len(s) -> Views] : SameOff(x[Len(s)], v, F) /\ Tells(x, s, F)
  BY DEF Told
<1>2. SameOff(x[Len(s)], u, G)
  BY <1>1 DEF SameOff
<1>3. Tells(x, s, G)
  BY <1>1 DEF Tells, Moves
<1> QED
  BY <1>1, <1>2, <1>3 DEF Told

LEMMA ToldAppend ==
    ASSUME NEW s \in Seq(Batches), NEW F, NEW v, Told(s, F, v), NEW B \in Batches,
           NEW u \in Views, Moves(v, B, u, F)
    PROVE  Told(Append(s, B), F, u)
<1>1. PICK x \in [0..Len(s) -> Views] : SameOff(x[Len(s)], v, F) /\ Tells(x, s, F)
  BY DEF Told
<1> DEFINE n == Len(s)
           t == Append(s, B)
           y == [i \in 0..n + 1 |-> IF i <= n THEN x[i] ELSE u]
<1>2. n \in Nat /\ Len(t) = n + 1 /\ (\A i \in 1..n : t[i] = s[i]) /\ t[n + 1] = B
  OBVIOUS
<1>3. \A i \in 0..n : i <= n /\ x[i] \in Views
  BY <1>2
<1>4. y \in [0..n + 1 -> Views] /\ (\A i \in 0..n : y[i] = x[i]) /\ y[n + 1] = u
  BY <1>2, <1>3
<1>5. SameOff(x[n], v, F) /\ \A i \in 1..n : Moves(x[i - 1], s[i], x[i], F)
  BY <1>1 DEF Tells
<1> HIDE DEF n, t, y
<1>6. Moves(x[n], B, u, F)
  BY <1>5 DEF SameOff, Moves
<1>7. ASSUME NEW i \in 1..n + 1 PROVE Moves(y[i - 1], t[i], y[i], F)
  <2>1. CASE i = n + 1
    <3>1. i - 1 = n /\ n \in 0..n
      BY <1>2, <2>1
    <3> QED
      BY <1>2, <1>4, <1>6, <2>1, <3>1
  <2>2. CASE i # n + 1
    <3>1. i \in 1..n /\ i \in 0..n /\ i - 1 \in 0..n
      BY <1>2, <2>2
    <3> QED
      BY <1>2, <1>4, <1>5, <3>1
  <2> QED
    BY <2>1, <2>2
<1>8. Tells(y, t, F)
  BY <1>2, <1>7 DEF Tells
<1>9. Told(t, F, u)
  BY <1>2, <1>4, <1>8 DEF Told, SameOff
<1> QED
  BY <1>9 DEF t

LEMMA ToldFront ==
    ASSUME NEW s \in Seq(Batches), s # <<>>, NEW F, NEW v, Told(s, F, v)
    PROVE  \E y \in Views : Told(Front(s), F, y) /\ Moves(y, Last(s), v, F)
<1>1. PICK x \in [0..Len(s) -> Views] : SameOff(x[Len(s)], v, F) /\ Tells(x, s, F)
  BY DEF Told
<1> DEFINE n == Len(s) - 1
           t == Front(s)
           y == [i \in 0..n |-> x[i]]
<1>2. n \in Nat /\ Len(s) = n + 1 /\ Len(t) = n /\ \A i \in 1..n : t[i] = s[i]
  BY FrontIs
<1>3. Last(s) = s[n + 1]
  BY <1>2 DEF Last
<1>4. \A i \in 0..n : i \in 0..Len(s) /\ x[i] \in Views
  BY <1>2
<1>5. y \in [0..n -> Views] /\ \A i \in 0..n : y[i] = x[i]
  BY <1>4
<1>6. SameOff(x[n + 1], v, F) /\ \A i \in 1..n + 1 : Moves(x[i - 1], s[i], x[i], F)
  BY <1>1, <1>2 DEF Tells
<1> HIDE DEF n, t, y
<1>7. \A i \in 1..n : i \in 1..n + 1 /\ i \in 0..n /\ i - 1 \in 0..n
  BY <1>2
<1>8. Tells(y, t, F)
  <2>1. ASSUME NEW i \in 1..n PROVE Moves(y[i - 1], t[i], y[i], F)
    BY <1>2, <1>5, <1>6, <1>7
  <2> QED
    BY <1>2, <2>1 DEF Tells
<1>9. x[n] \in Views /\ y[n] = x[n]
  BY <1>2, <1>4, <1>5
<1>10. Told(t, F, x[n])
  BY <1>2, <1>5, <1>8, <1>9 DEF Told, SameOff
<1>11. Moves(x[n], Last(s), v, F)
  <2>1. n + 1 \in 1..n + 1 /\ n + 1 - 1 = n
    BY <1>2
  <2>2. Moves(x[n], s[n + 1], x[n + 1], F)
    BY <1>2, <1>6, <2>1
  <2> QED
    BY <1>3, <1>6, <2>2 DEF Moves, SameOff
<1> QED
  BY <1>9, <1>10, <1>11 DEF t

\* What a stack tells is still told when its oldest batches are gone.
LEMMA ToldSince ==
    ASSUME NEW s \in Seq(Batches), NEW F, NEW v, Told(s, F, v), NEW n \in 0..Len(s)
    PROVE  Told(Since(s, n), F, v)
<1>1. PICK x \in [0..Len(s) -> Views] : SameOff(x[Len(s)], v, F) /\ Tells(x, s, F)
  BY DEF Told
<1> DEFINE m == Len(s) - n
           t == Since(s, n)
           y == [i \in 0..m |-> x[i + n]]
<1>2. m \in Nat /\ n \in Nat /\ Len(s) = m + n /\ Len(t) = m /\ \A i \in 1..m : t[i] = s[i + n]
  BY SinceIs
<1>3. \A i \in 0..m : i + n \in 0..Len(s) /\ x[i + n] \in Views
  BY <1>2
<1>4. y \in [0..m -> Views] /\ \A i \in 0..m : y[i] = x[i + n]
  BY <1>3
<1>5. SameOff(x[m + n], v, F) /\ \A i \in 1..m + n : Moves(x[i - 1], s[i], x[i], F)
  BY <1>1, <1>2 DEF Tells
<1> HIDE DEF m, t, y
<1>6. Tells(y, t, F)
  <2>1. ASSUME NEW i \in 1..m PROVE Moves(y[i - 1], t[i], y[i], F)
    <3>1. i + n \in 1..m + n /\ i \in 0..m /\ i - 1 \in 0..m /\ (i - 1) + n = (i + n) - 1
      BY <1>2
    <3>2. Moves(x[(i + n) - 1], s[i + n], x[i + n], F)
      BY <1>5, <3>1
    <3> QED
      BY <1>2, <1>4, <3>1, <3>2
  <2> QED
    BY <1>2, <2>1 DEF Tells
<1>7. SameOff(y[m], v, F)
  BY <1>2, <1>4, <1>5
<1> QED
  BY <1>2, <1>4, <1>6, <1>7 DEF Told, t

LEMMA InvertIs ==
    ASSUME NEW B \in Batches
    PROVE  we_invert(B) \in Batches /\ we_invert(we_invert(B)) = B
<1> DEFINE E == [at : Cells, old : Value, new : Value]
           turned(e) == [at |-> e.at, old |-> e.new, new |-> e.old]
<1>1. B \subseteq E /\ \A e, d \in B : e.at = d.at => e = d
  BY DEF Batches
<1>2. \A e \in E : turned(e) \in E /\ turned(turned(e)) = e /\ turned(e).at = e.at
  OBVIOUS
<1>3. \A X : we_invert(X) = {turned(e) : e \in X}
  BY DEF we_invert
<1> HIDE DEF turned, E
<1>4. we_invert(B) \subseteq E
  BY <1>1, <1>2, <1>3
<1>5. \A e, d \in we_invert(B) : e.at = d.at => e = d
  BY <1>1, <1>2, <1>3
<1>6. we_invert(B) \in Batches
  BY <1>4, <1>5 DEF Batches, E
<1>7. we_invert(we_invert(B)) = B
  <2>1. \A e \in we_invert(we_invert(B)) : e \in B
    <3>1. TAKE e \in we_invert(we_invert(B))
    <3>2. PICK d \in we_invert(B) : e = turned(d)
      BY <1>3
    <3>3. PICK c \in B : d = turned(c)
      BY <1>3
    <3> QED
      BY <1>1, <1>2, <3>2, <3>3
  <2>2. \A e \in B : e \in we_invert(we_invert(B))
    <3>1. TAKE e \in B
    <3>2. turned(e) \in we_invert(B)
      BY <1>3
    <3>3. turned(turned(e)) \in we_invert(we_invert(B))
      BY <1>3, <3>2
    <3> QED
      BY <1>1, <1>2, <3>3
  <2> QED
    BY <2>1, <2>2
<1> QED
  BY <1>6, <1>7

\* Taking back the last batch of one stack puts it, turned round, on the other: F grows
\* to G by the cells a zone keeps.
LEMMA Turn ==
    ASSUME NEW s \in Seq(Batches), s # <<>>, NEW t \in Seq(Batches), NEW F, NEW v \in Views,
           Told(s, F, v), Told(t, F, v), NEW G, F \subseteq G, NEW u \in Views,
           \A c \in Cells \ G : /\ \A e \in Last(s) : e.at = c => u[c] = e.old
                                /\ (\A e \in Last(s) : e.at # c) => u[c] = v[c]
    PROVE  Told(Front(s), G, u) /\ Told(Append(t, we_invert(Last(s))), G, u)
<1> DEFINE B == Last(s)
           C == we_invert(B)
<1>1. PICK y \in Views : Told(Front(s), F, y) /\ Moves(y, B, v, F)
  BY ToldFront
<1>2. B \in Batches
  <2>1. Len(s) \in 1..Len(s) /\ B = s[Len(s)]
    BY DEF Last
  <2> QED
    BY <2>1
<1>3. C \in Batches
  BY <1>2, InvertIs
<1>4. \A e \in C : \E d \in B : e.at = d.at /\ e.old = d.new /\ e.new = d.old
  BY DEF we_invert
<1>5. \A d \in B : \E e \in C : e.at = d.at
  <2>1. \A d \in B : [at |-> d.at, old |-> d.new, new |-> d.old] \in C
    BY DEF we_invert
  <2> QED
    BY <2>1
<1> HIDE DEF B, C
<1>6. SameOff(y, u, G)
  <2>1. ASSUME NEW c \in Cells \ G PROVE y[c] = u[c]
    <3>1. CASE \E e \in B : e.at = c
      BY <1>1, <3>1 DEF Moves, B
    <3>2. CASE \A e \in B : e.at # c
      BY <1>1, <3>2 DEF Moves, B
    <3> QED
      BY <3>1, <3>2
  <2> QED
    BY <2>1 DEF SameOff
<1>7. Moves(v, C, u, G)
  <2>1. ASSUME NEW c \in Cells \ G, NEW e \in C, e.at = c PROVE v[c] = e.old /\ u[c] = e.new
    <3>1. PICK d \in B : e.at = d.at /\ e.old = d.new /\ e.new = d.old
      BY <1>4
    <3> QED
      BY <1>1, <2>1, <3>1 DEF Moves, B
  <2>2. ASSUME NEW c \in Cells \ G, \A e \in C : e.at # c PROVE u[c] = v[c]
    BY <1>5, <2>2 DEF B
  <2> QED
    BY <2>1, <2>2 DEF Moves
<1>8. Told(Front(s), G, u)
  BY <1>1, <1>6, ToldFurther
<1>9. Told(t, G, v)
  BY ToldFurther DEF SameOff
<1>10. Told(Append(t, C), G, u)
  BY <1>3, <1>7, <1>9, ToldAppend
<1> QED
  BY <1>8, <1>10 DEF B, C

\* A stack of batches to redo tells, each turned round, how the world came to be.
Inverted(s) == [i \in 1..Len(s) |-> we_invert(s[i])]

LEMMA InvertedIs ==
    ASSUME NEW s \in Seq(Batches)
    PROVE  /\ Inverted(s) \in Seq(Batches) /\ Len(Inverted(s)) = Len(s)
           /\ \A i \in 1..Len(s) : Inverted(s)[i] = we_invert(s[i])
<1>1. Len(s) \in Nat /\ \A i \in 1..Len(s) : we_invert(s[i]) \in Batches
  BY InvertIs
<1> QED
  BY <1>1 DEF Inverted

LEMMA InvertedAppend ==
    ASSUME NEW s \in Seq(Batches), NEW B \in Batches
    PROVE  Inverted(Append(s, B)) = Append(Inverted(s), we_invert(B))
<1> DEFINE n == Len(s)
           one == Append(s, B)
           two == Append(Inverted(s), we_invert(B))
<1>1. n \in Nat /\ Len(one) = n + 1 /\ one[n + 1] = B /\ \A i \in 1..n : one[i] = s[i]
  OBVIOUS
<1>2. we_invert(B) \in Batches
  BY InvertIs
<1>3. two \in Seq(Batches) /\ Len(two) = n + 1 /\ two[n + 1] = we_invert(B) /\ \A i \in 1..n : two[i] = we_invert(s[i])
  BY <1>1, <1>2, InvertedIs
<1> HIDE DEF n, one, two
<1>4. two = [i \in 1..n + 1 |-> two[i]]
  BY <1>3
<1>5. Inverted(one) = [i \in 1..n + 1 |-> we_invert(one[i])]
  BY <1>1 DEF Inverted
<1>6. \A i \in 1..n + 1 : two[i] = we_invert(one[i])
  <2>1. \A i \in 1..n + 1 : i = n + 1 \/ i \in 1..n
    BY <1>1
  <2> QED
    BY <1>1, <1>3, <2>1
<1>7. Inverted(one) = two
  BY <1>4, <1>5, <1>6
<1> QED
  BY <1>7 DEF one, two

LEMMA InvertedFront ==
    ASSUME NEW s \in Seq(Batches), s # <<>>
    PROVE  Inverted(Front(s)) = Front(Inverted(s)) /\ Last(Inverted(s)) = we_invert(Last(s)) /\ Inverted(s) # <<>>
<1> DEFINE n == Len(s) - 1
           one == Front(s)
           inv == Inverted(s)
           two == Front(inv)
<1>1. n \in Nat /\ Len(s) = n + 1 /\ Len(one) = n /\ \A i \in 1..n : one[i] = s[i]
  BY FrontIs
<1>2. inv \in Seq(Batches) /\ Len(inv) = n + 1 /\ \A i \in 1..n + 1 : inv[i] = we_invert(s[i])
  BY <1>1, InvertedIs
<1> HIDE DEF inv
<1>8. inv # <<>> /\ Len(inv) - 1 = n
  BY <1>1, <1>2
<1>3. two = [i \in 1..n |-> inv[i]]
  BY <1>2, <1>8, FrontIs
<1>4. Inverted(one) = [i \in 1..n |-> we_invert(one[i])]
  BY <1>1 DEF Inverted
<1>5. \A i \in 1..n : i \in 1..n + 1 /\ inv[i] = we_invert(one[i])
  BY <1>1, <1>2
<1>6. Last(inv) = inv[n + 1] /\ Last(s) = s[n + 1] /\ n + 1 \in 1..n + 1
  BY <1>1, <1>2 DEF Last
<1> HIDE DEF n, one, two
<1>7. Inverted(one) = two
  BY <1>3, <1>4, <1>5
<1> QED
  BY <1>2, <1>6, <1>7, <1>8 DEF inv, one, two

LEMMA InvertedSince ==
    ASSUME NEW s \in Seq(Batches), NEW n \in 0..Len(s)
    PROVE  Inverted(Since(s, n)) = Since(Inverted(s), n)
<1> DEFINE m == Len(s) - n
           one == Since(s, n)
           inv == Inverted(s)
           two == Since(inv, n)
<1>1. m \in Nat /\ n \in Nat /\ Len(s) = m + n /\ Len(one) = m /\ \A i \in 1..m : one[i] = s[i + n]
  BY SinceIs
<1>2. inv \in Seq(Batches) /\ Len(inv) = m + n /\ \A i \in 1..m + n : inv[i] = we_invert(s[i])
  BY <1>1, InvertedIs
<1> HIDE DEF inv
<1>3. two = [i \in 1..m |-> inv[i + n]]
  BY <1>1, <1>2, SinceIs
<1>4. Inverted(one) = [i \in 1..m |-> we_invert(one[i])]
  BY <1>1 DEF Inverted
<1> HIDE DEF m, one, two
<1>5. \A i \in 1..m : i + n \in 1..m + n /\ inv[i + n] = we_invert(one[i])
  BY <1>1, <1>2
<1>6. Inverted(one) = two
  BY <1>3, <1>4, <1>5
<1> QED
  BY <1>6 DEF inv, one, two

-----------------------------------------------------------------------------
(* UndoStore: trimming drops the oldest batches of either stack. *)

LEMMA TrimIs ==
    ASSUME NEW u \in Seq(Batches), NEW r \in Seq(Batches)
    PROVE  \E i \in 0..Len(u), j \in 0..Len(r) :
              trim([undo |-> u, redo |-> r]) = [undo |-> Since(u, i), redo |-> Since(r, j)]
<1> DEFINE s == [undo |-> u, redo |-> r]
           all == Spare(s) + Len(s.redo)
           enough == {n \in 0..all : n = all \/ Bytes(Without(s, n).undo) + Bytes(Without(s, n).redo) <= UndoBudget}
           n == Min(enough)
<1>1. s.undo = u /\ s.redo = r /\ Len(u) \in Nat /\ Len(r) \in Nat
  OBVIOUS
<1>2. Spare(s) \in 0..Len(u)
  BY <1>1 DEF Spare
<1>3. all \in Nat /\ all = Spare(s) + Len(r)
  BY <1>1, <1>2
<1>4. n \in 0..all
  <2>1. all \in enough
    BY <1>3
  <2>2. enough \subseteq 0..all
    OBVIOUS
  <2> HIDE DEF enough, all
  <2>3. enough \subseteq Nat
    BY <1>3, <2>2
  <2>4. PICK k \in enough : \A j \in enough : k <= j
    BY <2>1, <2>3, Least
  <2>5. n \in enough
    BY <2>4 DEF Min
  <2> QED
    BY <2>2, <2>5
<1>5. trim(s) = Without(s, n)
  BY DEF trim
<1> HIDE DEF n, all, enough
<1>6. CASE n <= Spare(s)
  <2>1. Since(r, 0) = r
    <3>1. 0 \in 0..Len(r) /\ Len(r) - 0 = Len(r) /\ \A i \in 1..Len(r) : i + 0 = i
      OBVIOUS
    <3>2. Since(r, 0) = [i \in 1..Len(r) - 0 |-> r[i + 0]]
      BY <3>1, SinceIs
    <3>3. Since(r, 0) = [i \in 1..Len(r) |-> r[i]]
      BY <3>1, <3>2
    <3> QED
      BY <3>3
  <2>2. Without(s, n) = [undo |-> Since(u, n), redo |-> r]
    BY <1>6 DEF Without
  <2>3. n \in 0..Len(u) /\ 0 \in 0..Len(r)
    BY <1>1, <1>2, <1>3, <1>4, <1>6
  <2> QED
    BY <1>5, <2>1, <2>2, <2>3
<1>7. CASE ~(n <= Spare(s))
  <2>1. Without(s, n) = [undo |-> Since(u, Spare(s)), redo |-> Since(r, n - Spare(s))]
    BY <1>7 DEF Without
  <2>2. n - Spare(s) \in 0..Len(r)
    BY <1>1, <1>2, <1>3, <1>4, <1>7
  <2> QED
    BY <1>2, <1>5, <2>1, <2>2
<1> QED
  BY <1>6, <1>7

-----------------------------------------------------------------------------
(* The books of one player: the two stacks u and r, what others wrote, F, in a world w. *)

View(w) == [c \in Cells |-> weRead(w, c)]

\* What was written is stored, and stays so.
Laid(s, w) == \A i \in 1..Len(s) : \A e \in s[i] : e.at \in Stored(w)

Books(u, r, F, w) ==
    /\ u \in Seq(Batches) /\ r \in Seq(Batches)
    /\ Laid(u, w) /\ Laid(r, w)
    /\ Cardinality(Stored(w)) <= Cap \/ (u = <<>> /\ r = <<>>)
    /\ Told(u, F, View(w)) /\ Told(Inverted(r), F, View(w))

LEMMA ViewIs ==
    ASSUME NEW w \in [Cells -> Content]
    PROVE  View(w) \in Views
<1>1. ASSUME NEW c \in Cells PROVE weRead(w, c) \in Value
  <2>1. c[2] \in Nat
    BY CellsArePlaces, Sizes
  <2>2. baseType(c[2]) \in Byte /\ 0 \in Byte
    BY <2>1, Natural DEF Byte
  <2>3. w[c] # Absent => w[c] \in Value
    BY DEF Content, Value, Byte
  <2> QED
    BY <2>2, <2>3 DEF weRead, Value
<1> QED
  BY <1>1 DEF View, Views

LEMMA BooksElsewhere ==
    ASSUME NEW u, NEW r, NEW F, NEW w \in [Cells -> Content], Books(u, r, F, w),
           NEW G, F \subseteq G, NEW v \in [Cells -> Content], \A c \in Cells \ G : v[c] = w[c],
           Stored(w) \subseteq Stored(v), Cardinality(Stored(w)) <= Cap => Cardinality(Stored(v)) <= Cap
    PROVE  Books(u, r, G, v)
<1>1. SameOff(View(w), View(v), G)
  BY DEF SameOff, View, weRead
<1>2. Told(u, G, View(v)) /\ Told(Inverted(r), G, View(v))
  BY <1>1, ToldFurther DEF Books
<1>3. Laid(u, v) /\ Laid(r, v)
  BY DEF Books, Laid
<1> QED
  BY <1>2, <1>3 DEF Books

LEMMA BooksSince ==
    ASSUME NEW u, NEW r, NEW F, NEW w, Books(u, r, F, w), NEW i \in 0..Len(u), NEW j \in 0..Len(r)
    PROVE  Books(Since(u, i), Since(r, j), F, w)
<1>1. u \in Seq(Batches) /\ r \in Seq(Batches) /\ Told(u, F, View(w)) /\ Told(Inverted(r), F, View(w))
  BY DEF Books
<1>2. Since(u, i) \in Seq(Batches) /\ Since(r, j) \in Seq(Batches)
  BY <1>1, SinceIs
<1>3. ASSUME NEW s \in Seq(Batches), NEW n \in 0..Len(s), Laid(s, w)
      PROVE  Laid(Since(s, n), w) /\ (s = <<>> => Since(s, n) = <<>>)
  <2>1. Since(s, n) = [k \in 1..Len(s) - n |-> s[k + n]] /\ Len(s) \in Nat
    BY SinceIs
  <2>2. Len(Since(s, n)) = Len(s) - n /\ \A k \in 1..Len(s) - n : Since(s, n)[k] = s[k + n] /\ k + n \in 1..Len(s)
    BY <2>1
  <2>3. Laid(Since(s, n), w)
    BY <1>3, <2>2 DEF Laid
  <2>4. s = <<>> => Since(s, n) = <<>>
    BY DEF Since
  <2> QED
    BY <2>3, <2>4
<1>4. Laid(Since(u, i), w) /\ Laid(Since(r, j), w)
  BY <1>1, <1>3 DEF Books
<1>5. Cardinality(Stored(w)) <= Cap \/ (Since(u, i) = <<>> /\ Since(r, j) = <<>>)
  BY <1>1, <1>3 DEF Books
<1>6. Told(Since(u, i), F, View(w))
  BY <1>1, ToldSince
<1>7. Told(Inverted(Since(r, j)), F, View(w))
  BY <1>1, InvertedIs, InvertedSince, ToldSince
<1> QED
  BY <1>2, <1>4, <1>5, <1>6, <1>7 DEF Books

\* What History makes of the stacks, before and after it trims them.
LEMMA BooksTrimmed ==
    ASSUME NEW u, NEW r, NEW F, NEW w, Books(u, r, F, w)
    PROVE  Books(trim([undo |-> u, redo |-> r]).undo, trim([undo |-> u, redo |-> r]).redo, F, w)
<1>1. PICK i \in 0..Len(u), j \in 0..Len(r) :
         trim([undo |-> u, redo |-> r]) = [undo |-> Since(u, i), redo |-> Since(r, j)]
  BY TrimIs DEF Books
<1>2. Books(Since(u, i), Since(r, j), F, w)
  BY BooksSince
<1> QED
  BY <1>1, <1>2

-----------------------------------------------------------------------------
(* Commands. *)

\* What a player carries along.
ClipOk(k) == \E at : \E type \in Byte, colour \in Byte : k = [at |-> at, type |-> type, colour |-> colour]

Ledger ==
    /\ clip = [p \in Players |-> clip[p]] /\ \A p \in Players : \A k \in clip[p] : ClipOk(k)
    /\ undo = [p \in Players |-> undo[p]] /\ redo = [p \in Players |-> redo[p]]
    /\ foreign = [p \in Players |-> foreign[p]]
    /\ \A p \in Players : Books(undo[p], redo[p], foreign[p], world)

\* A command that was let through still finds what it takes from its stack.
Promised ==
    \A p \in Players :
        h[p].at = "commit" => /\ h[p].cmd.verb = "undo" => undo[p] # <<>>
                              /\ h[p].cmd.verb = "redo" => redo[p] # <<>>

LEMMA ReplayIs ==
    ASSUME NEW B \in Batches
    PROVE  DOMAIN Replay(B) = {e.at : e \in B} /\ \A e \in B : Replay(B)[e.at] = e.new
<1>1. \A e, d \in B : e.at = d.at => e = d
  BY DEF Batches
<1>2. ASSUME NEW e \in B PROVE (CHOOSE d \in B : d.at = e.at) = e
  BY <1>1
<1> QED
  BY <1>2 DEF Replay

LEMMA BatchIs ==
    ASSUME NEW B \in Batches, NEW e \in B
    PROVE  e.at \in Cells /\ e.old \in Value /\ e.new \in Value
BY DEF Batches

LEMMA AllToIs ==
    ASSUME NEW p \in Players, NEW cmd \in Commands[p], NEW S, NEW c \in DOMAIN All_to(S, cmd)
    PROVE  All_to(S, cmd)[c] \in Value
BY WorldEditAssumption DEF All_to, Value, Byte

LEMMA PaintIs ==
    ASSUME world \in [Cells -> Content], NEW p \in Players, NEW cmd \in Commands[p], NEW c \in DOMAIN Paint(cmd)
    PROVE  Paint(cmd)[c] \in Value
<1>1. c \in Cells /\ Paint(cmd)[c] = <<IF world[c] = Absent THEN PaintedBase ELSE world[c][1], cmd.colour>>
  BY DEF Paint, BoxOf
<1>2. world[c] # Absent => world[c][1] \in Byte
  BY <1>1 DEF Content, Byte
<1>3. PaintedBase \in Byte /\ cmd.colour \in Byte
  BY WorldEditAssumption DEF PaintedBase, Byte
<1>4. (IF world[c] = Absent THEN PaintedBase ELSE world[c][1]) \in Byte
  BY <1>2, <1>3
<1> QED
  BY <1>1, <1>3, <1>4 DEF Value

LEMMA PasteIs ==
    ASSUME NEW cmd, NEW cells, \A k \in cells : ClipOk(k), NEW c \in DOMAIN Paste(cmd, cells)
    PROVE  Paste(cmd, cells)[c] \in Value
<1> DEFINE k == CHOOSE k \in cells : Sum3(cmd.feet, k.at) = c
<1>1. \E j \in cells : Sum3(cmd.feet, j.at) = c
  BY DEF Paste
<1>2. k \in cells
  BY <1>1
<1>3. Paste(cmd, cells)[c] = <<k.type, k.colour>>
  BY DEF Paste
<1> HIDE DEF k
<1> QED
  BY <1>2, <1>3 DEF ClipOk, Value

LEMMA PlatformIs ==
    ASSUME NEW cmd, NEW c \in DOMAIN Platform(cmd)
    PROVE  Platform(cmd)[c] \in Value
BY DEF Platform, Value, Byte

LEMMA ReplayTyped ==
    ASSUME NEW B \in Batches, NEW c \in DOMAIN Replay(B)
    PROVE  Replay(B)[c] \in Value
<1>1. PICK e \in B : c = e.at
  BY ReplayIs
<1> QED
  BY <1>1, ReplayIs, BatchIs

LEMMA WantedIs ==
    ASSUME world \in [Cells -> Content], Ledger, NEW p \in Players, NEW cmd \in Commands[p], cmd.verb \in Editing,
           cmd.verb = "undo" => undo[p] # <<>>, cmd.verb = "redo" => redo[p] # <<>>
    PROVE  \A c \in DOMAIN Wanted(p, cmd) : Wanted(p, cmd)[c] \in Value
<1> DEFINE W == Wanted(p, cmd)
<1>1. CASE cmd.verb \in {"set", "walls"}
  <2>1. \E S : W = All_to(S, cmd)
    BY <1>1 DEF Wanted, SetBox
  <2> QED
    BY <2>1, AllToIs
<1>2. CASE cmd.verb = "paint"
  <2>1. W = Paint(cmd)
    BY <1>2 DEF Wanted
  <2> QED
    BY <2>1, PaintIs
<1>3. CASE cmd.verb \in {"replace", "replacenear"}
  <2>1. \E S : W = All_to(S, cmd)
    BY <1>3 DEF Wanted, Replace, ReplaceNear
  <2> QED
    BY <2>1, AllToIs
<1>4. CASE cmd.verb \in {"sphere", "hsphere", "cyl", "hcyl"}
  <2>1. W = All_to(Shape(cmd), cmd)
    BY <1>4 DEF Wanted
  <2> QED
    BY <2>1, AllToIs
<1>5. CASE cmd.verb = "up"
  <2>1. W = Platform(cmd)
    BY <1>5 DEF Wanted
  <2> QED
    BY <2>1, PlatformIs
<1>6. CASE cmd.verb = "paste"
  <2>1. W = Paste(cmd, clip[p]) /\ \A k \in clip[p] : ClipOk(k)
    BY <1>6 DEF Wanted, Ledger
  <2> QED
    BY <2>1, PasteIs
<1>7. CASE cmd.verb = "undo"
  <2>1. W = Replay(we_invert(Last(undo[p]))) /\ undo[p] \in Seq(Batches) /\ undo[p] # <<>>
    BY <1>7 DEF Wanted, Ledger, Books
  <2>2. we_invert(Last(undo[p])) \in Batches
    BY <2>1, FrontIs, InvertIs
  <2> QED
    BY <2>1, <2>2, ReplayTyped
<1>8. CASE cmd.verb = "redo"
  <2>1. W = Replay(Last(redo[p])) /\ redo[p] \in Seq(Batches) /\ redo[p] # <<>>
    BY <1>8 DEF Wanted, Ledger, Books
  <2>2. Last(redo[p]) \in Batches
    BY <2>1, FrontIs
  <2> QED
    BY <2>1, <2>2, ReplayTyped
<1> QED
  BY <1>1, <1>2, <1>3, <1>4, <1>5, <1>6, <1>7, <1>8 DEF Editing

Changed(want) == {c \in Cells \cap DOMAIN want : we_edit_changes(world, c, want[c])}
Allowed_of(free) == IF weCapAllows(free) THEN free ELSE {}
Entered(batch, want) == {[at |-> c, old |-> weRead(world, c), new |-> want[c]] : c \in batch}

\* A batch is written as a whole, on cells of the world that nobody holds.
LEMMA WrittenIs ==
    ASSUME world \in [Cells -> Content], NEW want, \A c \in DOMAIN want : want[c] \in Value,
           NEW batch, batch \subseteq Cells \cap DOMAIN want, batch = {} \/ weCapAllows(batch),
           world' = worldSet(world, [c \in batch |-> want[c]])
    PROVE  /\ Grew /\ Stored(world') = Stored(world) \cup batch
           /\ batch # {} => Cardinality(Stored(world')) <= Cap
           /\ \A c \in Cells \ batch : world'[c] = world[c]
           /\ \A c \in batch : View(world')[c] = want[c]
           /\ \A c \in Cells \ batch : View(world')[c] = View(world)[c]
           /\ Entered(batch, want) \in Batches
           /\ Moves(View(world), Entered(batch, want), View(world'), {})
<1> DEFINE f == [c \in batch |-> want[c]]
           B == Entered(batch, want)
<1>1. DOMAIN f = batch /\ (\A c \in batch : f[c] = want[c] /\ want[c] \in Value /\ c \in Cells) /\ world' = worldSet(world, f)
  OBVIOUS
<1> HIDE DEF f
<1>2. /\ world' \in [Cells -> Content] /\ Stored(world') = Stored(world) \cup batch
      /\ \A c \in batch : world'[c] = want[c]
      /\ \A c \in Cells \ batch : world'[c] = world[c]
  BY <1>1, WorldSets
<1>3. batch # {} => Cardinality(Stored(world')) <= Cap
  BY <1>2 DEF weCapAllows
<1>4. batch = {} => Stored(world') = Stored(world)
  BY <1>2
<1>5. Grew
  BY <1>2, <1>3, <1>4 DEF Grew
<1>6. \A v \in Value : v # Absent
  BY ValueIs
<1>7. \A c \in batch : View(world')[c] = want[c]
  BY <1>1, <1>2, <1>6 DEF View, weRead
<1>8. \A c \in Cells \ batch : View(world')[c] = View(world)[c]
  BY <1>2 DEF View, weRead
<1>9. \A c \in batch : weRead(world, c) = View(world)[c] /\ View(world)[c] \in Value
  BY <1>1, ViewIs DEF View, Views
<1>10. \A e \in B : e.at \in batch /\ e.old = View(world)[e.at] /\ e.new = want[e.at]
  BY <1>9 DEF Entered
<1>11. \A c \in batch : \E e \in B : e.at = c
  <2>1. \A c \in batch : [at |-> c, old |-> weRead(world, c), new |-> want[c]] \in B
    BY DEF Entered
  <2> QED
    BY <2>1
<1>12. B \in Batches
  <2>1. \A e \in B : e \in [at : Cells, old : Value, new : Value]
    BY <1>1, <1>9 DEF Entered
  <2>2. \A e, d \in B : e.at = d.at => e = d
    BY DEF Entered
  <2> QED
    BY <2>1, <2>2 DEF Batches
<1> HIDE DEF B
<1>13. Moves(View(world), B, View(world'), {})
  BY <1>7, <1>8, <1>10, <1>11 DEF Moves
<1> QED
  BY <1>2, <1>3, <1>5, <1>7, <1>8, <1>12, <1>13 DEF B

LEMMA LaidAppend ==
    ASSUME NEW s \in Seq(Batches), NEW w, Laid(s, w), NEW B \in Batches, \A e \in B : e.at \in Stored(w)
    PROVE  Append(s, B) \in Seq(Batches) /\ Laid(Append(s, B), w)
<1> DEFINE n == Len(s)
           t == Append(s, B)
<1>1. n \in Nat /\ t \in Seq(Batches) /\ Len(t) = n + 1 /\ t[n + 1] = B /\ \A i \in 1..n : t[i] = s[i]
  OBVIOUS
<1> HIDE DEF n, t
<1>2. \A i \in 1..n + 1 : i = n + 1 \/ i \in 1..n
  BY <1>1
<1>3. Laid(t, w)
  BY <1>1, <1>2 DEF Laid, n
<1> QED
  BY <1>1, <1>3 DEF t

LEMMA LaidFront ==
    ASSUME NEW s \in Seq(Batches), s # <<>>, NEW w, Laid(s, w)
    PROVE  Laid(Front(s), w) /\ \A e \in Last(s) : e.at \in Stored(w)
<1>1. Len(s) - 1 \in Nat /\ Front(s) = [i \in 1..Len(s) - 1 |-> s[i]] /\ Last(s) = s[Len(s)]
  BY FrontIs
<1>2. Len(Front(s)) = Len(s) - 1 /\ Len(s) \in 1..Len(s) /\ \A i \in 1..Len(s) - 1 : i \in 1..Len(s) /\ Front(s)[i] = s[i]
  BY <1>1
<1> QED
  BY <1>1, <1>2 DEF Laid

\* Replaying C: where no zone held a cell back, the world holds what C says.
LEMMA ReplaySpared ==
    ASSUME world \in [Cells -> Content], NEW C \in Batches, \A e \in C : e.at \in Stored(world),
           Cardinality(Stored(world)) <= Cap,
           NEW want, want = Replay(C), NEW free \in SUBSET Changed(want),
           world' = worldSet(world, [c \in Allowed_of(free) |-> want[c]])
    PROVE  /\ Grew
           /\ \A c \in Cells \ (Changed(want) \ free) :
                 /\ \A e \in C : e.at = c => View(world')[c] = e.new
                 /\ (\A e \in C : e.at # c) => View(world')[c] = View(world)[c]
<1> DEFINE changed == Changed(want)
<1>1. \A c \in DOMAIN want : want[c] \in Value
  BY ReplayTyped
<1>2. DOMAIN want = {e.at : e \in C} /\ \A e \in C : want[e.at] = e.new
  BY ReplayIs
<1>3. changed \subseteq Cells \cap DOMAIN want
  BY DEF Changed
<1>4. DOMAIN want \subseteq Stored(world)
  BY <1>2
<1>5. Stored(world) \cup free = Stored(world)
  BY <1>3, <1>4
<1>6. weCapAllows(free) /\ Allowed_of(free) = free
  BY <1>5 DEF weCapAllows, Allowed_of
<1>7. free \subseteq Cells \cap DOMAIN want
  BY <1>3
<1>8. \A c \in changed : c \in Cells /\ (c \notin changed \ free => c \in free)
  BY <1>3
<1>9. \A c \in (Cells \cap DOMAIN want) \ changed : want[c] = View(world)[c]
  <2>1. \A c \in Stored(world) : world[c] # Absent
    BY DEF Stored
  <2> QED
    BY <1>4, <2>1 DEF Changed, we_edit_changes, View
<1> HIDE DEF changed
<1>10. world' = worldSet(world, [c \in free |-> want[c]])
  BY <1>6
<1>11. /\ Grew
       /\ \A c \in free : View(world')[c] = want[c]
       /\ \A c \in Cells \ free : View(world')[c] = View(world)[c]
  BY <1>1, <1>6, <1>7, <1>10, WrittenIs
<1>12. ASSUME NEW c \in Cells \ (changed \ free), NEW e \in C, e.at = c PROVE View(world')[c] = e.new
  <2>1. c \in DOMAIN want /\ want[c] = e.new
    BY <1>2, <1>12
  <2>2. CASE c \in changed
    BY <1>8, <1>11, <2>1, <2>2
  <2>3. CASE c \notin changed
    <3>1. c \notin free
      BY <2>3 DEF changed
    <3> QED
      BY <1>9, <1>11, <2>1, <2>3, <3>1
  <2> QED
    BY <2>2, <2>3
<1>13. ASSUME NEW c \in Cells, \A e \in C : e.at # c PROVE View(world')[c] = View(world)[c]
  <2>1. c \notin free
    BY <1>2, <1>7, <1>13
  <2> QED
    BY <1>11, <2>1
<1> QED
  BY <1>11, <1>12, <1>13 DEF changed

LEMMA RecordBooks ==
    ASSUME world \in [Cells -> Content], Ledger, NEW p \in Players,
           NEW want, \A c \in DOMAIN want : want[c] \in Value,
           NEW batch, batch \subseteq Cells \cap DOMAIN want, batch = {} \/ weCapAllows(batch),
           world' = worldSet(world, [c \in batch |-> want[c]])
    PROVE  Books(record([undo |-> undo[p], redo |-> redo[p]], Entered(batch, want)).undo,
                 record([undo |-> undo[p], redo |-> redo[p]], Entered(batch, want)).redo, foreign[p], world')
<1> DEFINE B == Entered(batch, want)
           s == [undo |-> undo[p], redo |-> redo[p]]
           F == foreign[p]
           u == undo[p]
           V == View(world)
           W == View(world')
<1>1. /\ Grew /\ Stored(world') = Stored(world) \cup batch
      /\ batch # {} => Cardinality(Stored(world')) <= Cap
      /\ \A c \in Cells \ batch : world'[c] = world[c]
      /\ B \in Batches /\ Moves(V, B, W, {})
  BY WrittenIs
<1>2. Books(u, redo[p], F, world)
  BY DEF Ledger
<1>3. \A e \in B : e.at \in batch
  BY DEF Entered
<1>4. CASE batch = {}
  <2>1. B = {}
    BY <1>4 DEF Entered
  <2>2. record(s, B) = s
    BY <2>1 DEF record
  <2>3. world' \in [Cells -> Content] /\ Stored(world) \subseteq Stored(world')
        /\ (Cardinality(Stored(world)) <= Cap => Cardinality(Stored(world')) <= Cap)
        /\ \A c \in Cells \ F : world'[c] = world[c]
    BY <1>1, <1>4 DEF Grew
  <2>4. Books(u, redo[p], F, world')
    BY <1>2, <2>3, BooksElsewhere
  <2> QED
    BY <2>2, <2>4
<1>5. CASE batch # {}
  <2> DEFINE t == Append(u, B)
             none == <<>>
  <2>1. B # {}
    BY <1>5 DEF Entered
  <2>2. record(s, B) = trim([undo |-> t, redo |-> none])
    BY <2>1 DEF record
  <2>3. V \in Views /\ W \in Views
    BY <1>1, ViewIs DEF Grew
  <2>4. Laid(u, world') /\ u \in Seq(Batches) /\ Told(u, F, V)
    BY <1>1, <1>2 DEF Books, Laid
  <2>5. t \in Seq(Batches) /\ Laid(t, world')
    BY <1>1, <1>3, <2>4, LaidAppend
  <2>6. Moves(V, B, W, F)
    BY <1>1 DEF Moves
  <2> HIDE DEF V, W, B
  <2>7. Told(t, F, W)
    BY <1>1, <2>3, <2>4, <2>6, ToldAppend
  <2>8. none \in Seq(Batches) /\ Laid(none, world') /\ Inverted(none) = <<>>
    <3>1. Len(none) = 0 /\ none \in Seq(Batches)
      OBVIOUS
    <3>2. Inverted(none) \in Seq(Batches) /\ Len(Inverted(none)) = 0
      BY <3>1, InvertedIs
    <3> QED
      BY <3>1, <3>2 DEF Laid
  <2>9. Told(Inverted(none), F, W)
    BY <2>3, <2>8, ToldNone
  <2> HIDE DEF t, none
  <2>10. Books(t, none, F, world')
    BY <1>1, <1>5, <2>5, <2>7, <2>8, <2>9 DEF Books, W
  <2>11. Books(record(s, B).undo, record(s, B).redo, F, world')
    BY <2>2, <2>10, BooksTrimmed
  <2> QED
    BY <2>11 DEF B
<1> QED
  BY <1>4, <1>5

LEMMA UndoBooks ==
    ASSUME world \in [Cells -> Content], Ledger, NEW p \in Players, undo[p] # <<>>,
           NEW want, want = Replay(we_invert(Last(undo[p]))), NEW free \in SUBSET Changed(want),
           world' = worldSet(world, [c \in Allowed_of(free) |-> want[c]])
    PROVE  Books(take_undo([undo |-> undo[p], redo |-> redo[p]]).undo, take_undo([undo |-> undo[p], redo |-> redo[p]]).redo,
                 foreign[p] \cup (Changed(want) \ free), world')
<1> DEFINE s == undo[p]
           r == redo[p]
           t == Inverted(r)
           F == foreign[p]
           G == F \cup (Changed(want) \ free)
           B == Last(s)
           C == we_invert(B)
           V == View(world)
           W == View(world')
           front == Front(s)
           more == Append(r, B)
<1>1. Books(s, r, F, world) /\ s \in Seq(Batches) /\ r \in Seq(Batches) /\ Told(s, F, V) /\ Told(t, F, V) /\ Laid(s, world) /\ Laid(r, world)
      /\ Cardinality(Stored(world)) <= Cap
  BY DEF Ledger, Books
<1>2. /\ B \in Batches /\ C \in Batches /\ front \in Seq(Batches) /\ Laid(front, world)
      /\ \A e \in B : e.at \in Stored(world)
  BY <1>1, FrontIs, InvertIs, LaidFront
<1>3. \A e \in C : e.at \in Stored(world)
  BY <1>2 DEF we_invert
<1>4. /\ Grew
      /\ \A c \in Cells \ (Changed(want) \ free) :
            /\ \A e \in C : e.at = c => W[c] = e.new
            /\ (\A e \in C : e.at # c) => W[c] = V[c]
  BY <1>1, <1>2, <1>3, ReplaySpared
<1>5. \A e \in B : \E d \in C : d.at = e.at /\ d.new = e.old
  <2>1. \A e \in B : [at |-> e.at, old |-> e.new, new |-> e.old] \in C
    BY DEF we_invert
  <2> QED
    BY <2>1
<1>6. \A d \in C : \E e \in B : d.at = e.at
  BY DEF we_invert
<1>7. t \in Seq(Batches) /\ V \in Views /\ W \in Views
  BY <1>1, <1>4, InvertedIs, ViewIs DEF Grew
<1>8. \A c \in Cells \ G : c \in Cells \ (Changed(want) \ free)
  OBVIOUS
<1> HIDE DEF V, W, C, t, G
<1>9. \A c \in Cells \ G : /\ \A e \in B : e.at = c => W[c] = e.old
                           /\ (\A e \in B : e.at # c) => W[c] = V[c]
  BY <1>4, <1>5, <1>6, <1>8
<1>10. Told(front, G, W) /\ Told(Append(t, C), G, W)
  <2>1. F \subseteq G
    BY DEF G
  <2> QED
    BY <1>1, <1>7, <1>9, <2>1, Turn DEF C
<1>11. Inverted(more) = Append(t, C)
  BY <1>1, <1>2, InvertedAppend DEF t, C
<1>12. Stored(world) \subseteq Stored(world') /\ Cardinality(Stored(world')) <= Cap
  BY <1>1, <1>4 DEF Grew
<1>13. Laid(front, world') /\ Laid(r, world') /\ \A e \in B : e.at \in Stored(world')
  BY <1>1, <1>2, <1>12 DEF Laid
<1>14. more \in Seq(Batches) /\ Laid(more, world')
  BY <1>1, <1>2, <1>13, LaidAppend
<1> HIDE DEF front, more
<1>15. Books(front, more, G, world')
  BY <1>2, <1>10, <1>11, <1>12, <1>13, <1>14 DEF Books, W
<1>16. take_undo([undo |-> s, redo |-> r]) = trim([undo |-> front, redo |-> more])
  BY DEF take_undo, front, more
<1> QED
  BY <1>15, <1>16, BooksTrimmed DEF G

LEMMA RedoBooks ==
    ASSUME world \in [Cells -> Content], Ledger, NEW p \in Players, redo[p] # <<>>,
           NEW want, want = Replay(Last(redo[p])), NEW free \in SUBSET Changed(want),
           world' = worldSet(world, [c \in Allowed_of(free) |-> want[c]])
    PROVE  Books(take_redo([undo |-> undo[p], redo |-> redo[p]]).undo, take_redo([undo |-> undo[p], redo |-> redo[p]]).redo,
                 foreign[p] \cup (Changed(want) \ free), world')
<1> DEFINE t == undo[p]
           r == redo[p]
           s == Inverted(r)
           F == foreign[p]
           G == F \cup (Changed(want) \ free)
           B == Last(r)
           C == we_invert(B)
           V == View(world)
           W == View(world')
           front == Front(r)
           more == Append(t, B)
<1>1. Books(t, r, F, world) /\ t \in Seq(Batches) /\ r \in Seq(Batches) /\ Told(t, F, V) /\ Told(s, F, V) /\ Laid(t, world) /\ Laid(r, world)
      /\ Cardinality(Stored(world)) <= Cap
  BY DEF Ledger, Books
<1>2. /\ B \in Batches /\ C \in Batches /\ we_invert(C) = B /\ front \in Seq(Batches) /\ Laid(front, world)
      /\ \A e \in B : e.at \in Stored(world)
  BY <1>1, FrontIs, InvertIs, LaidFront
<1>3. s \in Seq(Batches) /\ s # <<>> /\ Last(s) = C /\ Front(s) = Inverted(front)
  BY <1>1, InvertedIs, InvertedFront
<1>4. /\ Grew
      /\ \A c \in Cells \ (Changed(want) \ free) :
            /\ \A e \in B : e.at = c => W[c] = e.new
            /\ (\A e \in B : e.at # c) => W[c] = V[c]
  BY <1>1, <1>2, ReplaySpared
<1>5. \A d \in C : \E e \in B : d.at = e.at /\ d.old = e.new
  BY DEF we_invert
<1>6. \A e \in B : \E d \in C : d.at = e.at
  <2>1. \A e \in B : [at |-> e.at, old |-> e.new, new |-> e.old] \in C
    BY DEF we_invert
  <2> QED
    BY <2>1
<1>7. V \in Views /\ W \in Views
  BY <1>4, ViewIs DEF Grew
<1>8. \A c \in Cells \ G : c \in Cells \ (Changed(want) \ free)
  OBVIOUS
<1> HIDE DEF V, W, C, s, G
<1>9. \A c \in Cells \ G : /\ \A e \in C : e.at = c => W[c] = e.old
                           /\ (\A e \in C : e.at # c) => W[c] = V[c]
  BY <1>4, <1>5, <1>6, <1>8
<1>10. Told(Front(s), G, W) /\ Told(Append(t, we_invert(Last(s))), G, W)
  <2>1. F \subseteq G
    BY DEF G
  <2> QED
    BY <1>1, <1>3, <1>7, <1>9, <2>1, Turn
<1>11. Told(Inverted(front), G, W) /\ Told(more, G, W)
  BY <1>2, <1>3, <1>10
<1>12. Stored(world) \subseteq Stored(world') /\ Cardinality(Stored(world')) <= Cap
  BY <1>1, <1>4 DEF Grew
<1>13. Laid(front, world') /\ Laid(t, world') /\ \A e \in B : e.at \in Stored(world')
  BY <1>1, <1>2, <1>12 DEF Laid
<1>14. more \in Seq(Batches) /\ Laid(more, world')
  BY <1>1, <1>2, <1>13, LaidAppend
<1> HIDE DEF front, more
<1>15. Books(more, front, G, world')
  BY <1>2, <1>11, <1>12, <1>13, <1>14 DEF Books, W
<1>16. take_redo([undo |-> t, redo |-> r]) = trim([undo |-> more, redo |-> front])
  BY DEF take_redo, front, more
<1> QED
  BY <1>15, <1>16, BooksTrimmed DEF G

LEMMA NoBooks ==
    ASSUME NEW w \in [Cells -> Content], NEW F
    PROVE  Books(<<>>, <<>>, F, w)
<1> DEFINE none == <<>>
<1>1. none \in Seq(Batches) /\ Len(none) = 0
  OBVIOUS
<1>2. Inverted(none) \in Seq(Batches) /\ Len(Inverted(none)) = 0
  BY <1>1, InvertedIs
<1>3. Inverted(none) = <<>>
  BY <1>2
<1>4. Laid(none, w)
  BY <1>1 DEF Laid
<1>5. Told(none, F, View(w))
  BY ViewIs, ToldNone
<1> HIDE DEF none
<1>6. Books(none, none, F, w)
  BY <1>1, <1>3, <1>4, <1>5 DEF Books, none
<1> QED
  BY <1>6 DEF none

\* What a commit is made of.
CommitBy(p, cmd, want, free, batch) ==
    /\ SoundCommit(p, h[p])
    /\ cmd.verb = "undo" => undo[p] # <<>> /\ want = Replay(we_invert(Last(undo[p])))
    /\ cmd.verb = "redo" => redo[p] # <<>> /\ want = Replay(Last(redo[p]))
    /\ \A c \in DOMAIN want : want[c] \in Value
    /\ free = Changed(want) \ h[p].held /\ batch = Allowed_of(free)
    /\ batch \subseteq Cells \cap DOMAIN want /\ (batch = {} \/ weCapAllows(batch))
    /\ batch \cap h[p].held = {}
    /\ world' = worldSet(world, [c \in batch |-> want[c]])
    /\ removeSigns({c \in batch : want[c][1] = Air}, p) /\ Keep(p)
    /\ History(p, cmd.verb, Entered(batch, want))
    /\ foreign' = [q \in Players |->
                      foreign[q] \cup IF q # p THEN batch
                                      ELSE IF cmd.verb \in {"undo", "redo"} THEN Changed(want) \ free ELSE {}]
    /\ Drains(p, Idle) \/ Rest(p)
    /\ UNCHANGED <<zones, tntOn, fireOn, echo, revert, budget, clip>>

LEMMA CommitIs ==
    ASSUME world \in [Cells -> Content], Handlers, Ledger, Promised, NEW p \in Players, Commit(p)
    PROVE  h[p].cmd \in Commands[p] /\ \E want, free, batch : CommitBy(p, h[p].cmd, want, free, batch)
<1> DEFINE cmd == h[p].cmd
           want == Wanted(p, cmd)
           free == Changed(want) \ h[p].held
           batch == Allowed_of(free)
<1>1. SoundCommit(p, h[p]) /\ h[p].at = "commit"
  BY HandlerIs, Threads DEF Commit
<1>2. cmd \in Commands[p] /\ cmd.verb \in Editing
  BY <1>1 DEF SoundCommit
<1>3. (cmd.verb = "undo" => undo[p] # <<>>) /\ (cmd.verb = "redo" => redo[p] # <<>>)
  BY <1>1 DEF Promised
<1>4. /\ cmd.verb = "undo" => want = Replay(we_invert(Last(undo[p])))
      /\ cmd.verb = "redo" => want = Replay(Last(redo[p]))
  BY DEF Wanted
<1>5. \A c \in DOMAIN want : want[c] \in Value
  BY <1>2, <1>3, WantedIs
<1>6. Decided(p, cmd, want, Changed(want)) /\ UNCHANGED <<zones, tntOn, fireOn, echo, revert, budget, clip>>
  BY DEF Commit, weCommit, Changed
<1> HIDE DEF cmd, want
<1>7. /\ batch \subseteq free /\ free \subseteq Cells \cap DOMAIN want /\ (batch = {} \/ weCapAllows(batch))
      /\ batch \cap h[p].held = {}
  BY DEF Allowed_of, Changed
<1>8. /\ world' = worldSet(world, [c \in batch |-> want[c]])
      /\ removeSigns({c \in batch : want[c][1] = Air}, p) /\ Keep(p)
      /\ History(p, cmd.verb, Entered(batch, want))
      /\ foreign' = [q \in Players |->
                        foreign[q] \cup IF q # p THEN batch
                                        ELSE IF cmd.verb \in {"undo", "redo"} THEN Changed(want) \ free ELSE {}]
      /\ Drains(p, Idle) \/ Rest(p)
  BY <1>6 DEF Decided, weWriteLocked, Entered, Allowed_of
<1> HIDE DEF batch
<1>9. batch \subseteq Cells \cap DOMAIN want
  BY <1>7
<1>10. free = Changed(want) \ h[p].held /\ batch = Allowed_of(free)
  BY DEF batch
<1> HIDE DEF free
<1>11. CommitBy(p, cmd, want, free, batch)
  BY <1>1, <1>3, <1>4, <1>5, <1>6, <1>7, <1>8, <1>9, <1>10 DEF CommitBy
<1>12. \E w, f, b : CommitBy(p, cmd, w, f, b)
  BY <1>11
<1> QED
  BY <1>2, <1>12 DEF cmd

LEMMA CommitKeeps ==
    ASSUME world \in [Cells -> Content], Handlers, Ledger, Promised, Guards, NEW p \in Players, Commit(p)
    PROVE  Grew /\ Handlers' /\ Guards' /\ Ledger' /\ Promised'
<1> DEFINE cmd == h[p].cmd
<1>0. PICK want, free, batch : cmd \in Commands[p] /\ CommitBy(p, cmd, want, free, batch)
  BY CommitIs
<1>1. /\ SoundCommit(p, h[p]) /\ cmd \in Commands[p]
      /\ cmd.verb = "undo" => undo[p] # <<>> /\ want = Replay(we_invert(Last(undo[p])))
      /\ cmd.verb = "redo" => redo[p] # <<>> /\ want = Replay(Last(redo[p]))
      /\ \A c \in DOMAIN want : want[c] \in Value
      /\ free = Changed(want) \ h[p].held /\ batch = Allowed_of(free)
      /\ batch \subseteq Cells \cap DOMAIN want /\ (batch = {} \/ weCapAllows(batch))
      /\ batch \cap h[p].held = {}
      /\ world' = worldSet(world, [c \in batch |-> want[c]])
      /\ removeSigns({c \in batch : want[c][1] = Air}, p) /\ Keep(p)
      /\ History(p, cmd.verb, Entered(batch, want))
      /\ foreign' = [q \in Players |->
                        foreign[q] \cup IF q # p THEN batch
                                        ELSE IF cmd.verb \in {"undo", "redo"} THEN Changed(want) \ free ELSE {}]
      /\ Drains(p, Idle) \/ Rest(p)
      /\ UNCHANGED <<zones, tntOn, fireOn, echo, revert, budget, clip>>
  BY <1>0 DEF CommitBy
<1> DEFINE B == Entered(batch, want)
           s == [undo |-> undo[p], redo |-> redo[p]]
<1>2. /\ Grew
      /\ \A c \in Cells \ batch : world'[c] = world[c]
  BY <1>1, WrittenIs
<1>3. Handlers'
  BY <1>1, DrainsKeeps, RestKeeps
<1>4. Guards'
  <2>1. Barred(p) => batch \cap Guarded = {}
    BY <1>1 DEF SoundCommit
  <2> DEFINE aired == {c \in batch : want[c][1] = Air}
  <2>2. aired \subseteq batch /\ removeSigns(aired, p) /\ Keep(p)
    BY <1>1
  <2> HIDE DEF aired
  <2>3. KeepAll \/ Spared
    BY <1>2, <2>1, <2>2, EditSpared
  <2>4. Core \in zones'
    BY <1>1 DEF Guards
  <2> QED
    BY <2>3, <2>4, GuardsStay
<1>5. ASSUME NEW q \in Players, q # p
      PROVE  undo'[q] = undo[q] /\ redo'[q] = redo[q] /\ foreign'[q] = foreign[q] \cup batch
  BY <1>1, <1>5 DEF History, Ledger
<1>6. ASSUME NEW q \in Players, q # p PROVE Books(undo'[q], redo'[q], foreign'[q], world')
  <2> DEFINE G == foreign[q] \cup batch
  <2>1. Books(undo[q], redo[q], foreign[q], world)
    BY DEF Ledger
  <2>2. foreign[q] \subseteq G /\ \A c \in Cells \ G : world'[c] = world[c]
    BY <1>2
  <2> HIDE DEF G
  <2>3. Books(undo[q], redo[q], G, world')
    BY <1>2, <2>1, <2>2, BooksElsewhere DEF Grew
  <2> QED
    BY <1>5, <1>6, <2>3 DEF G
<1>7. Books(undo'[p], redo'[p], foreign'[p], world')
  <2>1. free \in SUBSET Changed(want) /\ world' = worldSet(world, [c \in Allowed_of(free) |-> want[c]])
    BY <1>1
  <2>2. CASE cmd.verb = "undo"
    <3>1. undo'[p] = take_undo(s).undo /\ redo'[p] = take_undo(s).redo /\ foreign'[p] = foreign[p] \cup (Changed(want) \ free)
      BY <1>1, <2>2 DEF History, Ledger
    <3> QED
      BY <1>1, <2>1, <2>2, <3>1, UndoBooks
  <2>3. CASE cmd.verb = "redo"
    <3>1. undo'[p] = take_redo(s).undo /\ redo'[p] = take_redo(s).redo /\ foreign'[p] = foreign[p] \cup (Changed(want) \ free)
      BY <1>1, <2>3 DEF History, Ledger
    <3> QED
      BY <1>1, <2>1, <2>3, <3>1, RedoBooks
  <2>4. CASE cmd.verb # "undo" /\ cmd.verb # "redo"
    <3>1. undo'[p] = record(s, B).undo /\ redo'[p] = record(s, B).redo /\ foreign'[p] = foreign[p]
      BY <1>1, <2>4 DEF History, Ledger
    <3>2. Books(record(s, B).undo, record(s, B).redo, foreign[p], world')
      BY <1>1, RecordBooks
    <3> QED
      BY <3>1, <3>2
  <2> QED
    BY <2>2, <2>3, <2>4
<1>8. Ledger'
  <2>1. /\ undo' = [q \in Players |-> undo'[q]] /\ redo' = [q \in Players |-> redo'[q]]
        /\ foreign' = [q \in Players |-> foreign'[q]] /\ clip' = clip
    BY <1>1 DEF History, Ledger
  <2> QED
    BY <1>6, <1>7, <2>1 DEF Ledger
<1>9. Promised'
  <2>1. h'[p].at # "commit" /\ \A q \in Players \ {p} : h'[q] = h[q]
    BY <1>1, Threads DEF Drains, Rest, Goes, Idle, Handlers
  <2> QED
    BY <1>5, <2>1 DEF Promised
<1> QED
  BY <1>2, <1>3, <1>4, <1>8, <1>9

\* A command that is let through has its zones with it.
LEMMA CommandKeeps ==
    ASSUME Handlers, Guards, Ledger, Promised, NEW p \in Players, NEW cmd \in Commands[p], Command(p, cmd)
    PROVE  Handlers' /\ Promised'
<1> DEFINE held == {c \in Cells : blocking(zones, Level[p], c)}
           s == [at |-> "commit", cmd |-> cmd, held |-> held]
<1>1. Goes(p, s) /\ cmd.verb \in Editing /\ UNCHANGED <<undo, redo>>
  BY DEF Command, session
<1>2. Barred(p) => Guarded \subseteq held
  <2>1. Guarded \subseteq Cells
    BY DEF Guarded, BoxOf
  <2> QED
    BY <2>1, CoreBlocks DEF Guards
<1>3. s.at = "commit" /\ s.cmd = cmd /\ s.held = held
  OBVIOUS
<1> HIDE DEF held, s
<1>4. Sound(p, s)
  BY <1>1, <1>2, <1>3 DEF Sound, SoundCommit
<1>5. Handlers'
  BY <1>1, <1>4, GoesKeeps
<1>6. h'[p] = s /\ \A q \in Players \ {p} : h'[q] = h[q]
  BY <1>1, Threads DEF Goes, Handlers
<1>7. (cmd.verb = "undo" => undo[p] # <<>>) /\ (cmd.verb = "redo" => redo[p] # <<>>)
  BY DEF Command
<1>8. Promised'
  BY <1>1, <1>3, <1>6, <1>7 DEF Promised
<1> QED
  BY <1>5, <1>8

LEMMA ClippedIs ==
    ASSUME world \in [Cells -> Content], NEW c \in Cells, world[c] # Absent, NEW f
    PROVE  ClipOk(Clipped(world, c, f))
<1> DEFINE type == IF world[c][1] = PaintedBase THEN baseType(c[2]) ELSE world[c][1]
           at == <<c[1] - f[1], c[2] - f[2], c[3] - f[3]>>
<1>1. world[c][1] \in Byte /\ world[c][2] \in Byte
  BY DEF Content, Byte
<1>2. c[2] \in Nat
  BY CellsArePlaces, Sizes
<1>3. type \in Byte
  BY <1>1, <1>2, Natural
<1>4. Clipped(world, c, f) = [at |-> at, type |-> type, colour |-> world[c][2]]
  BY DEF Clipped
<1> HIDE DEF at, type
<1> QED
  BY <1>1, <1>3, <1>4 DEF ClipOk

LEMMA QuarterIs ==
    ASSUME NEW k, ClipOk(k)
    PROVE  ClipOk(Quarter(k))
<1>0. PICK at : \E type \in Byte, colour \in Byte : k = [at |-> at, type |-> type, colour |-> colour]
  BY DEF ClipOk
<1>1. PICK type \in Byte, colour \in Byte : k = [at |-> at, type |-> type, colour |-> colour]
  BY <1>0
<1> DEFINE turned == IF type \in 24..55 THEN type - (type % 4) + ((type + 1) % 4) ELSE type
           there == <<-at[3], at[2], at[1]>>
<1>2. turned \in Byte
  BY DEF Byte
<1>4. k.at = at /\ k.type = type
  BY <1>1
<1>5. Quarter(k) = [k EXCEPT !.at = there, !.type = turned]
  BY <1>4 DEF Quarter
<1> HIDE DEF turned, there
<1>3. Quarter(k) = [at |-> there, type |-> turned, colour |-> colour]
  BY <1>1, <1>5
<1> QED
  BY <1>2, <1>3 DEF ClipOk

\* Only the clipboard changes.
LEMMA ClipKeeps ==
    ASSUME world \in [Cells -> Content], Ledger, NEW p \in Players, NEW cmd, Copy(p, cmd) \/ Rotate(p, cmd)
    PROVE  Ledger'
<1>1. UNCHANGED <<world, undo, redo, foreign>>
  BY DEF Copy, Rotate
<1>2. \A q \in Players : Books(undo'[q], redo'[q], foreign'[q], world')
  BY <1>1 DEF Ledger
<1>3. clip' = [q \in Players |-> clip'[q]] /\ \A q \in Players \ {p} : clip'[q] = clip[q]
  BY DEF Copy, Rotate, Ledger
<1>4. \A k \in clip'[p] : ClipOk(k)
  <2>1. CASE Copy(p, cmd)
    <3> DEFINE taken == {c \in BoxOf(cmd.lo, cmd.hi) : world[c] # Absent}
               named == {c \in taken : ~(Has(world, c, {PaintedBase}) /\ baseType(c[2]) = Air)}
    <3>1. clip'[p] = {Clipped(world, c, cmd.feet) : c \in named}
      BY <2>1 DEF Copy, Ledger
    <3>2. \A c \in named : c \in Cells /\ world[c] # Absent
      BY DEF BoxOf
    <3> HIDE DEF named
    <3> QED
      BY <3>1, <3>2, ClippedIs
  <2>2. CASE Rotate(p, cmd)
    <3>1. clip'[p] = {Quarter(k) : k \in clip[p]}
      BY <2>2 DEF Rotate, Ledger
    <3> QED
      BY <3>1, QuarterIs DEF Ledger
  <2> QED
    BY <2>1, <2>2
<1> QED
  BY <1>1, <1>2, <1>3, <1>4 DEF Ledger

\* No other handler goes where a command would.
LEMMA EditsGo ==
    ASSUME Handlers, NextEdits
    PROVE  UNCHANGED h \/ \E t \in SignThreads : \E s : Goes(t, s) /\ s.at # "commit"
<1>1. ASSUME NEW t \in SignThreads, DrainSigns(t) \/ LogSigns(t)
      PROVE  \E s : Goes(t, s) /\ s.at # "commit"
  <2>1. h[t].then.at # "commit"
    BY <1>1, HandlerIs DEF DrainSigns, LogSigns, Idle, SoundRelay
  <2> QED
    BY <1>1, <2>1 DEF DrainSigns, LogSigns
<1>2. ASSUME NEW p \in Players, NEW a \in Actions[p], Receive(p, a)
      PROVE  UNCHANGED h \/ \E s : Goes(p, s) /\ s.at # "commit"
  BY <1>2 DEF Receive, RunDry
<1>3. ASSUME NEW t, NEW s, Drains(t, s), s.at # "commit" PROVE \E u : Goes(t, u) /\ u.at # "commit"
  BY <1>3 DEF Drains
<1>4. ASSUME NEW p \in Players, SimBurn(p) PROVE \E s : Goes(p, s) /\ s.at # "commit"
  BY <1>3, <1>4 DEF SimBurn, Burnt
<1>5. ASSUME NEW p \in Players, NEW q, Verdict(p) \/ Echo(p) \/ Check(p) \/ Sim(p) \/ Relay(p) \/ SignSent(p, q) \/ handleSignWrite(p)
      PROVE  UNCHANGED h \/ \E s : Goes(p, s) /\ s.at # "commit"
  BY <1>3, <1>5 DEF Verdict, Echo, Check, Sim, Relay, SignSent, handleSignWrite, Rest, Idle
<1>6. ASSUME NEW f, NEW q, NEW c, Fill(f) \/ SignsAdd(q) \/ SignsRm(c)
      PROVE  UNCHANGED h \/ \E s : Goes("control", s) /\ s.at # "commit"
  BY <1>3, <1>6 DEF Fill, SignsAdd, SignsRm, Idle
<1>7. SaveDrains => \E s : Goes("server", s) /\ s.at # "commit"
  BY DEF SaveDrains
<1>8. \/ UNCHANGED h
      \/ \E t \in SignThreads : DrainSigns(t) \/ LogSigns(t)
      \/ \E p \in Players : \E a \in Actions[p] : Receive(p, a)
      \/ \E p \in Players : SimBurn(p)
      \/ \E p \in Players : \E q : Verdict(p) \/ Echo(p) \/ Check(p) \/ Sim(p) \/ Relay(p) \/ SignSent(p, q) \/ handleSignWrite(p)
      \/ \E f, q, c : Fill(f) \/ SignsAdd(q) \/ SignsRm(c)
      \/ SaveDrains
  BY DEF NextEdits, ZoneCommand, Revert, Serve, TntSwitch, FireSwitch, Quiet, ZoneAdd, ZoneRemove, ZoneFlags
<1> QED
  BY <1>1, <1>2, <1>4, <1>5, <1>6, <1>7, <1>8, Threads

LEMMA ElsewhereKeeps ==
    ASSUME world \in [Cells -> Content], Handlers, Ledger, Promised, Elsewhere
    PROVE  Ledger' /\ Promised'
<1>1. Grew /\ UNCHANGED <<clip, undo, redo>>
  BY EditsGrew DEF Elsewhere
<1>2. foreign' = [p \in Players |-> foreign[p] \cup {c \in Cells : world'[c] # world[c]}]
  BY DEF Elsewhere
<1>3. ASSUME NEW p \in Players PROVE Books(undo'[p], redo'[p], foreign'[p], world')
  <2> DEFINE G == foreign'[p]
  <2>1. Books(undo[p], redo[p], foreign[p], world)
    BY DEF Ledger
  <2>2. foreign[p] \subseteq G /\ \A c \in Cells \ G : world'[c] = world[c]
    BY <1>2
  <2> HIDE DEF G
  <2>3. Books(undo[p], redo[p], G, world')
    BY <1>1, <2>1, <2>2, BooksElsewhere DEF Grew
  <2> QED
    BY <1>1, <2>3 DEF G
<1>4. Ledger'
  BY <1>1, <1>2, <1>3 DEF Ledger
<1>5. ASSUME NEW p \in Players, h'[p].at = "commit" PROVE h'[p] = h[p]
  <2>1. p \in SignThreads /\ NextEdits
    BY Threads DEF Elsewhere
  <2>2. CASE UNCHANGED h
    BY <2>2
  <2>3. ASSUME NEW t \in SignThreads, NEW s, Goes(t, s), s.at # "commit" PROVE h'[p] = h[p]
    <3>1. h'[p] = IF p = t THEN s ELSE h[p]
      BY <2>1, <2>3 DEF Goes, Handlers
    <3> QED
      BY <1>5, <2>3, <3>1
  <2> QED
    BY <2>1, <2>2, <2>3, EditsGo
<1>6. Promised'
  BY <1>1, <1>5 DEF Promised
<1> QED
  BY <1>4, <1>6

-----------------------------------------------------------------------------
(* All of it, and what follows from it. *)

Inv ==
    /\ world \in [Cells -> Content]
    /\ SignInv /\ Covered(Waiting) /\ Handlers /\ Guards /\ Ledger /\ Promised

LEMMA InitInv == Init => Inv
<1> SUFFICES ASSUME Init PROVE Inv
  OBVIOUS
<1>1. world \in [Cells -> Content]
  BY EditsAssumption DEF Init, InitEdits
<1>2. SignInv
  <2>1. LoadSigns(Hung) /\ IsFiniteSet(Hung) /\ Cardinality(Hung) <= MaxSigns
    BY EditsAssumption DEF Init, InitEdits
  <2> QED
    BY <2>1, LoadedSigns
<1>3. Covered(Waiting)
  BY DEF Init, InitEdits, Waiting, Covered
<1>4. Handlers
  BY DEF Init, InitEdits, Handlers, Sound
<1>5. Guards
  BY DEF Init, InitEdits, Guards, LoadSigns
<1>6. \A p \in Players : undo[p] = <<>> /\ redo[p] = <<>> /\ clip[p] = {}
  BY DEF Init
<1>7. Ledger
  BY <1>1, <1>6, NoBooks DEF Init, Ledger
<1>8. Promised
  BY Threads DEF Init, InitEdits, Idle, Promised
<1> QED
  BY <1>1, <1>2, <1>3, <1>4, <1>5, <1>7, <1>8 DEF Inv

\* A step that only a player's own command book or clipboard sees.
LEMMA StandsStill ==
    ASSUME SignInv, Covered(Waiting), Guards, world \in [Cells -> Content],
           UNCHANGED <<world, zones, revert, kept, signVars>>
    PROVE  world' \in [Cells -> Content] /\ SignInv' /\ Covered(Waiting)' /\ Guards'
<1>1. SignInv'
  BY SignsNext
<1>2. Covered(Waiting)'
  BY DEF revert, Waiting, Covered
<1>3. Guards'
  BY DEF Guards, Holds, signVars
<1> QED
  BY <1>1, <1>2, <1>3

LEMMA NextInv == Inv /\ [Next]_allVars => Inv'
<1> SUFFICES ASSUME Inv, [Next]_allVars PROVE Inv'
  OBVIOUS
<1>0. /\ world \in [Cells -> Content]
      /\ SignInv /\ Covered(Waiting) /\ Handlers /\ Guards /\ Ledger /\ Promised
  BY DEF Inv
<1>1. CASE Elsewhere
  <2>1. NextEdits /\ Core \in zones
    BY <1>0, <1>1 DEF Elsewhere, Guards
  <2>2. Grew /\ SignInv' /\ Covered(Waiting)' /\ Handlers' /\ Guards'
    BY <1>0, <2>1, EditsGrew, EditsSigns, EditsCover, EditsSound, EditsGuard
  <2>3. Ledger' /\ Promised'
    BY <1>0, <1>1, ElsewhereKeeps
  <2> QED
    BY <2>2, <2>3 DEF Inv, Grew
<1>2. ASSUME NEW p \in Players, Commit(p) PROVE Inv'
  <2>1. Grew /\ Handlers' /\ Guards' /\ Ledger' /\ Promised'
    BY <1>0, <1>2, CommitKeeps
  <2>2. PICK want, free, batch : h[p].cmd \in Commands[p] /\ CommitBy(p, h[p].cmd, want, free, batch)
    BY <1>0, <1>2, CommitIs
  <2> DEFINE aired == {c \in batch : want[c][1] = Air}
  <2>3. removeSigns(aired, p) /\ UNCHANGED revert
    BY <2>2 DEF CommitBy
  <2> HIDE DEF aired
  <2>4. SignInv'
    BY <1>0, <2>3, RemoveStep
  <2>5. Covered(Waiting)'
    BY <1>0, <2>3 DEF revert, Waiting, Covered
  <2> QED
    BY <2>1, <2>4, <2>5 DEF Inv, Grew
<1>3. ASSUME NEW p \in Players, NEW cmd \in Commands[p], Command(p, cmd) PROVE Inv'
  <2>1. Handlers' /\ Promised'
    BY <1>0, <1>3, CommandKeeps
  <2>2. UNCHANGED <<world, zones, revert, kept, signVars>> /\ UNCHANGED session
    BY <1>3 DEF Command
  <2>3. Ledger'
    BY <1>0, <2>2 DEF session, Ledger
  <2> QED
    BY <1>0, <2>1, <2>2, <2>3, StandsStill DEF Inv
<1>4. ASSUME NEW p \in Players, NEW cmd \in Commands[p], Copy(p, cmd) \/ Rotate(p, cmd) PROVE Inv'
  <2>1. Ledger'
    BY <1>0, <1>4, ClipKeeps
  <2>2. UNCHANGED <<world, zones, revert, kept, signVars>> /\ UNCHANGED <<h, undo, redo>>
    BY <1>4 DEF Copy, Rotate
  <2>3. Handlers' /\ Promised'
    BY <1>0, <2>2, UnchangedKeeps DEF Promised
  <2> QED
    BY <1>0, <2>1, <2>2, <2>3, StandsStill DEF Inv
<1>5. CASE UNCHANGED allVars
  <2>1. UNCHANGED <<world, zones, revert, kept, signVars>> /\ UNCHANGED <<h, clip, undo, redo, foreign>>
    BY <1>5 DEF allVars, vars, session
  <2>2. Handlers' /\ Promised' /\ Ledger'
    BY <1>0, <2>1, UnchangedKeeps DEF Promised, Ledger
  <2> QED
    BY <1>0, <2>1, <2>2, StandsStill DEF Inv
<1> QED
  BY <1>1, <1>2, <1>3, <1>4, <1>5 DEF Next

LEMMA Invariance == Spec => []Inv
BY InitInv, NextInv, PTL DEF Spec

-----------------------------------------------------------------------------
\* The world holds blocks and colours, a handler is at one of its steps, and the cells
\* marked as waiting for a restore are those of the jobs (WorldModel, RevertQueue).
THEOREM TypesAreKept == Spec => []TypeOK
<1>1. ASSUME Inv PROVE TypeOK
  <2>1. ASSUME NEW t \in SignThreads
        PROVE  h[t].at \in {"idle", "verdict", "check", "sim", "drain", "log", "relay", "sign", "commit"}
    <3>1. Sound(t, h[t])
      BY <1>1 DEF Inv, Handlers
    <3> QED
      BY <3>1 DEF Sound, Idle, SoundSim, SoundRelay, SoundSign, SoundCommit
  <2>2. world \in [Cells -> Content]
    BY <1>1 DEF Inv
  <2>3. pending = UNION {{<<j.target, c>> : c \in j.cells} : j \in jobs}
    BY <1>1 DEF Inv, Covered, Waiting, Keys
  <2> QED
    BY <2>1, <2>2, <2>3 DEF TypeOK
<1> QED
  BY <1>1, Invariance, PTL

\* Whatever the zones around it, the players, the worlds and the commands: nothing a
\* player who may not edit there does changes a cell or a sign of a zone that stands,
\* between the look at the zones and the write, by a blast or a fill that starts outside,
\* or by an undo (zoneDenies, SvExplodeWorld, weCommit).
THEOREM ProtectedStays == Spec => []ProtectedIntact
<1>1. Inv => ProtectedIntact
  BY DEF Inv, Guards, ProtectedIntact
<1> QED
  BY <1>1, Invariance, PTL

\* Whatever is damaged, by whom and for whom, a cell damaged since its last restore left
\* the queue is in a job that waits (RevertQueue::push, popDue).
THEOREM RestoresWait == Spec => []RestoresCovered
<1>1. Inv => RestoresCovered
  BY DEF Inv, Covered, Waiting, Keys, RestoresCovered
<1> QED
  BY <1>1, Invariance, PTL

\* In any world and with any budget, a burn stays in the box its zones were looked up in,
\* writes nothing they hold, and its blasts and its reads are paid for (explode.h BurnRun).
THEOREM BurnsAreBounded == Spec => []BurnBounded
<1>1. ASSUME Inv PROVE BurnBounded
  <2>1. ASSUME NEW p \in Players, h[p].at = "relay" PROVE Bounded(h[p], h[p].act.at, h[p].held, MaxVisits)
    BY <1>1, <2>1, HandlerIs, Threads DEF Inv, SoundRelay
  <2>2. ASSUME NEW w \in Samples \cup {world}, NEW root \in Cells, NEW max \in Budgets, NEW held
        PROVE  Bounded(simBurn(w, root, max, held, FALSE), root, held, max)
    <3>1. w \in [Cells -> Content] /\ max \in Nat
      BY <1>1, WorldEditAssumption DEF Inv
    <3> QED
      BY <3>1, BurnIs DEF Orderly
  <2> QED
    BY <2>1, <2>2 DEF BurnBounded
<1> QED
  BY <1>1, Invariance, PTL

\* However edits, undos, redos and trims of the budget follow one another: where nobody
\* else has written, the next batch to undo is what the world holds, and the next to redo
\* is what it would replace (UndoStore::record, take_undo, take_redo, trim).
THEOREM UndoAgrees == Spec => []UndoTopMatches
<1>1. ASSUME Inv PROVE UndoTopMatches
  <2> SUFFICES ASSUME NEW p \in Players
               PROVE  /\ undo[p] # <<>> =>
                            \A e \in Last(undo[p]) : e.at \in foreign[p] \/ weRead(world, e.at) = e.new
                      /\ redo[p] # <<>> =>
                            \A e \in Last(redo[p]) : e.at \in foreign[p] \/ weRead(world, e.at) = e.old
    BY DEF UndoTopMatches
  <2> DEFINE v == View(world)
             F == foreign[p]
  <2>1. /\ undo[p] \in Seq(Batches) /\ redo[p] \in Seq(Batches)
        /\ Told(undo[p], F, v) /\ Told(Inverted(redo[p]), F, v)
    BY <1>1 DEF Inv, Ledger, Books
  <2>2. \A c \in Cells : v[c] = weRead(world, c)
    BY DEF View
  <2> HIDE DEF v, F
  <2>3. ASSUME undo[p] # <<>>, NEW e \in Last(undo[p]), e.at \notin F PROVE weRead(world, e.at) = e.new
    <3>1. PICK y \in Views : Moves(y, Last(undo[p]), v, F)
      BY <2>1, <2>3, ToldFront
    <3>2. e.at \in Cells
      <4>1. Last(undo[p]) \in Batches
        BY <2>1, <2>3, FrontIs
      <4> QED
        BY <4>1, <2>3 DEF Batches
    <3> QED
      BY <2>2, <2>3, <3>1, <3>2 DEF Moves
  <2>4. ASSUME redo[p] # <<>>, NEW e \in Last(redo[p]), e.at \notin F PROVE weRead(world, e.at) = e.old
    <3>1. Inverted(redo[p]) \in Seq(Batches) /\ Inverted(redo[p]) # <<>>
          /\ Last(Inverted(redo[p])) = we_invert(Last(redo[p]))
      BY <2>1, <2>4, InvertedIs, InvertedFront
    <3>2. PICK y \in Views : Moves(y, we_invert(Last(redo[p])), v, F)
      BY <2>1, <3>1, ToldFront
    <3>3. e.at \in Cells
      <4>1. Last(redo[p]) \in Batches
        BY <2>1, <2>4, FrontIs
      <4> QED
        BY <4>1, <2>4 DEF Batches
    <3> DEFINE back == [at |-> e.at, old |-> e.new, new |-> e.old]
    <3>4. back \in we_invert(Last(redo[p]))
      BY <2>4 DEF we_invert
    <3> QED
      BY <2>2, <2>4, <3>2, <3>3, <3>4 DEF Moves
  <2> QED
    BY <2>3, <2>4 DEF F
<1> QED
  BY <1>1, Invariance, PTL

\* The signs go with the edits: the index and the burst still follow the list when signs are
\* taken off by blasts, fills and undos while others drain and save (removeSignsOnBlock,
\* drainSignRemovals, saveSigns).
THEOREM SignsStayCoherent == Spec => []SignsCoherent
<1>1. Inv => SignsCoherent
  BY DEF Inv, SignInv, Listed, SignsCoherent
<1> QED
  BY <1>1, Invariance, PTL

\* And every sign they take still has its audit line, in one place.
THEOREM RemovalsStayLogged == Spec => []RemovalsLogged
<1>1. Inv => RemovalsLogged
  BY DEF Inv, SignInv
<1> QED
  BY <1>1, Invariance, PTL
=============================================================================
