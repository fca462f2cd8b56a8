---------------------------- MODULE PacingProofs ----------------------------
(***************************************************************************)
(* What a token bucket bounds, for every capacity, rate and cost.          *)
(***************************************************************************)
EXTENDS Pacing, TLAPS

\* What the bucket holds when it is next looked at.
Level == refill(tokens, ago)

\* What was admitted since the meter started is paid for: with what is left it is no more
\* than the bucket held then and the refill since.  And since the last charge the bucket has
\* recovered from, at worst, a whole burst of debt.
Paid == spent + Level <= Burst + Rate * ticks
Recovered == Level >= Lesser(Burst, rest * Rate - Burst)

PacingInv == TypeOK /\ Paid /\ Recovered

USE DEF PacingAssumption

\* Linear facts, stated apart from the products they are used on.
LEMMA Spending ==
    \A s, l, m, n, c \in Int : s + l <= c /\ n <= l - m => (s + n) + m <= c
OBVIOUS
LEMMA Gaining ==
    \A s, l, m, r, b, c \in Int : s + l <= c + b /\ m <= l + r => s + m <= c + (b + r)
OBVIOUS

LEMMA Products == \A a, b \in Nat : a * b \in Nat
OBVIOUS

LEMMA LevelBounds ==
    ASSUME PacingAssumption, TypeOK
    PROVE  Level \in -Burst..Burst /\ Level >= tokens
<1>1. ago * Rate \in Nat
  BY DEF TypeOK
<1> QED BY <1>1 DEF TypeOK, Level, refill, Lesser

LEMMA InitPacing ==
    ASSUME PacingAssumption
    PROVE  Init => PacingInv
<1> SUFFICES ASSUME Init PROVE PacingInv
  OBVIOUS
<1>1. TypeOK
  BY DEF Init, TypeOK
<1>2. Level = Burst
  BY DEF Init, Level, refill, Lesser
<1>3. LongRest * Rate - Burst >= Burst
  OBVIOUS
<1>4. Paid
  BY <1>2 DEF Init, Paid
<1>5. Recovered
  BY <1>2, <1>3 DEF Init, Recovered, Lesser
<1> QED BY <1>1, <1>4, <1>5 DEF PacingInv

\* A charge of all tokens, of which first were there, takes at least as much as it admits.
LEMMA PayKeeps ==
    ASSUME PacingAssumption, PacingInv, NEW first \in Nat, NEW all \in Nat, first <= all,
           allows(tokens, ago, first), Pay(first, all),
           NEW n \in Nat, n <= all, n <= first + Burst \/ (first = Burst /\ n <= 2 * Burst),
           spent' = spent + n, ticks' = ticks
    PROVE  /\ tokens' \in -Burst..Burst /\ ago' \in 0..LongRest /\ rest' \in 0..LongRest
           /\ spent' \in Nat /\ Paid' /\ Recovered'
<1>1. Level \in -Burst..Burst /\ Level >= first
  BY LevelBounds DEF PacingInv, allows, Level
<1>2. tokens' = charge(Level - first, all - first) /\ ago' = 0 /\ rest' = 0
  BY DEF Pay, Level
<1>3. tokens' = IF Level - all < -Burst THEN -Burst ELSE Level - all
  BY <1>1, <1>2 DEF charge
<1>4. tokens' \in -Burst..Burst /\ Level' = tokens'
  BY <1>1, <1>2, <1>3 DEF Level, refill, Lesser
<1>5. spent' \in Nat
  BY DEF PacingInv, TypeOK
<1>6. n <= Level - tokens'
  BY <1>1, <1>3
<1>7. Rate * ticks \in Nat
  BY DEF PacingInv, TypeOK
<1>8. Paid'
  <2>1. spent + Level <= Burst + Rate * ticks
    BY DEF PacingInv, Paid
  <2>2. /\ spent \in Int /\ Level \in Int /\ tokens' \in Int /\ n \in Int
        /\ Burst + Rate * ticks \in Int
    BY <1>1, <1>4, <1>7 DEF PacingInv, TypeOK
  <2>3. (spent + n) + tokens' <= Burst + Rate * ticks
    BY <1>6, <2>1, <2>2, Spending
  <2> QED BY <1>4, <2>3 DEF Paid
<1>9. Recovered'
  BY <1>2, <1>4 DEF Recovered, Lesser
<1> QED BY <1>2, <1>4, <1>5, <1>8, <1>9

LEMMA RefuseKeeps ==
    ASSUME PacingAssumption, PacingInv, Refuse, ticks' = ticks
    PROVE  /\ tokens' \in -Burst..Burst /\ ago' \in 0..LongRest /\ rest' \in 0..LongRest
           /\ spent' \in Nat /\ Paid' /\ Recovered'
<1>1. Level \in -Burst..Burst
  BY LevelBounds DEF PacingInv
<1>2. tokens' = Level /\ ago' = 0 /\ spent' = spent /\ rest' = rest
  BY DEF Refuse, Level
<1>3. Level' = Level
  BY <1>1, <1>2 DEF Level, refill, Lesser
<1> QED BY <1>1, <1>2, <1>3 DEF PacingInv, TypeOK, Paid, Recovered

LEMMA ReplyKeeps == ASSUME PacingAssumption, PacingInv, Reply PROVE PacingInv'
<1> DEFINE first == UpFront(scanned)
<1>1. scanned \in Nat
  BY DEF Reply, PacingInv, TypeOK
<1>2. first \in Nat /\ first <= scanned /\ first <= Burst /\ (first = scanned \/ first = Burst)
  BY <1>1 DEF UpFront, Lesser
<1>3. /\ use' = use /\ gap' = gap /\ served' = served /\ ticks' = ticks /\ scanned' = -1
  BY DEF Reply, limiter
<1>4. CASE scanned = 0
  BY <1>3, <1>4 DEF Reply, bucket, PacingInv, TypeOK, Paid, Recovered, Level
<1>5. CASE scanned # 0 /\ ~allows(tokens, ago, first)
  <2>1. Refuse
    BY <1>5 DEF Reply
  <2> QED BY <1>3, <2>1, RefuseKeeps DEF PacingInv, TypeOK
<1>6. CASE scanned # 0 /\ allows(tokens, ago, first)
  <2>1. Pay(first, scanned) /\ spent' = spent + Lesser(scanned, 2 * Burst)
    BY <1>6 DEF Reply
  <2>2. /\ Lesser(scanned, 2 * Burst) \in Nat /\ Lesser(scanned, 2 * Burst) <= scanned
        /\ \/ Lesser(scanned, 2 * Burst) <= first + Burst
           \/ first = Burst /\ Lesser(scanned, 2 * Burst) <= 2 * Burst
    BY <1>1, <1>2 DEF Lesser
  <2> HIDE DEF first
  <2>3. /\ tokens' \in -Burst..Burst /\ ago' \in 0..LongRest /\ rest' \in 0..LongRest
        /\ spent' \in Nat /\ Paid' /\ Recovered'
    BY <1>1, <1>2, <1>3, <1>6, <2>1, <2>2, PayKeeps
  <2> QED BY <1>3, <2>3 DEF PacingInv, TypeOK
<1> QED BY <1>4, <1>5, <1>6

LEMMA EditKeeps == ASSUME PacingAssumption, PacingInv, Edit PROVE PacingInv'
<1>1. use' = use /\ gap' = gap /\ served' = served /\ ticks' = ticks /\ scanned' = scanned
  BY DEF Edit, limiter
<1>2. CASE ~allows(tokens, ago, 1)
  BY <1>1, <1>2, RefuseKeeps DEF Edit, PacingInv, TypeOK
<1>3. CASE allows(tokens, ago, 1)
  <2>1. Pay(1, 1) /\ spent' = spent + 1
    BY <1>3 DEF Edit
  <2>2. /\ tokens' \in -Burst..Burst /\ ago' \in 0..LongRest /\ rest' \in 0..LongRest
        /\ spent' \in Nat /\ Paid' /\ Recovered'
    BY <1>1, <1>3, <2>1, PayKeeps
  <2> QED BY <1>1, <2>2 DEF PacingInv, TypeOK
<1> QED BY <1>2, <1>3

LEMMA BurnKeeps == ASSUME PacingAssumption, PacingInv, NEW n \in Blasts, Burn(n) PROVE PacingInv'
<1> DEFINE all == IF n > BurnCost THEN n ELSE BurnCost
           meant == IF n > BurnCost THEN Lesser(n, Burst + BurnCost) ELSE BurnCost
<1>1. use' = use /\ gap' = gap /\ served' = served /\ ticks' = ticks /\ scanned' = scanned
  BY DEF Burn, limiter
<1>2. CASE ~allows(tokens, ago, BurnCost)
  BY <1>1, <1>2, RefuseKeeps DEF Burn, PacingInv, TypeOK
<1>3. CASE allows(tokens, ago, BurnCost)
  <2>1. Pay(BurnCost, all) /\ spent' = spent + meant
    BY <1>3 DEF Burn
  <2>2. /\ all \in Nat /\ BurnCost <= all /\ meant \in Nat /\ meant <= all
        /\ meant <= BurnCost + Burst
    BY DEF Lesser
  <2> HIDE DEF all, meant
  <2>3. /\ tokens' \in -Burst..Burst /\ ago' \in 0..LongRest /\ rest' \in 0..LongRest
        /\ spent' \in Nat /\ Paid' /\ Recovered'
    BY <1>1, <1>3, <2>1, <2>2, PayKeeps
  <2> QED BY <1>1, <2>3 DEF PacingInv, TypeOK
<1> QED BY <1>2, <1>3

\* A tick adds no more than the rate, and as much as that until the bucket is full.
LEMMA TickKeeps == ASSUME PacingAssumption, PacingInv, Tick PROVE PacingInv'
<1>1. TypeOK'
  BY DEF PacingInv, TypeOK, Tick, Lesser
<1>2. Level \in -Burst..Burst /\ Level' \in -Burst..Burst
  <2>1. ago' * Rate \in Nat
    <3>1. ago' \in Nat
      BY <1>1 DEF TypeOK
    <3> QED BY <3>1, Products
  <2>2. tokens' \in -Burst..Burst
    BY <1>1 DEF TypeOK
  <2>3. Level' = Lesser(Burst, tokens' + ago' * Rate)
    BY DEF Level, refill
  <2>4. Level' \in -Burst..Burst
    BY <2>1, <2>2, <2>3 DEF Lesser
  <2> QED BY <2>4, LevelBounds DEF PacingInv
<1>3. tokens' = tokens /\ ago' = Lesser(ago + 1, LongRest) /\ rest' = Lesser(rest + 1, LongRest)
  BY DEF Tick
<1>4. (ago + 1) * Rate = ago * Rate + Rate /\ (rest + 1) * Rate = rest * Rate + Rate
  BY DEF PacingInv, TypeOK
<1>5. ago * Rate \in Nat /\ rest * Rate \in Nat /\ LongRest * Rate \in Nat
  BY DEF PacingInv, TypeOK
<1>6. Level' <= Level + Rate /\ (Level' = Burst \/ Level' = Level + Rate)
  <2>1. CASE ago + 1 <= LongRest
    <3>1. ago' = ago + 1
      BY <1>3, <2>1 DEF Lesser, PacingInv, TypeOK
    <3> QED BY <1>3, <1>4, <1>5, <3>1 DEF Level, refill, Lesser, PacingInv, TypeOK
  <2>2. CASE ago + 1 > LongRest
    <3>1. ago' = LongRest /\ ago = LongRest
      BY <1>3, <2>2 DEF Lesser, PacingInv, TypeOK
    <3>2. tokens + LongRest * Rate >= Burst
      BY <1>5 DEF PacingInv, TypeOK
    <3> QED BY <1>3, <1>5, <3>1, <3>2 DEF Level, refill, Lesser, PacingInv, TypeOK
  <2> QED BY <2>1, <2>2 DEF PacingInv, TypeOK
<1>7. Paid'
  <2>1. CASE ticks < Meter
    <3>1. ticks' = ticks + 1 /\ spent' = spent /\ Rate * (ticks + 1) = Rate * ticks + Rate
      BY <2>1 DEF Tick, PacingInv, TypeOK
    <3>2. Rate * ticks \in Nat
      BY DEF PacingInv, TypeOK
    <3>3. /\ spent \in Int /\ Level \in Int /\ Level' \in Int /\ Rate \in Int
          /\ Rate * ticks \in Int /\ Burst \in Int
      BY <1>2, <3>2 DEF PacingInv, TypeOK
    <3>4. spent + Level' <= Burst + (Rate * ticks + Rate)
      BY <1>6, <3>3, Gaining DEF PacingInv, Paid
    <3> QED BY <3>1, <3>4 DEF Paid
  <2>2. CASE ~(ticks < Meter)
    <3>1. ticks' = 0 /\ spent' = 0
      BY <2>2 DEF Tick
    <3>2. Burst + Rate * ticks' = Burst
      BY <3>1
    <3>3. spent' + Level' <= Burst
      <4>1. \A m \in -Burst..Burst : 0 + m <= Burst
        OBVIOUS
      <4> QED BY <1>2, <3>1, <4>1
    <3> QED BY <3>2, <3>3 DEF Paid
  <2> QED BY <2>1, <2>2
<1>8. Recovered'
  <2>1. CASE rest + 1 <= LongRest
    <3>1. rest' = rest + 1
      BY <1>3, <2>1 DEF Lesser, PacingInv, TypeOK
    <3> QED BY <1>2, <1>4, <1>5, <1>6, <3>1 DEF PacingInv, Recovered, Lesser
  <2>2. CASE rest + 1 > LongRest
    <3>1. rest' = LongRest /\ rest = LongRest
      BY <1>3, <2>2 DEF Lesser, PacingInv, TypeOK
    <3> QED BY <1>2, <1>5, <1>6, <3>1 DEF PacingInv, Recovered, Lesser
  <2> QED BY <2>1, <2>2 DEF PacingInv, TypeOK
<1> QED BY <1>1, <1>7, <1>8 DEF PacingInv

LEMMA PacingInvariant ==
    ASSUME PacingAssumption
    PROVE  Spec => []PacingInv
<1>1. PacingInv /\ [Next]_vars => PacingInv'
  <2> SUFFICES ASSUME PacingInv, [Next]_vars PROVE PacingInv'
    OBVIOUS
  <2>1. CASE Take
    BY <2>1 DEF Take, bucket, meter, PacingInv, TypeOK, Paid, Recovered, Level
  <2>2. CASE StartMeter
    <3>1. Level \in -Burst..Burst
      BY LevelBounds DEF PacingInv
    <3> QED BY <2>2, <3>1 DEF StartMeter, bucket, limiter, PacingInv, TypeOK, Paid, Recovered, Level
  <2>3. CASE UNCHANGED vars
    BY <2>3 DEF vars, bucket, limiter, meter, PacingInv, TypeOK, Paid, Recovered, Level
  <2> QED BY <2>1, <2>2, <2>3, ReplyKeeps, EditKeeps, BurnKeeps, TickKeeps DEF Next
<1> QED BY InitPacing, <1>1, PTL DEF Spec

\* Credit and debt are at most one burst each.
THEOREM PacingTypes == ASSUME PacingAssumption PROVE Spec => []TypeOK
BY PacingInvariant, PTL DEF PacingInv

\* No stretch of time admits more than two bursts and the rate for its length, whatever a
\* client asks for and when.
THEOREM BudgetIsKept == ASSUME PacingAssumption PROVE Spec => []BudgetHolds
<1>1. PacingInv => BudgetHolds
  <2> SUFFICES ASSUME PacingInv PROVE BudgetHolds
    OBVIOUS
  <2>1. Level >= -Burst /\ Level \in Int /\ Rate * ticks \in Nat
    BY LevelBounds DEF PacingInv, TypeOK
  <2> QED BY <2>1 DEF PacingInv, TypeOK, Paid, BudgetHolds
<1> QED BY PacingInvariant, <1>1, PTL

\* Two bursts' refill after a charge, any reply and any burn a burst could pay for is
\* admitted.
THEOREM NobodyIsLockedOut == ASSUME PacingAssumption PROVE Spec => []NeverLockedOut
<1>1. PacingInv => NeverLockedOut
  <2> SUFFICES ASSUME PacingInv, rest = LongRest
               PROVE  /\ \A r \in Records : allows(tokens, ago, UpFront(r))
                      /\ BurnCost <= Burst => allows(tokens, ago, BurnCost)
    BY DEF NeverLockedOut
  <2>1. LongRest * Rate \in Nat
    OBVIOUS
  <2>2. Level >= Burst /\ Level \in Int
    BY <2>1, LevelBounds DEF PacingInv, Recovered, Lesser
  <2> QED BY <2>2 DEF allows, Level, UpFront, Lesser
<1> QED BY PacingInvariant, <1>1, PTL
=============================================================================
