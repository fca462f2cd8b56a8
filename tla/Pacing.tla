------------------------------- MODULE Pacing -------------------------------
(***************************************************************************)
(* What one connection may make the server do, and how fast: the gap and   *)
(* the session cap of a burst (BurstLimiter), and the token buckets that    *)
(* charge a REGION reply by its records and an edit or a burn by its        *)
(* blasts.                                                                  *)
(*                                                                         *)
(* A bucket is refilled when it is next looked at.  Instead of the clock it *)
(* keeps how long ago that was, which past a full refill makes no           *)
(* difference; a bucket with no capacity or no rate is off.  The two buckets *)
(* of a connection have nothing in common but its thread: a behaviour        *)
(* follows one of them.                                                      *)
(***************************************************************************)
EXTENDS Integers

CONSTANTS
    Burst,       \* TokenBucket::capacity, in tokens
    Rate,        \* refill_per_sec: tokens a tick
    BurnCost,    \* SV_ACTION_COST_BURN, which a burn pays before it runs
    Records,     \* what the boxes a client asks for may hold
    Blasts,      \* what the burns of a client may set off
    MinGap,      \* SV_REGION_MIN_GAP_MS, in ticks
    SessionCap,  \* SV_MAX_REGIONS_PER_SESSION
    LongRest,    \* the ticks that refill two bursts
    Meter        \* bound of the model: ticks a meter runs

\* What the theorems assume of them.
PacingAssumption ==
    /\ Burst \in Nat \ {0} /\ Rate \in Nat \ {0} /\ BurnCost \in Nat \ {0}
    /\ LongRest \in Nat /\ LongRest * Rate >= 2 * Burst /\ (LongRest - 1) * Rate < 2 * Burst
    /\ Records \subseteq Nat /\ Blasts \subseteq Nat
    /\ MinGap \in Nat /\ SessionCap \in Nat /\ Meter \in Nat

VARIABLES
    use,      \* the bucket this behaviour follows: "region" or "edits"
    tokens,   \* TokenBucket::tokens
    ago,      \* ticks since TokenBucket::last, no more than a full refill takes
    gap,      \* ticks since BurstLimiter::last, no more than MinGap; MinGap with none yet
    served,   \* BurstLimiter::served
    scanned,  \* records of the reply that is being made, -1 for none
    spent,    \* history: what was admitted since the meter started
    ticks,    \* history: for how long it has run
    rest      \* history: ticks since a charge, no more than two bursts' refill

bucket == <<tokens, ago>>
limiter == <<gap, served>>
meter == <<spent, ticks>>
vars == <<use, bucket, limiter, scanned, meter, rest>>

Lesser(a, b) == IF a < b THEN a ELSE b
Init ==
    /\ use \in {"region", "edits"}
    /\ tokens = Burst /\ ago = 0
    /\ gap = MinGap /\ served = 0
    /\ scanned = -1
    /\ spent = 0 /\ ticks = 0
    /\ rest = LongRest

-----------------------------------------------------------------------------
(* TokenBucket. *)

refill(t, a) == Lesser(Burst, t + a * Rate)

allows(t, a, cost) == refill(t, a) >= cost

charge(t, cost) == IF t - cost < -Burst THEN -Burst ELSE t - cost

\* region_budget_admit: what must be there before, and what is charged in the end.
UpFront(records) == Lesser(records, Burst)

Pay(first, all) ==
    /\ tokens' = charge(refill(tokens, ago) - first, all - first)
    /\ ago' = 0
    /\ rest' = 0

Refuse ==
    /\ tokens' = refill(tokens, ago) /\ ago' = 0
    /\ UNCHANGED <<spent, rest>>

-----------------------------------------------------------------------------
(* A REGION, from the pacing to the budget, with the scan between. *)

Take ==
    /\ use = "region" /\ scanned = -1
    /\ gap >= MinGap /\ served < SessionCap
    /\ gap' = 0 /\ served' = served + 1
    /\ scanned' \in Records
    /\ UNCHANGED <<use, bucket, meter, rest>>

Reply ==
    LET first == UpFront(scanned) IN
    /\ scanned >= 0
    /\ IF scanned = 0 THEN UNCHANGED <<bucket, spent, rest>>
       ELSE IF ~allows(tokens, ago, first) THEN Refuse
       ELSE /\ Pay(first, scanned)
            /\ spent' = spent + Lesser(scanned, 2 * Burst)
    /\ scanned' = -1
    /\ UNCHANGED <<use, limiter, ticks>>

\* An ACTION: an edit costs one token, a burn BurnCost, and what it set off beyond that is
\* charged afterwards, whether it ran or a switch forbade it after the dry run.
Edit ==
    /\ use = "edits"
    /\ IF ~allows(tokens, ago, 1) THEN Refuse
       ELSE Pay(1, 1) /\ spent' = spent + 1
    /\ UNCHANGED <<use, limiter, scanned, ticks>>

Burn(n) ==
    /\ use = "edits"
    /\ IF ~allows(tokens, ago, BurnCost) THEN Refuse
       ELSE /\ Pay(BurnCost, IF n > BurnCost THEN n ELSE BurnCost)
            /\ spent' = spent + (IF n > BurnCost THEN Lesser(n, Burst + BurnCost) ELSE BurnCost)
    /\ UNCHANGED <<use, limiter, scanned, ticks>>

-----------------------------------------------------------------------------
\* monoSeconds.  A meter that has run for Meter ticks starts again.
Tick ==
    /\ ago' = Lesser(ago + 1, LongRest)
    /\ gap' = Lesser(gap + 1, MinGap)
    /\ rest' = Lesser(rest + 1, LongRest)
    /\ IF ticks < Meter THEN ticks' = ticks + 1 /\ UNCHANGED spent
                        ELSE ticks' = 0 /\ spent' = 0
    /\ UNCHANGED <<use, tokens, served, scanned>>

\* A meter may be started at any moment.
StartMeter ==
    /\ spent' = 0 /\ ticks' = 0
    /\ UNCHANGED <<use, bucket, limiter, scanned, rest>>

Next == Take \/ Reply \/ Edit \/ (\E n \in Blasts : Burn(n)) \/ Tick \/ StartMeter

Spec == Init /\ [][Next]_vars

-----------------------------------------------------------------------------
(* Properties. *)

\* The type of every variable: a debt is at most one burst, a credit too.
TypeOK ==
    /\ use \in {"region", "edits"}
    /\ tokens \in -Burst..Burst /\ ago \in 0..LongRest
    /\ gap \in 0..MinGap /\ served \in 0..SessionCap
    /\ scanned \in Records \cup {-1}
    /\ spent \in Nat /\ ticks \in 0..Meter /\ rest \in 0..LongRest

\* Over any stretch of time a client gets the server to do no more than two bursts and what
\* the rate gives for its length: the records it is sent, or the blasts it sets off, the
\* part of one request past what a bucket can be charged left out.
BudgetHolds == spent <= 2 * Burst + Rate * ticks

\* "A single charge can never lock a client out for longer than two bursts' refill time"
\* (TokenBucket::charge), nor is a box that no burst could cover refused forever
\* (region_budget_admit): after such a rest whatever is asked for next is admitted.
NeverLockedOut ==
    rest = LongRest =>
        /\ \A r \in Records : allows(tokens, ago, UpFront(r))
        /\ BurnCost <= Burst => allows(tokens, ago, BurnCost)

=============================================================================
