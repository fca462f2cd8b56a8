------------------------------- MODULE Edits -------------------------------
(***************************************************************************)
(* Edits of the world by several players at once: the ACTION handler of a  *)
(* reader thread (build, mine, burn, paint), the protected zones and the   *)
(* TNT and fire switches that refuse an edit, the restores that put a      *)
(* refusing player's screen back, and the operator, whom no zone stops.    *)
(*                                                                         *)
(* The handler reads the switches, the zones and the world one after the   *)
(* other, each under its own lock, and what it read may have changed by    *)
(* the time it is used; h[p].at says how far player p's handler is.  The   *)
(* world itself is written in one step, under g_worldMtx.                  *)
(*                                                                         *)
(* Rate limits refuse by time, which is left out: a refused edit is one    *)
(* that is not made.  Relays are left out too, and a player does not leave.*)
(***************************************************************************)
EXTENDS Burn, Signs

CONSTANTS
    Players,
    Level,        \* a player's zone-bypass level: an op level, -1 if not logged in
    Actions,      \* ACTIONs a player sends: [mode |-> 0..3, at |-> cell, extra |-> type or colour]
    Worlds,       \* worlds to begin with
    Core,         \* a zone that stands throughout
    OtherZones,   \* zones that come and go
    Fills,        \* setblock and fill: [lo, hi, type, colour]
    Hung,         \* signs to begin with
    Written,      \* signs a player places
    PendingMax,   \* ZONE_REVERT_MAX_PENDING
    MaxRequests,  \* bound of the model: requests of the players
    MaxOrders     \* bound of the model: orders of the operator

ASSUME EditsAssumption ==
    /\ PendingMax \in Nat /\ MaxRequests \in Nat /\ MaxOrders \in Nat
    /\ Level \in [Players -> -1..2]
    /\ \A w \in Worlds : w \in [Cells -> Content]
    /\ Core.enforced /\ {Core.lo, Core.hi} \subseteq Int \X Int \X Int
    /\ \A p \in Players : \A a \in Actions[p] : a.mode \in 0..3 /\ a.at \in Cells /\ a.extra \in 0..255
    /\ \A f \in Fills : f.type \in 0..255 /\ f.colour \in 0..255
    /\ IsFiniteSet(Hung) /\ Cardinality(Hung) <= MaxSigns
    /\ SignThreads = Players \cup {"control", "server"}

VARIABLES
    world,          \* g_world
    zones,          \* g_zones
    tntOn, fireOn,  \* the switches
    h,              \* a player's handler; the control socket's; the thread that saves
    echo,           \* expandEcho: the expansion block a player lit
    jobs, pending,  \* g_revertQ: its heap, and the (target, cell) pairs waiting in it
    requests, orders,
    kept,           \* history: what the core zone's cells should hold, and its signs
    hurt            \* history: (target, cell) pairs damaged since a restore left the queue

revert == <<jobs, pending, hurt>>
budget == <<requests, orders>>
vars == <<world, zones, tntOn, fireOn, h, echo, revert, budget, kept, signVars>>

-----------------------------------------------------------------------------
(* Zones: [name, lo, hi, enforced, level]; NoLevel is bypassed by nobody. *)

NoLevel == 3
BoxOf(lo, hi) == {c \in Cells : \A i \in 1..3 : c[i] \in lo[i]..hi[i]}
bypassedBy(z, level) == level >= z.level
blocking(zs, level, c) ==
    \E z \in zs : z.enforced /\ c \in BoxOf(z.lo, z.hi) /\ ~bypassedBy(z, level)
overlaps(z, lo, hi) == \A i \in 1..3 : z.lo[i] <= hi[i] /\ lo[i] <= z.hi[i]

\* zoneCheckNear: the cells held by a zone that meets the box.
HeldNear(zs, level, lo, hi) ==
    LET near == {z \in zs : z.enforced /\ ~bypassedBy(z, level) /\ overlaps(z, lo, hi)}
    IN {c \in Cells : blocking(near, level, c)}

-----------------------------------------------------------------------------
(* The world under g_worldMtx. *)

\* Apply writes, a function from cells to values; new cells up to the cap.
worldSet(w, f) == [c \in DOMAIN w |-> IF c \in DOMAIN f THEN f[c] ELSE w[c]]
Refused(w, c) == Get(w, c) = Absent /\ Cardinality(Stored(w)) >= Cap

\* What the core zone should hold changes only by one it does not stop.
Guarded == BoxOf(Core.lo, Core.hi)
Holds(w, s) == [cells |-> [c \in Guarded |-> w[c]], signs |-> {q \in s : q.at \in Guarded}]
KeepAll == kept' = Holds(world', signs')
Keep(p) == IF bypassedBy(Core, Level[p]) THEN KeepAll ELSE UNCHANGED kept

-----------------------------------------------------------------------------
(* Restores.  A target is a client and its channel, or everyone. *)

All == <<"everyone", "zone">>
To(p, channel) == <<p, channel>>
Rank(c) == (c[1] * Depth + c[3]) * Height + c[2]
Scan == [i \in 1..Cardinality(Cells) |-> CHOOSE c \in Cells : Rank(c) = i - 1]

\* Mutant of QueueOne: a cell waiting for one target is taken to wait for all.
QueueByCell(q, job) ==
    LET damaged == {<<job.target, c>> : c \in job.cells}
        fresh == {k \in damaged : \A l \in q.pending : l[2] # k[2]}
        queued == [target |-> job.target, cells |-> {k[2] : k \in fresh}]
    IN [jobs |-> IF fresh = {} THEN q.jobs ELSE q.jobs \cup {queued},
        pending |-> q.pending \cup fresh,
        hurt |-> q.hurt \cup damaged]

\* RevertQueue::push of a [target, cells]; what waits already is not
\* queued again, and past the limit a cell is dropped.
QueueOne(q, job) ==
    LET damaged == {<<job.target, c>> : c \in job.cells}
        fresh == {k \in damaged : k \notin q.pending}
        room == PendingMax - Cardinality(q.pending)
        taken == {k \in fresh : Cardinality({l \in fresh : Rank(l[2]) < Rank(k[2])}) < room}
        queued == [target |-> job.target, cells |-> {k[2] : k \in taken}]
    IN [jobs |-> IF taken = {} THEN q.jobs ELSE q.jobs \cup {queued},
        pending |-> q.pending \cup taken,
        hurt |-> (q.hurt \cup damaged) \ (fresh \ taken)]

Waiting == [jobs |-> jobs, pending |-> pending, hurt |-> hurt]
Becomes(q) == jobs' = q.jobs /\ pending' = q.pending /\ hurt' = q.hurt
Queue(job) == Becomes(QueueOne(Waiting, job))

\* Mutant of PopDue: the cells stay marked as waiting.
PopKeepsPending(job) ==
    LET keys == {<<job.target, c>> : c \in job.cells}
    IN jobs' = jobs \ {job} /\ UNCHANGED pending /\ hurt' = hurt \ keys

\* revertThread takes a job that is due; what is damaged after this needs another.
PopDue(job) ==
    LET keys == {<<job.target, c>> : c \in job.cells}
    IN jobs' = jobs \ {job} /\ pending' = pending \ keys /\ hurt' = hurt \ keys

Revert ==
    /\ \E job \in jobs : PopDue(job)
    /\ UNCHANGED <<world, zones, tntOn, fireOn, h, echo, budget, kept, signVars>>

-----------------------------------------------------------------------------
(* The ACTION handler. *)

Idle == [at |-> "idle"]
None == <<>>
Goes(p, step) == h' = [h EXCEPT ![p] = step]
Rest(p) == Goes(p, Idle)

\* A thread goes on to drainSignRemovals if anything waits by now, its own or others'.
Drains(t, next) == Goes(t, IF removals' = {} THEN next ELSE [at |-> "drain", then |-> next])
is_tnt_build(t) == t \in {Tnt, 87}

RunDry(a, pv) ==
    [at |-> "verdict", act |-> a, flammable |-> pv.flammable, touchesTnt |-> pv.touchesTnt,
     late |-> pv.cells, early |-> IF pv.explosive THEN pv.cells ELSE {a.at}]

\* A TNT build with TNT off is put back at once; a burn with a switch off is run dry.
Receive(p, a) ==
    /\ h[p] = Idle /\ requests < MaxRequests
    /\ requests' = requests + 1
    /\ CASE a.mode = 0 /\ ~tntOn /\ is_tnt_build(a.extra) -> UNCHANGED h
         [] a.mode = 2 /\ ~(tntOn /\ fireOn) ->
               Goes(p, RunDry(a, preview_burn(world, a.at, MaxVisits)))
         [] OTHER -> Goes(p, [at |-> "check", act |-> a])
    /\ UNCHANGED <<world, zones, tntOn, fireOn, echo, revert, orders, kept, signVars>>

\* The switches are read again, after the dry run.
Verdict(p) ==
    /\ h[p].at = "verdict"
    /\ \/ /\ Allowed(tntOn, fireOn, h[p])
          /\ Goes(p, [at |-> "check", act |-> h[p].act])
          /\ UNCHANGED revert
       \/ /\ ~Allowed(tntOn, fireOn, h[p])
          /\ Rest(p)
          /\ IF h[p].flammable
             THEN Becomes(QueueOne(QueueOne(Waiting, [target |-> To(p, "early"), cells |-> h[p].early \cap Cells]),
                                   [target |-> To(p, "late"), cells |-> h[p].late \cap Cells]))
             ELSE UNCHANGED revert
    /\ UNCHANGED <<world, zones, tntOn, fireOn, echo, budget, kept, signVars>>

\* The client's own MINE after lighting an expansion block, in time, is no edit.
Echoes(p) == h[p].act.mode = 1 /\ h[p].act.at = echo[p]

Echo(p) ==
    /\ h[p].at = "check" /\ Echoes(p)
    /\ echo' = [echo EXCEPT ![p] = None]
    /\ Rest(p)
    /\ UNCHANGED <<world, zones, tntOn, fireOn, revert, budget, kept, signVars>>

\* What the sender's client did before it asked.
Drew(a) ==
    {a.at} \cup IF a.mode # 2 THEN {}
                ELSE IF Has(world, a.at, {Tnt}) THEN explode_for_each_blast_cell(a.at)
                ELSE IF Has(world, a.at, 81..111) THEN expand_for_each_box_cell(a.at)
                ELSE {}

\* How far from the lit block zones are looked up; the mutant forgets the fills.
ReachOfBlasts == explode_reach
ReachOfBurn == burn_reach

\* Zones: an edit on a held cell is refused; a burn goes on with the zones in reach.
Check(p) ==
    LET a == h[p].act
        reach == ReachOfBurn
        lo == <<a.at[1] - reach, a.at[2] - reach, a.at[3] - reach>>
        hi == <<a.at[1] + reach, a.at[2] + reach, a.at[3] + reach>>
        held == IF a.mode = 2 THEN HeldNear(zones, Level[p], lo, hi) ELSE {}
    IN /\ h[p].at = "check"
       /\ echo' = IF Echoes(p) THEN [echo EXCEPT ![p] = None] ELSE echo
       /\ \/ /\ blocking(zones, Level[p], a.at)
             /\ Queue([target |-> To(p, "zone"), cells |-> Drew(a)])
             /\ Rest(p)
          \/ /\ ~blocking(zones, Level[p], a.at)
             /\ Goes(p, [at |-> "sim", act |-> a, held |-> held])
             /\ UNCHANGED revert
       /\ UNCHANGED <<world, zones, tntOn, fireOn, budget, kept, signVars>>

\* The value an edit other than a burn writes.
Simple(a) ==
    CASE a.mode = 0 -> <<a.extra, 0>>
      [] a.mode = 1 -> <<Air, 0>>
      [] OTHER -> <<IF Get(world, a.at) = Absent THEN PaintedBase ELSE world[a.at][1], a.extra>>

\* simAction, a burn: everything it does under one hold of the lock.
Redrawn(hits) ==
    hits \cup UNION {explode_for_each_blast_cell(c) : c \in {c \in hits : Has(world, c, {Tnt})}}
         \cup UNION {expand_for_each_box_cell(c) : c \in {c \in hits : Has(world, c, 81..111)}}

Burnt(p, a, r) ==
    /\ world' = r.w
    /\ removeSigns(r.aired, p)
    /\ Keep(p)
    /\ echo' = IF r.expansions > 0 /\ r.explosions = 0 THEN [echo EXCEPT ![p] = a.at] ELSE echo
    /\ Drains(p, [at |-> "relay", act |-> a, held |-> h[p].held, redrawn |-> Redrawn(r.hits),
                  written |-> r.written, explosions |-> r.explosions, visits |-> r.visits])
    /\ UNCHANGED <<zones, tntOn, fireOn, revert, budget>>

SimBurn(p) ==
    /\ h[p].at = "sim" /\ h[p].act.mode = 2
    /\ Burnt(p, h[p].act, simBurn(world, h[p].act.at, MaxVisits, h[p].held, FALSE))

\* Everyone runs the blast; the cells it was refused are put back on every screen.
Relay(p) ==
    /\ h[p].at = "relay"
    /\ Rest(p)
    /\ IF h[p].redrawn = {} THEN UNCHANGED revert
       ELSE Queue([target |-> All, cells |-> h[p].redrawn])
    /\ UNCHANGED <<world, zones, tntOn, fireOn, echo, budget, kept, signVars>>

\* simAction, any other edit; one the cap refuses is not made and not relayed.
Sim(p) ==
    LET a == h[p].act
        done == IF Refused(world, a.at) THEN {} ELSE {a.at}
    IN /\ h[p].at = "sim" /\ a.mode # 2
       /\ world' = worldSet(world, [c \in done |-> Simple(a)])
       /\ removeSigns(IF Simple(a)[1] = Air THEN done ELSE {}, p)
       /\ Keep(p)
       /\ Drains(p, Idle)
       /\ UNCHANGED <<zones, tntOn, fireOn, echo, revert, budget>>

-----------------------------------------------------------------------------
(* Signs.  Whoever edited writes the audit lines that wait, its own and others'. *)

DrainSigns(t) ==
    /\ h[t].at = "drain"
    /\ Drain(t)
    /\ Goes(t, IF removals = {} THEN h[t].then ELSE [at |-> "log", then |-> h[t].then])
    /\ UNCHANGED <<world, zones, tntOn, fireOn, echo, revert, budget, kept>>

LogSigns(t) ==
    /\ h[t].at = "log"
    /\ Write_audit(t)
    /\ Goes(t, h[t].then)
    /\ UNCHANGED <<world, zones, tntOn, fireOn, echo, revert, budget, kept>>

\* saveSigns, on any thread: the lines nobody has written yet.
SaveDrains ==
    /\ h["server"] = Idle /\ removals # {}
    /\ Goes("server", [at |-> "drain", then |-> Idle])
    /\ UNCHANGED <<world, zones, tntOn, fireOn, echo, revert, budget, kept, signVars>>

\* SIGNP: refused on a held block, stored a moment later on any other, be it still there
\* or not.
SignSent(p, q) ==
    /\ h[p] = Idle /\ requests < MaxRequests
    /\ requests' = requests + 1
    /\ IF blocking(zones, Level[p], q.at) THEN UNCHANGED h ELSE Goes(p, [at |-> "sign", sign |-> q])
    /\ UNCHANGED <<world, zones, tntOn, fireOn, echo, revert, orders, kept, signVars>>

handleSignWrite(p) ==
    /\ h[p].at = "sign"
    /\ Put(h[p].sign)
    /\ Keep(p)
    /\ Rest(p)
    /\ UNCHANGED <<world, zones, tntOn, fireOn, echo, revert, budget>>

\* SIGNQ
Serve == stale /\ serveSigns /\ UNCHANGED <<world, zones, tntOn, fireOn, h, echo, revert, budget, kept>>

-----------------------------------------------------------------------------
(* The operator. *)

Order ==
    /\ h["control"] = Idle /\ orders < MaxOrders
    /\ orders' = orders + 1
    /\ UNCHANGED <<echo, revert, requests>>
Quiet == UNCHANGED <<h, signVars>>

\* ctlFillBox
Fill(f) ==
    LET box == Only(Scan, BoxOf(f.lo, f.hi))
        done == Accepted(world, box)
    IN /\ Order
       /\ world' = worldSet(world, [c \in done |-> <<f.type, f.colour>>])
       /\ removeSigns(IF f.type = Air THEN done ELSE {}, "control")
       /\ KeepAll
       /\ Drains("control", Idle)
       /\ UNCHANGED <<zones, tntOn, fireOn>>

\* signs add and signs rm save the list when it changed.
SignsAdd(q) ==
    /\ Order /\ Put(q) /\ UNCHANGED world
    /\ KeepAll
    /\ IF signs' = signs THEN UNCHANGED h ELSE Drains("control", Idle)
    /\ UNCHANGED <<zones, tntOn, fireOn>>

SignsRm(c) ==
    /\ Order /\ On(signs, c) # {} /\ PutOff(c) /\ UNCHANGED world
    /\ KeepAll
    /\ Drains("control", Idle)
    /\ UNCHANGED <<zones, tntOn, fireOn>>

TntSwitch(on) == Order /\ Quiet /\ tntOn' = on /\ on # tntOn /\ UNCHANGED <<world, zones, fireOn, kept>>
FireSwitch(on) == Order /\ Quiet /\ fireOn' = on /\ on # fireOn /\ UNCHANGED <<world, zones, tntOn, kept>>

\* zone:add, zone:rm and zone:flags publish a new set; the core zone is left alone.
zonePublish(next) == zones' = next /\ UNCHANGED <<world, tntOn, fireOn, kept, signVars>>
NewZone(z) == \A y \in zones : y.name # z.name
Flipped(z) == (zones \ {z}) \cup {[z EXCEPT !.enforced = ~@]}

ZoneAdd(z) == Order /\ NewZone(z) /\ zonePublish(zones \cup {z}) /\ UNCHANGED h
ZoneRemove(z) == Order /\ z # Core /\ zonePublish(zones \ {z}) /\ UNCHANGED h
ZoneFlags(z) == Order /\ z # Core /\ zonePublish(Flipped(z)) /\ UNCHANGED h

\* /zone create and /zone rm: the same, for an operator who plays and is logged in.
ZoneCommand(p) ==
    /\ h[p] = Idle /\ Level[p] >= 2 /\ requests < MaxRequests
    /\ requests' = requests + 1
    /\ \/ \E z \in OtherZones : NewZone(z) /\ zonePublish(zones \cup {z})
       \/ \E z \in zones \ {Core} : zonePublish(zones \ {z})
    /\ UNCHANGED <<h, echo, revert, orders>>

-----------------------------------------------------------------------------
InitEdits ==
    /\ world \in Worlds /\ zones = {Core}
    /\ tntOn = TRUE /\ fireOn = TRUE
    /\ h = [t \in SignThreads |-> Idle] /\ echo = [p \in Players |-> None]
    /\ jobs = {} /\ pending = {} /\ hurt = {}
    /\ requests = 0 /\ orders = 0
    /\ LoadSigns(Hung)
    /\ kept = Holds(world, Hung)

NextEdits ==
    \/ \E p \in Players :
          \/ \E a \in Actions[p] : Receive(p, a)
          \/ Verdict(p) \/ Echo(p) \/ Check(p) \/ Sim(p) \/ SimBurn(p) \/ Relay(p)
          \/ \E q \in Written[p] : SignSent(p, q)
          \/ handleSignWrite(p) \/ ZoneCommand(p)
    \/ \E t \in SignThreads : DrainSigns(t) \/ LogSigns(t)
    \/ Revert \/ SaveDrains \/ Serve
    \/ \E f \in Fills : Fill(f)
    \/ \E q \in UNION {Written[p] : p \in Players} : SignsAdd(q)
    \/ \E c \in Cells : SignsRm(c)
    \/ \E on \in BOOLEAN : TntSwitch(on) \/ FireSwitch(on)
    \/ \E z \in OtherZones : ZoneAdd(z)
    \/ \E z \in zones : ZoneRemove(z) \/ ZoneFlags(z)
=============================================================================
