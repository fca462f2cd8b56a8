----------------------------- MODULE WorldEdit -----------------------------
(***************************************************************************)
(* The WorldEdit commands (worldedit.h and handleWorldEditLine), on top of *)
(* the players' other edits: every one decides a batch of cells under      *)
(* g_worldMtx, from the zones it looked at before, and remembers what it   *)
(* wrote, so that it can be undone and redone.                             *)
(*                                                                         *)
(* A command is a record: its verb and its arguments, the selection and    *)
(* the feet it is given at.  What a player may run, what a box may hold    *)
(* and what it costs are checked before; a command refused there is one    *)
(* that is not given.                                                      *)
(***************************************************************************)
EXTENDS Edits

CONSTANTS
    Commands,    \* commands a player gives
    Budgets,     \* burn budgets looked at besides --burn-max-cells,
    Samples,     \* and worlds burned under them besides the ones to begin with
    UndoBudget   \* --we-undo-budget, in cells

ASSUME WorldEditAssumption ==
    /\ UndoBudget \in Nat
    /\ \A w \in Samples : w \in [Cells -> Content]
    /\ Budgets \subseteq Nat
    /\ \A p \in Players : \A cmd \in Commands[p] : cmd.type \in 0..255 /\ cmd.colour \in 0..255

VARIABLES
    clip,        \* WeSession::clip: [at |-> offset, type, colour]
    undo, redo,  \* UndoStore: sequences of batches, a batch a set of [at, old, new]
    foreign      \* history: cells others have written, or a zone kept an undo from

session == <<clip, undo, redo, foreign>>
allVars == <<vars, session>>

-----------------------------------------------------------------------------
(* A cell as WorldEdit reads it (weRead, we_edit_changes). *)

weRead(w, c) == IF w[c] = Absent THEN <<baseType(c[2]), 0>> ELSE w[c]

we_edit_changes(w, c, new) ==
    IF w[c] = Absent /\ new[1] = PaintedBase
    THEN baseType(c[2]) # Air /\ new[2] # 0
    ELSE new # weRead(w, c)

\* The cells a shape command takes, about the feet f.  A hollow shape is outside the
\* square of the next radius in: one of radius 0 takes nothing, as (-1)^2 = 1.
we_in_sphere(c, f, r) ==
    LET d(i) == c[i] - f[i] IN d(1) * d(1) + d(2) * d(2) + d(3) * d(3) <= r * r
we_in_disc(c, f, r) == we_in_sphere(<<c[1], f[2], c[3]>>, f, r)

Shape(cmd) ==
    LET f == cmd.feet
        r == cmd.radius
        level(c) == c[2] \in f[2]..f[2] + cmd.height - 1
    IN CASE cmd.verb = "sphere" -> {c \in Cells : we_in_sphere(c, f, r)}
         [] cmd.verb = "hsphere" -> {c \in Cells : we_in_sphere(c, f, r) /\ ~we_in_sphere(c, f, r - 1)}
         [] cmd.verb = "cyl" -> {c \in Cells : level(c) /\ we_in_disc(c, f, r)}
         [] cmd.verb = "hcyl" -> {c \in Cells : level(c) /\ we_in_disc(c, f, r) /\ ~we_in_disc(c, f, r - 1)}

\* we_rotate_clipboard by a quarter turn: offsets about the feet, slopes with them.
Quarter(k) ==
    [k EXCEPT !.at = <<-@[3], @[2], @[1]>>,
              !.type = IF @ \in 24..55 THEN @ - (@ % 4) + ((@ + 1) % 4) ELSE @]

\* we_clip_cell: a painted natural block travels as that block.
Clipped(w, c, f) ==
    [at |-> <<c[1] - f[1], c[2] - f[2], c[3] - f[3]>>,
     type |-> IF w[c][1] = PaintedBase THEN baseType(c[2]) ELSE w[c][1], colour |-> w[c][2]]

-----------------------------------------------------------------------------
(* What a command wants: a function from the cells it takes to their new values. *)

All_to(S, cmd) == [c \in S |-> <<cmd.type, cmd.colour>>]
Made(S, cmd) == {c \in S : Has(world, c, {cmd.from}) /\ cmd.filter \in {-1, world[c][2]}}

SetBox(cmd) ==
    LET onWall(c) == \E i \in {1, 3} : c[i] \in {cmd.lo[i], cmd.hi[i]}
    IN All_to({c \in BoxOf(cmd.lo, cmd.hi) : cmd.verb = "walls" => onWall(c)}, cmd)

\* Paint needs something to paint; a natural block takes it as such.
Paint(cmd) ==
    [c \in {c \in BoxOf(cmd.lo, cmd.hi) : weRead(world, c)[1] # Air} |->
        <<IF world[c] = Absent THEN PaintedBase ELSE world[c][1], cmd.colour>>]

Replace(cmd) == All_to(Made(BoxOf(cmd.lo, cmd.hi), cmd), cmd)
ReplaceNear(cmd) == All_to(Made({c \in Cells : we_in_sphere(c, cmd.feet, cmd.radius)}, cmd), cmd)

Paste(cmd, cells) ==
    LET there(k) == Sum3(cmd.feet, k.at)
    IN [c \in Cells \cap {there(k) : k \in cells} |->
           LET k == CHOOSE k \in cells : there(k) = c IN <<k.type, k.colour>>]

we_invert(batch) == {[at |-> e.at, old |-> e.new, new |-> e.old] : e \in batch}
Replay(batch) == [c \in {e.at : e \in batch} |-> (CHOOSE e \in batch : e.at = c).new]

\* //up: a platform just below where the feet end up, if that is in the world.
Platform(cmd) ==
    IF Sum3(cmd.feet, <<0, cmd.height, 0>>) \in Cells
    THEN [c \in {Sum3(cmd.feet, <<0, cmd.height - 1, 0>>)} |-> <<58, 0>>]
    ELSE [c \in {} |-> Absent]

Wanted(p, cmd) ==
    CASE cmd.verb \in {"set", "walls"} -> SetBox(cmd)
      [] cmd.verb = "paint" -> Paint(cmd)
      [] cmd.verb = "replace" -> Replace(cmd)
      [] cmd.verb = "replacenear" -> ReplaceNear(cmd)
      [] cmd.verb \in {"sphere", "hsphere", "cyl", "hcyl"} -> All_to(Shape(cmd), cmd)
      [] cmd.verb = "up" -> Platform(cmd)
      [] cmd.verb = "paste" -> Paste(cmd, clip[p])
      [] cmd.verb = "undo" -> Replay(we_invert(Last(undo[p])))
      [] cmd.verb = "redo" -> Replay(Last(redo[p]))

-----------------------------------------------------------------------------
(* UndoStore. *)

Bytes(s) == FoldLeft(LAMBDA n, b : n + Cardinality(b), 0, s)

Since(s, n) == SubSeq(s, n + 1, Len(s))

\* Over budget, the oldest undo goes first, the last of them never; then the oldest redo.
Spare(s) == IF s.undo = <<>> THEN 0 ELSE Len(s.undo) - 1
Without(s, n) ==
    IF n <= Spare(s) THEN [s EXCEPT !.undo = Since(@, n)]
    ELSE [undo |-> Since(s.undo, Spare(s)), redo |-> Since(s.redo, n - Spare(s))]

trim(s) ==
    LET all == Spare(s) + Len(s.redo)
        enough == {n \in 0..all : n = all \/ Bytes(Without(s, n).undo) + Bytes(Without(s, n).redo) <= UndoBudget}
    IN Without(s, Min(enough))

\* Mutant of record: a new edit leaves the redo stack standing.
RecordKeepsRedo(s, batch) ==
    IF batch = {} THEN s ELSE trim([s EXCEPT !.undo = Append(@, batch)])

record(s, batch) ==
    IF batch = {} THEN s ELSE trim([undo |-> Append(s.undo, batch), redo |-> <<>>])
take_undo(s) == trim([undo |-> Front(s.undo), redo |-> Append(s.redo, Last(s.undo))])
take_redo(s) == trim([undo |-> Append(s.undo, Last(s.redo)), redo |-> Front(s.redo)])

History(p, verb, batch) ==
    LET s == [undo |-> undo[p], redo |-> redo[p]]
        t == CASE verb = "undo" -> take_undo(s)
               [] verb = "redo" -> take_redo(s)
               [] OTHER -> record(s, batch)
    IN undo' = [undo EXCEPT ![p] = t.undo] /\ redo' = [redo EXCEPT ![p] = t.redo]

-----------------------------------------------------------------------------
(* Commands. *)

Editing == {"set", "walls", "paint", "replace", "replacenear", "sphere", "hsphere", "cyl", "hcyl",
           "up", "paste", "undo", "redo"}

\* A command that edits looks at the zones first (weEditBox, weCommit).
Command(p, cmd) ==
    /\ h[p] = Idle /\ requests < MaxRequests
    /\ cmd.verb \in Editing
    /\ cmd.verb = "paste" => clip[p] # {}
    /\ cmd.verb = "undo" => undo[p] # <<>>
    /\ cmd.verb = "redo" => redo[p] # <<>>
    /\ requests' = requests + 1
    /\ Goes(p, [at |-> "commit", cmd |-> cmd,
                held |-> {c \in Cells : blocking(zones, Level[p], c)}])
    /\ UNCHANGED <<world, zones, tntOn, fireOn, echo, revert, orders, kept, signVars, session>>

weCapAllows(fresh) == Cardinality(Stored(world) \cup fresh) <= Cap

weWriteLocked(p, verb, batch, want) ==
    /\ world' = worldSet(world, [c \in batch |-> want[c]])
    /\ removeSigns({c \in batch : want[c][1] = Air}, p)
    /\ Keep(p)
    /\ History(p, verb, {[at |-> c, old |-> weRead(world, c), new |-> want[c]] : c \in batch})

\* The batch is what changes and no zone holds; all of it fits under the cap or none
\* of it is written.
Decided(p, cmd, want, changed) ==
    LET free == changed \ h[p].held
        batch == IF weCapAllows(free) THEN free ELSE {}
    IN /\ weWriteLocked(p, cmd.verb, batch, want)
       /\ foreign' = [q \in Players |->
                         foreign[q] \cup IF q # p THEN batch
                                         ELSE IF cmd.verb \in {"undo", "redo"} THEN changed \ free ELSE {}]
       /\ IF cmd.verb \in {"undo", "redo"} \/ (batch # {} /\ cmd.verb # "up")
          THEN Drains(p, Idle) ELSE Rest(p)

\* A cell outside the world is dropped.
weCommit(p, cmd, want) ==
    Decided(p, cmd, want, {c \in Cells \cap DOMAIN want : we_edit_changes(world, c, want[c])})

Commit(p) ==
    /\ h[p].at = "commit"
    /\ weCommit(p, h[p].cmd, Wanted(p, h[p].cmd))
    /\ UNCHANGED <<zones, tntOn, fireOn, echo, revert, budget, clip>>

\* //copy takes what players have made; //rotate turns it.
Copy(p, cmd) ==
    LET taken == {c \in BoxOf(cmd.lo, cmd.hi) : world[c] # Absent}
        named == {c \in taken : ~(Has(world, c, {PaintedBase}) /\ baseType(c[2]) = Air)}
    IN /\ h[p] = Idle /\ requests < MaxRequests /\ cmd.verb = "copy"
       /\ requests' = requests + 1
       /\ clip' = [clip EXCEPT ![p] = {Clipped(world, c, cmd.feet) : c \in named}]
       /\ UNCHANGED <<world, zones, tntOn, fireOn, h, echo, revert, orders, kept, signVars, undo, redo, foreign>>

Rotate(p, cmd) ==
    /\ h[p] = Idle /\ requests < MaxRequests /\ cmd.verb = "rotate" /\ clip[p] # {}
    /\ requests' = requests + 1
    /\ clip' = [clip EXCEPT ![p] = {Quarter(k) : k \in @}]
    /\ UNCHANGED <<world, zones, tntOn, fireOn, h, echo, revert, orders, kept, signVars, undo, redo, foreign>>

-----------------------------------------------------------------------------
Init ==
    /\ InitEdits
    /\ clip = [p \in Players |-> {}]
    /\ undo = [p \in Players |-> <<>>] /\ redo = [p \in Players |-> <<>>]
    /\ foreign = [p \in Players |-> {}]

\* Whoever writes a cell by other means than p's own commands writes it behind them.
Elsewhere ==
    /\ NextEdits
    /\ foreign' = [p \in Players |-> foreign[p] \cup {c \in Cells : world'[c] # world[c]}]
    /\ UNCHANGED <<clip, undo, redo>>

Next ==
    \/ Elsewhere
    \/ \E p \in Players :
          \/ Commit(p)
          \/ \E cmd \in Commands[p] : Command(p, cmd) \/ Copy(p, cmd) \/ Rotate(p, cmd)

Spec == Init /\ [][Next]_allVars

-----------------------------------------------------------------------------
TypeOK ==
    /\ world \in [Cells -> Content]
    /\ \A t \in SignThreads : h[t].at \in {"idle", "verdict", "check", "sim", "drain", "log", "relay", "sign", "commit"}
    /\ pending = UNION {{<<j.target, c>> : c \in j.cells} : j \in jobs}

\* Nothing a player does who may not edit in a zone changes a cell of it while it
\* stands: no edit, no blast or fill that starts outside and chains in, no command,
\* no undo of what was there before (server_posix.cpp zoneDenies, SvExplodeWorld).
ProtectedIntact == kept = Holds(world, signs)

\* A cell damaged on a screen has a restore waiting for it, unless the queue was full:
\* none is lost between one job that left and another that was folded into it
\* (zone_guard.h RevertQueue).
RestoresCovered ==
    \A k \in hurt : \E j \in jobs : j.target = k[1] /\ k[2] \in j.cells

Bounded(r, root, held, max) ==
    /\ \A c \in r.written : Far(c, root) <= burn_reach /\ c \notin held
    /\ r.explosions * explode_visits_per_blast <= Max({max, explode_visits_per_blast})
    /\ r.visits <= Max({max, explode_visits_per_blast, 1 + EXPAND_VISITS_PER_LINK})

\* A burn stays in the box its zones were looked up in, writes nothing they hold, and
\* reads no more of the world than its budget lets it: in every step, and from every
\* cell of the sample worlds, under each budget (explode.h BurnRun).
BurnBounded ==
    /\ \A p \in Players : h[p].at = "relay" => Bounded(h[p], h[p].act.at, h[p].held, MaxVisits)
    /\ requests + orders = 0 =>
          \A w \in Samples \cup {world}, root \in Cells, max \in Budgets, held \in {{}, Guarded} :
              Bounded(simBurn(w, root, max, held, FALSE), root, held, max)

\* Where nobody else has written, the next batch to undo is what the world holds, and
\* the next to redo is what it would replace: no batch is lost, doubled or out of turn
\* (worldedit.h UndoStore).
UndoTopMatches ==
    \A p \in Players :
        /\ undo[p] # <<>> =>
              \A e \in Last(undo[p]) : e.at \in foreign[p] \/ weRead(world, e.at) = e.new
        /\ redo[p] # <<>> =>
              \A e \in Last(redo[p]) : e.at \in foreign[p] \/ weRead(world, e.at) = e.old
=============================================================================
