------------------------------ MODULE LogFold ------------------------------
(***************************************************************************)
(* The two tables that fold a flood of log lines into one line a window:   *)
(* EditLogFold (--verbose edits, one key a player) and ZoneAuditAgg (zone  *)
(* refusals, one key a player and zone), with the readers that note into   *)
(* them and the autosave tick that flushes them.                           *)
(*                                                                         *)
(* A table maps a key to the window it has open: how long ago that started, *)
(* in ticks up to the window's length, and what was folded into it.  Ages   *)
(* instead of the clock keep the model finite with no bound on time.        *)
(***************************************************************************)
EXTENDS Integers, FiniteSets

CONSTANTS
    Keys,        \* players; players with a zone
    EditWindow,  \* EDIT_LOG_FOLD_WINDOW_SEC, in ticks
    AuditWindow, \* ZONE_AUDIT_WINDOW_SEC
    MaxFolded    \* bound of the model: edits one key folds between two lines

\* What the theorems assume of them.
LogFoldAssumption ==
    EditWindow \in Nat \ {0} /\ AuditWindow \in Nat \ {0} /\ MaxFolded \in Nat \ {0}

VARIABLES
    edit,    \* g_editLog.entries_
    audit,   \* g_zoneAudit.entries_
    unsaid,  \* history: for each table and key, what no line has told of yet
    since,   \* history: ticks since the key's last line, as far as its window reaches
    crowded  \* history: two lines of a key were ever less than its window apart

history == <<unsaid, since, crowded>>
vars == <<edit, audit, history>>

Tables == {"edit", "audit"}
Window(t) == IF t = "edit" THEN EditWindow ELSE AuditWindow

None == [age |-> -1, folded |-> 0]      \* no entry
Opened == [age |-> 0, folded |-> 0]     \* a window opened by a line
Closed(e, w) == e = None \/ e.age >= w

Init ==
    /\ edit = [k \in Keys |-> None] /\ audit = [k \in Keys |-> None]
    /\ unsaid = [t \in Tables |-> [k \in Keys |-> 0]]
    /\ since = [t \in Tables |-> [k \in Keys |-> Window(t)]]
    /\ crowded = FALSE

-----------------------------------------------------------------------------
Fold(e) == [e EXCEPT !.folded = @ + 1]

\* A line is written for each of these keys.
Line(t, keys) ==
    /\ since' = [since EXCEPT ![t] = [k \in Keys |-> IF k \in keys THEN 0 ELSE @[k]]]
    /\ crowded' = (crowded \/ \E k \in keys : since[t][k] < Window(t))
\* It tells of all that was folded.
Told(t, keys) ==
    unsaid' = [unsaid EXCEPT ![t] = [k \in Keys |-> IF k \in keys THEN 0 ELSE @[k]]]
\* One more is folded, with no line.
Folded(t, k) ==
    /\ unsaid[t][k] < MaxFolded
    /\ unsaid' = [unsaid EXCEPT ![t][k] = @ + 1]
    /\ UNCHANGED <<since, crowded>>

\* logEdit: a BURN, or a BUILD of TNT, lava or fireworks, is written whatever the window
\* holds and leaves it alone; it is left out here.  The line that opens a window tells of
\* one edit.  note sets the count of the window before it to 0, summary or none.
NoteEdit(k) ==
    /\ IF Closed(edit[k], EditWindow)
       THEN /\ edit' = [edit EXCEPT ![k] = Opened]
            /\ Line("edit", {k}) /\ UNCHANGED unsaid
       ELSE /\ edit' = [edit EXCEPT ![k] = Fold(@)]
            /\ Folded("edit", k)
    /\ UNCHANGED audit

\* zoneAudit: the line that opens a window adds the count of the one before.
NoteDenial(k) ==
    /\ IF Closed(audit[k], AuditWindow)
       THEN /\ audit' = [audit EXCEPT ![k] = Opened]
            /\ Line("audit", {k}) /\ Told("audit", {k})
       ELSE /\ audit' = [audit EXCEPT ![k] = Fold(@)]
            /\ Folded("audit", k)
    /\ UNCHANGED edit

\* What flush leaves of an entry: an open window as it is, a closed one with nothing folded
\* forgotten, any other opened anew by its summary.
AfterFlush(e, w) ==
    IF e = None \/ e.age < w THEN e ELSE IF e.folded = 0 THEN None ELSE Opened
Summed(e, w) == e # None /\ e.age >= w /\ e.folded > 0

\* flushEditLog, then flushZoneAudit, each under its table's mutex: the autosave tick.
FlushEdits ==
    LET told == {k \in Keys : Summed(edit[k], EditWindow)} IN
    /\ edit' = [k \in Keys |-> AfterFlush(edit[k], EditWindow)]
    /\ Line("edit", told) /\ Told("edit", told)
    /\ UNCHANGED audit
FlushDenials ==
    LET told == {k \in Keys : Summed(audit[k], AuditWindow)} IN
    /\ audit' = [k \in Keys |-> AfterFlush(audit[k], AuditWindow)]
    /\ Line("audit", told) /\ Told("audit", told)
    /\ UNCHANGED edit

Older(e, w) == IF e = None \/ e.age >= w THEN e ELSE [e EXCEPT !.age = @ + 1]
\* monoSeconds.
Tick ==
    /\ edit' = [k \in Keys |-> Older(edit[k], EditWindow)]
    /\ audit' = [k \in Keys |-> Older(audit[k], AuditWindow)]
    /\ since' = [t \in Tables |-> [k \in Keys |->
                   IF since[t][k] < Window(t) THEN since[t][k] + 1 ELSE since[t][k]]]
    /\ UNCHANGED <<unsaid, crowded>>

Next == (\E k \in Keys : NoteEdit(k) \/ NoteDenial(k)) \/ FlushEdits \/ FlushDenials \/ Tick

Spec == Init /\ [][Next]_vars

-----------------------------------------------------------------------------
(* Properties. *)

Longest == IF EditWindow > AuditWindow THEN EditWindow ELSE AuditWindow
Entries(w) == [age : 0..w, folded : 0..MaxFolded] \cup {None}

\* The type of every variable.
TypeOK ==
    /\ edit \in [Keys -> Entries(EditWindow)] /\ audit \in [Keys -> Entries(AuditWindow)]
    /\ unsaid \in [Tables -> [Keys -> 0..MaxFolded]]
    /\ since \in [Tables -> [Keys -> 0..Longest]]
    /\ crowded \in BOOLEAN

\* Every refusal is in the audit trail or counted in the window that will tell of it,
\* however notes from several readers, closing windows and flushes alternate: a window that
\* closed between two flushes is told of by the next refusal's own line.
DenialsAreCounted ==
    \A k \in Keys : audit[k].folded = unsaid["audit"][k]

\* A refusal's lines, first ones and summaries alike, are a whole window apart, so that the
\* audit file cannot be made to grow faster (zone_guard.h); the same of the edit log.
OneLinePerWindow == ~crowded
=============================================================================
