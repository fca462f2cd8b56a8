------------------------------- MODULE Persist -------------------------------
(***************************************************************************)
(* How the server's memory reaches its files: saveWorld, savePlayerPos and *)
(* saveSigns, the threads that call them (autosave, the control socket,    *)
(* shutdownAndExit), durable_write.h underneath, `signs reload`, and a     *)
(* crash or a restart at any point.                                        *)
(*                                                                         *)
(* What a file or a table holds is the number of the last change it        *)
(* includes; Torn is a file that is not a whole copy of anything.          *)
(***************************************************************************)
EXTENDS Integers, FiniteSets

CONSTANTS
    AutoThread,      \* the autosave thread
    MainThread,      \* main(): start-up, and shutdownAndExit after a signal
    CtlThreads,      \* control socket connections, one detached thread each
    EditKinds,       \* the sets of tables that one change touches
    Stops,           \* how the server may be stopped: "signal", "control", "idle"
    SyncOutcomes,    \* of fsync on a directory: "ok", "error", "unsupported"
    MaxVersion,      \* bounds of the model: changes made,
    MaxFailures,     \* system calls that fail,
    MaxCrashes,      \* restarts,
    MaxCommands,     \* control commands that save,
    MaxDepartures,   \* departures that request a save,
    MaxReloads       \* and `signs reload`s

Files == {"world", "players", "signs"}
Threads == {AutoThread, MainThread} \union CtlThreads
Torn == -1
None == "none"

ASSUME ThreadsAssumption ==
    /\ AutoThread # MainThread /\ {AutoThread, MainThread} \intersect CtlThreads = {}
    /\ None \notin Threads
ASSUME BoundsAssumption ==
    /\ MaxVersion \in Nat /\ MaxFailures \in Nat /\ MaxCrashes \in Nat
    /\ MaxCommands \in Nat /\ MaxDepartures \in Nat /\ MaxReloads \in Nat
ASSUME KindsAssumption ==
    /\ EditKinds \subseteq SUBSET Files
    /\ Stops \subseteq {"signal", "control", "idle"}
    /\ SyncOutcomes \subseteq {"ok", "error", "unsupported"}

VARIABLES
    mem,        \* g_world, g_playerPos, g_signs
    dirty,      \* editsDirty, g_posDirty, g_signsDirty
    file,       \* what reading each file returns now
    durable,    \* what a power loss may leave of each file
    tmp,        \* each file's ".tmp"
    saveMtx,    \* holder of g_saveMtx
    signMtx,    \* holder of g_signSaveMtx
    th,         \* each thread: [at, job, cur, snap, ok]
    sched,      \* SaveSched: [requested, tickDue, gapPassed]
    phase,      \* start-up: "world", "signs", "pruned"; then "up", "exited"
    running,    \* serverRunning
    version,    \* number of the last change
    left,       \* what is left of the bounds
    since,      \* history: mem when each thread's job began
    asked,      \* history: mem at the last departure request
    taken,      \* history: newest contents ever snapshotted
    saved,      \* history: newest contents a save reported durable
    broken      \* history: the last write of the file failed

disk == <<file, durable, tmp>>
locks == <<saveMtx, signMtx>>
history == <<since, asked, taken, saved, broken>>
vars == <<mem, dirty, disk, locks, th, sched, phase, running, version, left, history>>

Versions == 0 .. MaxVersion
NoTmp == [v |-> Torn, whole |-> FALSE, synced |-> FALSE]
Resting == [at |-> "idle", job |-> None, cur |-> "world", snap |-> 0, ok |-> TRUE]
Stages == {"idle", "serial", "snapshot", "lock", "open", "write", "rename",
           "syncDir", "flag", "done", "read", "assign"}
Jobs == {None, "autosave", "departure", "save", "stop", "signs", "convert", "reload"}

ThreadStates == [at : Stages, job : Jobs, cur : Files, snap : Versions \union {Torn}, ok : BOOLEAN]
Budgets == [failures : 0 .. MaxFailures, crashes : 0 .. MaxCrashes, commands : 0 .. MaxCommands,
            departures : 0 .. MaxDepartures, reloads : 0 .. MaxReloads]

At(t, stage) == phase # "exited" /\ th[t].at = stage
newer(a, b) == IF a > b THEN a ELSE b

TypeOK ==
    /\ mem \in [Files -> Versions] /\ dirty \in [Files -> BOOLEAN]
    /\ file \in [Files -> Versions \union {Torn}]
    /\ durable \in [Files -> SUBSET (Versions \union {Torn})]
    /\ tmp \in [Files -> [v : Versions \union {Torn}, whole : BOOLEAN, synced : BOOLEAN]]
    /\ saveMtx \in Threads \union {None} /\ signMtx \in Threads \union {None}
    /\ th \in [Threads -> ThreadStates]
    /\ sched \in [requested : BOOLEAN, tickDue : BOOLEAN, gapPassed : BOOLEAN]
    /\ phase \in {"world", "signs", "pruned", "up", "exited"} /\ running \in BOOLEAN
    /\ version \in Versions /\ left \in Budgets
    /\ since \in [Threads -> [Files -> Versions]] /\ asked \in [Files -> Versions]
    /\ taken \in [Files -> Versions] /\ saved \in [Files -> Versions]
    /\ broken \in [Files -> BOOLEAN]

Zero == [f \in Files |-> 0]

Init ==
    /\ mem = Zero /\ dirty = [f \in Files |-> FALSE]
    /\ file = Zero /\ durable = [f \in Files |-> {0}] /\ tmp = [f \in Files |-> NoTmp]
    /\ saveMtx = None /\ signMtx = None
    /\ th = [t \in Threads |-> Resting]
    /\ sched = [requested |-> FALSE, tickDue |-> FALSE, gapPassed |-> TRUE]
    /\ phase = "world" /\ running = TRUE /\ version = 0
    /\ left = [failures |-> MaxFailures, crashes |-> MaxCrashes,
               commands |-> MaxCommands, departures |-> MaxDepartures,
               reloads |-> MaxReloads]
    /\ since = [t \in Threads |-> Zero] /\ asked = Zero /\ taken = Zero /\ saved = Zero
    /\ broken = [f \in Files |-> FALSE]

-----------------------------------------------------------------------------
(* What changes the tables: worldSet (with removeSignsOnBlock when a block *)
(* becomes air), rememberPos, a sign written or removed.                   *)

change(fs) ==
    /\ version < MaxVersion
    /\ version' = version + 1
    /\ mem' = [f \in Files |-> IF f \in fs THEN version + 1 ELSE mem[f]]
    /\ dirty' = [f \in Files |-> f \in fs \/ dirty[f]]

Edit(fs) ==
    /\ phase = "up"
    /\ change(fs)
    /\ UNCHANGED <<disk, locks, th, sched, phase, running, left, history>>

-----------------------------------------------------------------------------
(* The three saves.  A thread's job walks the files in the order of the    *)
(* calls: world, players, signs.                                           *)

(* saveSigns takes g_signSaveMtx first. *)
FirstStage(f) == IF f = "signs" THEN "serial" ELSE "snapshot"

Begin(t, job, f) ==
    /\ th' = [th EXCEPT ![t] = [@ EXCEPT !.at = FirstStage(f), !.job = job, !.cur = f]]
    /\ since' = [since EXCEPT ![t] = IF job \in {"save", "stop"} THEN mem ELSE Zero]

(* What thread t does when it is through with its file. *)
Onward(r) ==
    CASE r.job = "convert" -> [r EXCEPT !.at = "done"]
      [] r.job # "convert" /\ r.cur = "world" -> [r EXCEPT !.at = "snapshot", !.cur = "players"]
      [] r.job # "convert" /\ r.cur = "players" -> [r EXCEPT !.at = "serial", !.cur = "signs"]
      [] r.job # "convert" /\ r.cur = "signs" -> [r EXCEPT !.at = "done"]

(* Variant: saveSigns without g_signSaveMtx, as saveWorld is. *)
SignsUnserialised(t) ==
    /\ At(t, "serial")
    /\ th' = [th EXCEPT ![t].at = "snapshot"]
    /\ UNCHANGED <<mem, dirty, disk, saveMtx, signMtx, sched, phase, running, version, left, history>>

SignsSerial(t) ==
    /\ At(t, "serial") /\ signMtx = None
    /\ signMtx' = t
    /\ th' = [th EXCEPT ![t].at = "snapshot"]
    /\ UNCHANGED <<mem, dirty, disk, saveMtx, sched, phase, running, version, left, history>>

(* Under the table's own lock: the flag is consumed with the snapshot. *)
Snapshot(t) ==
    LET f == th[t].cur IN
    /\ At(t, "snapshot") /\ dirty[f]
    /\ dirty' = [dirty EXCEPT ![f] = FALSE]
    /\ taken' = [taken EXCEPT ![f] = newer(@, mem[f])]
    /\ th' = [th EXCEPT ![t] = [@ EXCEPT !.at = "lock", !.snap = mem[f]]]
    /\ UNCHANGED <<mem, disk, locks, sched, phase, running, version, left,
                   since, asked, saved, broken>>

NothingChanged(t) ==
    /\ At(t, "snapshot") /\ ~dirty[th[t].cur]
    /\ th' = [th EXCEPT ![t] = Onward(@)]
    /\ signMtx' = IF signMtx = t THEN None ELSE signMtx
    /\ UNCHANGED <<mem, dirty, disk, saveMtx, sched, phase, running, version, left, history>>

(* Variant: the write outside g_saveMtx. *)
SaveUnlocked(t) ==
    /\ At(t, "lock")
    /\ saveMtx' = t
    /\ th' = [th EXCEPT ![t].at = "open"]
    /\ UNCHANGED <<mem, dirty, disk, signMtx, sched, phase, running, version, left, history>>

SaveLock(t) ==
    /\ At(t, "lock") /\ saveMtx = None
    /\ saveMtx' = t
    /\ th' = [th EXCEPT ![t].at = "open"]
    /\ UNCHANGED <<mem, dirty, disk, signMtx, sched, phase, running, version, left, history>>

-----------------------------------------------------------------------------
(* write_file_durable. *)

Put(t, f, stage, w, next) ==
    /\ At(t, stage) /\ f = th[t].cur
    /\ tmp' = [tmp EXCEPT ![f] = w]
    /\ th' = [th EXCEPT ![t].at = next]
    /\ UNCHANGED <<mem, dirty, file, durable, locks, sched, phase, running, version, left, history>>

(* Variant: a short write taken for the whole. *)
OpenForgetsWrite(t) == \E f \in Files :
    Put(t, f, "open", [v |-> th[t].snap, whole |-> FALSE, synced |-> FALSE], "rename")

OpenTmp(t) == \E f \in Files :
    Put(t, f, "open", [v |-> th[t].snap, whole |-> FALSE, synced |-> FALSE], "write")

(* Variant: no fsync before the rename. *)
WriteUnsynced(t) == \E f \in Files :
    Put(t, f, "write", [tmp[f] EXCEPT !.whole = TRUE], "rename")

(* The writes and the fsync. *)
WriteTmp(t) == \E f \in Files :
    Put(t, f, "write", [tmp[f] EXCEPT !.whole = TRUE, !.synced = TRUE], "rename")

RenameTmp(t) ==
    LET f == th[t].cur  w == tmp[f] IN
    /\ At(t, "rename")
    /\ file' = [file EXCEPT ![f] = IF w.whole THEN w.v ELSE Torn]
    /\ durable' = [durable EXCEPT ![f] = @ \union {IF w.whole /\ w.synced THEN w.v ELSE Torn}]
    /\ tmp' = [tmp EXCEPT ![f] = NoTmp]
    /\ th' = [th EXCEPT ![t].at = "syncDir"]
    /\ UNCHANGED <<mem, dirty, locks, sched, phase, running, version, left, history>>

(* Variant: the failure leaves the flag clean. *)
ReturnsDropping(t, ok) ==
    /\ saveMtx' = None
    /\ dirty' = dirty
    /\ th' = [th EXCEPT ![t] = IF @.cur = "signs" THEN [@ EXCEPT !.at = "flag", !.ok = ok]
                                                  ELSE Onward(@)]
    /\ broken' = [broken EXCEPT ![th[t].cur] = ~ok]

(* The caller's end of it: a failure sets the dirty flag again, saveSigns  *)
(* only once writeFileAtomic has released g_saveMtx.                       *)
Returns(t, ok) ==
    /\ saveMtx' = None
    /\ dirty' = [f \in Files |-> dirty[f] \/ (f = th[t].cur /\ f # "signs" /\ ~ok)]
    /\ th' = [th EXCEPT ![t] = IF @.cur = "signs" THEN [@ EXCEPT !.at = "flag", !.ok = ok]
                                                  ELSE Onward(@)]
    /\ broken' = [broken EXCEPT ![th[t].cur] = ~ok]

Fail ==
    /\ left.failures > 0
    /\ left' = [left EXCEPT !.failures = @ - 1]

(* Variant: the directory is never synced. *)
SyncDirSkipped(t) ==
    LET f == th[t].cur IN
    /\ At(t, "syncDir")
    /\ Returns(t, TRUE)
    /\ saved' = [saved EXCEPT ![f] = th[t].snap]
    /\ UNCHANGED <<mem, file, durable, tmp, signMtx, sched, phase, running, version, left,
                   since, asked, taken>>

SyncDir(t) ==
    LET f == th[t].cur IN
    /\ At(t, "syncDir") /\ "ok" \in SyncOutcomes
    /\ durable' = [durable EXCEPT ![f] = {file[f]}]
    /\ Returns(t, TRUE)
    /\ saved' = [saved EXCEPT ![f] = th[t].snap]
    /\ UNCHANGED <<mem, file, tmp, signMtx, sched, phase, running, version, left,
                   since, asked, taken>>

SyncDirUnsupported(t) ==
    /\ At(t, "syncDir") /\ "unsupported" \in SyncOutcomes
    /\ Returns(t, TRUE)
    /\ UNCHANGED <<mem, disk, signMtx, sched, phase, running, version, left,
                   since, asked, taken, saved>>

SyncDirFails(t) ==
    /\ At(t, "syncDir") /\ "error" \in SyncOutcomes
    /\ Fail /\ Returns(t, FALSE)
    /\ UNCHANGED <<mem, disk, signMtx, sched, phase, running, version,
                   since, asked, taken, saved>>

(* open, write, fsync or rename fails: the temp file is unlinked. *)
WriteFails(t) ==
    /\ \E stage \in {"open", "write", "rename"} : At(t, stage)
    /\ Fail /\ Returns(t, FALSE)
    /\ tmp' = [tmp EXCEPT ![th[t].cur] = NoTmp]
    /\ UNCHANGED <<mem, file, durable, signMtx, sched, phase, running, version,
                   since, asked, taken, saved>>

(* Variant: a failed write of the sign file leaves the flag clean. *)
SignsReturnDropping(t) ==
    /\ At(t, "flag")
    /\ signMtx' = None
    /\ th' = [th EXCEPT ![t] = Onward(@)]
    /\ UNCHANGED <<mem, dirty, disk, saveMtx, sched, phase, running, version, left, history>>

SignsReturn(t) ==
    /\ At(t, "flag")
    /\ dirty' = [dirty EXCEPT !["signs"] = @ \/ ~th[t].ok]
    /\ signMtx' = None
    /\ th' = [th EXCEPT ![t] = Onward(@)]
    /\ UNCHANGED <<mem, disk, saveMtx, sched, phase, running, version, left, history>>

-----------------------------------------------------------------------------
(* Start-up: a text world is saved once as EDMB, and signs on blocks that  *)
(* are air are dropped and the sidecar rewritten, before anything listens. *)

Convert ==
    /\ phase = "world" /\ th[MainThread].at = "idle"
    /\ phase' = "signs"
    /\ dirty' = [dirty EXCEPT !["world"] = TRUE]
    /\ Begin(MainThread, "convert", "world")
    /\ UNCHANGED <<mem, disk, locks, sched, running, version, left, asked, taken, saved, broken>>

LoadedBinary ==
    /\ phase = "world"
    /\ phase' = "signs"
    /\ UNCHANGED <<mem, dirty, disk, locks, th, sched, running, version, left, history>>

pruneOrphanSigns ==
    /\ phase = "signs" /\ th[MainThread].at = "idle"
    /\ phase' = "pruned"
    /\ change({"signs"})
    /\ Begin(MainThread, "signs", "signs")
    /\ UNCHANGED <<disk, locks, sched, running, left, asked, taken, saved, broken>>

Listen ==
    /\ phase \in {"signs", "pruned"} /\ th[MainThread].at = "idle"
    /\ phase' = "up"
    /\ UNCHANGED <<mem, dirty, disk, locks, th, sched, running, version, left, history>>

-----------------------------------------------------------------------------
(* The autosave thread and its schedule. *)

requestSave ==
    /\ phase = "up"
    /\ left.departures > 0 /\ left' = [left EXCEPT !.departures = @ - 1]
    /\ sched' = [sched EXCEPT !.requested = TRUE]
    /\ asked' = mem
    /\ UNCHANGED <<mem, dirty, disk, locks, th, phase, running, version,
                   since, taken, saved, broken>>

(* The clock reaches next_tick, or last_save + min_gap.  Only the thread   *)
(* at rest looks at it, so it need not move before.                        *)
Clock ==
    /\ phase = "up" /\ th[AutoThread].at = "idle"
    /\ \/ ~sched.tickDue /\ sched' = [sched EXCEPT !.tickDue = TRUE]
       \/ ~sched.gapPassed /\ sched' = [sched EXCEPT !.gapPassed = TRUE]
    /\ UNCHANGED <<mem, dirty, disk, locks, th, phase, running, version, left, history>>

due == IF sched.tickDue THEN "autosave"
       ELSE IF sched.requested /\ sched.gapPassed THEN "departure" ELSE None

begin(why) == [requested |-> FALSE, gapPassed |-> FALSE,
               tickDue |-> sched.tickDue /\ why # "autosave"]

AutoBegin ==
    /\ phase = "up" /\ running /\ th[AutoThread].at = "idle" /\ due # None
    /\ sched' = begin(due)
    /\ Begin(AutoThread, due, "world")
    /\ UNCHANGED <<mem, dirty, disk, locks, phase, running, version, left,
                   asked, taken, saved, broken>>

-----------------------------------------------------------------------------
(* Control commands, each on a thread that is between two lines. *)

Command(t) ==
    /\ phase = "up" /\ t \in CtlThreads /\ th[t].at = "idle"
    /\ left.commands > 0 /\ left' = [left EXCEPT !.commands = @ - 1]

Save(t) ==
    /\ Command(t)
    /\ Begin(t, "save", "world")
    /\ UNCHANGED <<mem, dirty, disk, locks, sched, phase, running, version,
                   asked, taken, saved, broken>>

SignsAddOrRm(t) ==
    /\ Command(t)
    /\ change({"signs"})
    /\ Begin(t, "signs", "signs")
    /\ UNCHANGED <<disk, locks, sched, phase, running, asked, taken, saved, broken>>

(* signs reload: the flag is checked, the file is read, and the list is    *)
(* swapped under g_signMtx, with no lock held from one to the next.        *)
SignsReload(t) ==
    /\ phase = "up" /\ t \in CtlThreads /\ th[t].at = "idle" /\ ~dirty["signs"]
    /\ left.reloads > 0 /\ left' = [left EXCEPT !.reloads = @ - 1]
    /\ th' = [th EXCEPT ![t] = [@ EXCEPT !.at = "read", !.job = "reload"]]
    /\ UNCHANGED <<mem, dirty, disk, locks, sched, phase, running, version, history>>

ReloadRead(t) ==
    /\ At(t, "read")
    /\ th' = [th EXCEPT ![t] = [@ EXCEPT !.at = "assign", !.snap = file["signs"]]]
    /\ UNCHANGED <<mem, dirty, disk, locks, sched, phase, running, version, left, history>>

ReloadAssign(t) ==
    /\ At(t, "assign")
    /\ mem' = [mem EXCEPT !["signs"] = th[t].snap]
    /\ th' = [th EXCEPT ![t].at = "done"]
    /\ UNCHANGED <<dirty, disk, locks, sched, phase, running, version, left, history>>

ReloadPrune(t) ==
    /\ At(t, "done") /\ th[t].job = "reload"
    /\ change({"signs"})
    /\ Begin(t, "signs", "signs")
    /\ UNCHANGED <<disk, locks, sched, phase, running, left, asked, taken, saved, broken>>

-----------------------------------------------------------------------------
(* The end of a job, and of the process. *)

shutdownAndExit(t) ==
    /\ running' = FALSE
    /\ Begin(t, "stop", "world")
    /\ UNCHANGED <<mem, dirty, disk, locks, sched, phase, version, left,
                   asked, taken, saved, broken>>

ControlStop(t) ==
    /\ phase = "up" /\ "control" \in Stops /\ t \in CtlThreads /\ th[t].at = "idle"
    /\ shutdownAndExit(t)

SignalStop ==
    /\ phase = "up" /\ "signal" \in Stops /\ th[MainThread].at = "idle"
    /\ shutdownAndExit(MainThread)

IdleStop ==
    /\ "idle" \in Stops /\ At(AutoThread, "done") /\ th[AutoThread].job = "autosave"
    /\ shutdownAndExit(AutoThread)

(* Variant: the request is cleared when the save ends, not when it begins. *)
JobDoneForgets(t) ==
    /\ At(t, "done")
    /\ th' = [th EXCEPT ![t] = Resting]
    /\ phase' = IF th[t].job = "stop" THEN "exited" ELSE phase
    /\ sched' = [sched EXCEPT !.requested = @ /\ t # AutoThread]
    /\ UNCHANGED <<mem, dirty, disk, locks, running, version, left, history>>

JobDone(t) ==
    /\ At(t, "done")
    /\ th' = [th EXCEPT ![t] = Resting]
    /\ phase' = IF th[t].job = "stop" THEN "exited" ELSE phase
    /\ UNCHANGED <<mem, dirty, disk, locks, sched, running, version, left, history>>

(* A power loss leaves any durable image, a kill or an exit what is there. *)
Restart ==
    /\ left.crashes > 0
    /\ \E img \in [Files -> Versions] :
        /\ \A f \in Files : img[f] \in durable[f] \union {file[f]}
        /\ mem' = img /\ file' = img /\ durable' = [f \in Files |-> {img[f]}]
    /\ dirty' = [f \in Files |-> FALSE] /\ tmp' = [f \in Files |-> NoTmp]
    /\ saveMtx' = None /\ signMtx' = None
    /\ th' = [t \in Threads |-> Resting] /\ since' = [t \in Threads |-> Zero]
    /\ sched' = [requested |-> FALSE, tickDue |-> FALSE, gapPassed |-> TRUE]
    /\ phase' = "world" /\ running' = TRUE
    /\ left' = [left EXCEPT !.crashes = @ - 1]
    /\ asked' = Zero /\ broken' = [f \in Files |-> FALSE]
    /\ UNCHANGED <<version, taken, saved>>

-----------------------------------------------------------------------------

SaveStep(t) ==
    \/ SignsSerial(t) \/ Snapshot(t) \/ NothingChanged(t) \/ SaveLock(t)
    \/ OpenTmp(t) \/ WriteTmp(t) \/ RenameTmp(t)
    \/ SyncDir(t) \/ SyncDirUnsupported(t) \/ SyncDirFails(t) \/ WriteFails(t)
    \/ SignsReturn(t)

Step(t) ==
    \/ SaveStep(t) \/ JobDone(t)
    \/ Save(t) \/ SignsAddOrRm(t) \/ ControlStop(t)
    \/ SignsReload(t) \/ ReloadRead(t) \/ ReloadAssign(t) \/ ReloadPrune(t)

Next ==
    \/ \E fs \in EditKinds : Edit(fs)
    \/ \E t \in Threads : Step(t)
    \/ Convert \/ LoadedBinary \/ pruneOrphanSigns \/ Listen
    \/ requestSave \/ Clock \/ AutoBegin
    \/ SignalStop \/ IdleStop \/ Restart

Spec == Init /\ [][Next]_vars

(* Threads that have something to do get to run, and time passes. *)
FairSpec ==
    /\ Spec
    /\ \A t \in Threads : WF_vars(SaveStep(t) \/ JobDone(t))
    /\ WF_vars(LoadedBinary \/ Convert) /\ WF_vars(Listen \/ pruneOrphanSigns)
    /\ WF_vars(Clock) /\ WF_vars(AutoBegin)
-----------------------------------------------------------------------------
(* Properties. *)

(* "Never a zero-length or partial one": what a reader, a kill or a power  *)
(* loss finds of a file is always a whole copy of what some save took.     *)
CrashSafe == \A f \in Files : Torn \notin durable[f] \union {file[f]}

(* g_saveMtx keeps each fixed temp name to one writer: between open and    *)
(* rename the temp file holds what this thread put there.                  *)
OneWriter ==
    \A t \in Threads :
        /\ th[t].at \in {"open", "write", "rename", "syncDir"} => saveMtx = t
        /\ th[t].at \in {"write", "rename"} => tmp[th[t].cur].v = th[t].snap

(* A clean flag with no save under way hides no unsaved change: the file   *)
(* is at least as new as the table.                                        *)
CleanIsSaved(f) == ~dirty[f] => file[f] >= mem[f]

(* saveSigns holds g_signSaveMtx from the snapshot to the write, "so of    *)
(* two racing saves the later snapshot is always the one left on disk".    *)
SignsCleanIsSaved == signMtx = None => CleanIsSaved("signs")

(* No save replaces the sign file with an older list, and once a save of   *)
(* it has been reported no power loss brings an older one back.            *)
SignsSavedStay == \A v \in durable["signs"] \union {file["signs"]} : v >= saved["signs"]

(* A control `save` and every clean stop leave in the sign file the list   *)
(* they found, even when another thread's save was under way, unless the   *)
(* write failed.                                                           *)
SaveKeepsSigns ==
    \A t \in Threads :
        At(t, "done") /\ th[t].job \in {"save", "stop"} =>
            file["signs"] >= since[t]["signs"] \/ broken["signs"]

(* SaveSched::begin consumes a request before the snapshot, so one that    *)
(* arrives during a save survives it: with no request left and the thread  *)
(* asleep, what the departing player left has been taken by some save.     *)
DeparturesCovered ==
    phase = "up" /\ ~sched.requested /\ th[AutoThread].at = "idle" =>
        \A f \in Files : taken[f] >= asked[f]

(* A failed write sets the flag again, so while the server runs what a     *)
(* dirty flag announces is written.                                        *)
ChangesReachDisk ==
    \A f \in Files, v \in Versions :
        phase = "up" /\ running /\ dirty[f] /\ mem[f] = v ~> file[f] >= v \/ ~running \/ phase # "up"

(* architecture.md: "a control-socket `save` racing the autosave cannot    *)
(* interleave", and saveWorld's comment; but saveWorld takes g_saveMtx     *)
(* after its snapshot, and the older of two blobs may be written last with *)
(* the flag clean.                                                         *)
Saving(f) == \E t \in Threads : th[t].cur = f /\ th[t].at \in
                {"lock", "open", "write", "rename", "syncDir"}
WorldCleanIsSaved == ~Saving("world") => CleanIsSaved("world")

(* handleControlLine: a sign change lives only in memory until the next    *)
(* save and "reloading over it would throw it away without a word", so the *)
(* reload is refused; a reload never takes the list back.                  *)
ReloadKeepsSigns == [][phase = phase' => mem'["signs"] >= mem["signs"]]_vars
=============================================================================
