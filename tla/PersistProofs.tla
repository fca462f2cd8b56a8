---------------------------- MODULE PersistProofs ----------------------------
(***************************************************************************)
(* Proofs about Persist, for any number of control connections, changes,   *)
(* failures, crashes, commands, departures and, but for the sign file's    *)
(* own theorems, reloads.                                                  *)
(***************************************************************************)
EXTENDS Persist, TLAPS

(***************************************************************************)
(* CrashSafe is not inductive: it rests on what the temp file holds when   *)
(* it is renamed, which rests on g_saveMtx giving the file one writer; and *)
(* a table stays whole because the file a reload reads is.                 *)
(***************************************************************************)
SnapsWhole == \A t \in Threads : th[t].snap \in Versions

RenameReady ==
    \A t \in Threads : th[t].at = "rename" =>
        tmp[th[t].cur].whole /\ tmp[th[t].cur].synced

WriterInv == TypeOK /\ OneWriter /\ CrashSafe /\ SnapsWhole /\ RenameReady

LEMMA WriterInit == Init => WriterInv
<1> SUFFICES ASSUME Init PROVE WriterInv
  OBVIOUS
<1>1. MainThread \in Threads /\ 0 \in Versions
  BY BoundsAssumption DEF Threads, Versions
<1>2. TypeOK
  BY <1>1, BoundsAssumption DEF Init, TypeOK, ThreadStates, Budgets, Zero, NoTmp, Resting, Stages,
     Jobs, Files, Versions
<1>3. OneWriter /\ CrashSafe /\ SnapsWhole /\ RenameReady
  BY <1>1 DEF Init, OneWriter, CrashSafe, SnapsWhole, RenameReady, Resting, Zero, Torn, Versions
<1> QED
  BY <1>2, <1>3 DEF WriterInv

-----------------------------------------------------------------------------
(* Types. *)

\* The next file of a job is a thread state like the one before.
LEMMA OnwardTyped ==
    ASSUME NEW r \in ThreadStates
    PROVE  Onward(r) \in ThreadStates /\ Onward(r).snap = r.snap
  BY DEF Onward, ThreadStates, Stages, Files

\* What starts a job keeps the types of the threads and of their histories.
LEMMA BeginTyped ==
    ASSUME TypeOK, NEW t \in Threads, NEW job \in Jobs, NEW f \in Files, Begin(t, job, f)
    PROVE  th' \in [Threads -> ThreadStates] /\ since' \in [Threads -> [Files -> Versions]]
<1>1. th[t] \in ThreadStates /\ FirstStage(f) \in Stages
  BY DEF TypeOK, FirstStage, Stages
<1>2. [th[t] EXCEPT !.at = FirstStage(f), !.job = job, !.cur = f] \in ThreadStates
  BY <1>1 DEF ThreadStates
<1>3. Zero \in [Files -> Versions]
  BY BoundsAssumption DEF Zero, Versions
<1>4. QED
  BY <1>2, <1>3 DEF Begin, TypeOK

\* A thread that only changes its stage.
LEMMA StageTyped ==
    ASSUME NEW r \in ThreadStates, NEW stage \in Stages
    PROVE  [r EXCEPT !.at = stage] \in ThreadStates
  BY DEF ThreadStates

\* What a change of some tables keeps typed.
LEMMA ChangeTyped ==
    ASSUME TypeOK, NEW fs, change(fs)
    PROVE  /\ mem' \in [Files -> Versions] /\ dirty' \in [Files -> BOOLEAN]
           /\ version' \in Versions
<1>1. version + 1 \in Versions
  BY BoundsAssumption DEF TypeOK, change, Versions
<1>2. QED
  BY <1>1 DEF TypeOK, change

\* What the end of a write keeps typed.
LEMMA ReturnsTyped ==
    ASSUME TypeOK, NEW t \in Threads, NEW ok \in BOOLEAN, Returns(t, ok)
    PROVE  /\ saveMtx' = None
           /\ dirty' \in [Files -> BOOLEAN]
           /\ th' \in [Threads -> ThreadStates]
           /\ broken' \in [Files -> BOOLEAN]
<1>1. th[t] \in ThreadStates
  BY DEF TypeOK
<1>2. [th[t] EXCEPT !.at = "flag", !.ok = ok] \in ThreadStates
  BY <1>1 DEF ThreadStates, Stages
<1>3. Onward(th[t]) \in ThreadStates
  BY <1>1, OnwardTyped
<1>4. th' = [th EXCEPT ![t] = IF th[t].cur = "signs"
                                THEN [th[t] EXCEPT !.at = "flag", !.ok = ok]
                                ELSE Onward(th[t])]
  BY DEF Returns
<1>5. th' \in [Threads -> ThreadStates]
  <2> HIDE DEF ThreadStates
  <2>1. th \in [Threads -> ThreadStates]
    BY DEF TypeOK
  <2>2. QED
    BY <1>2, <1>3, <1>4, <2>1
<1>6. QED
  BY <1>5 DEF Returns, TypeOK

\* What is left of a bound once some of it is spent.
LEMMA SpentTyped ==
    ASSUME NEW l \in Budgets
    PROVE  /\ l.failures > 0 => [l EXCEPT !.failures = @ - 1] \in Budgets
           /\ l.crashes > 0 => [l EXCEPT !.crashes = @ - 1] \in Budgets
           /\ l.commands > 0 => [l EXCEPT !.commands = @ - 1] \in Budgets
           /\ l.departures > 0 => [l EXCEPT !.departures = @ - 1] \in Budgets
           /\ l.reloads > 0 => [l EXCEPT !.reloads = @ - 1] \in Budgets
<1>1. ASSUME l.failures > 0 PROVE [l EXCEPT !.failures = @ - 1] \in Budgets
  <2>1. l.failures - 1 \in 0 .. MaxFailures
    BY <1>1, BoundsAssumption DEF Budgets
  <2>2. QED
    BY <2>1 DEF Budgets
<1>2. ASSUME l.crashes > 0 PROVE [l EXCEPT !.crashes = @ - 1] \in Budgets
  <2>1. l.crashes - 1 \in 0 .. MaxCrashes
    BY <1>2, BoundsAssumption DEF Budgets
  <2>2. QED
    BY <2>1 DEF Budgets
<1>3. ASSUME l.commands > 0 PROVE [l EXCEPT !.commands = @ - 1] \in Budgets
  <2>1. l.commands - 1 \in 0 .. MaxCommands
    BY <1>3, BoundsAssumption DEF Budgets
  <2>2. QED
    BY <2>1 DEF Budgets
<1>4. ASSUME l.departures > 0 PROVE [l EXCEPT !.departures = @ - 1] \in Budgets
  <2>1. l.departures - 1 \in 0 .. MaxDepartures
    BY <1>4, BoundsAssumption DEF Budgets
  <2>2. QED
    BY <2>1 DEF Budgets
<1>5. ASSUME l.reloads > 0 PROVE [l EXCEPT !.reloads = @ - 1] \in Budgets
  <2>1. l.reloads - 1 \in 0 .. MaxReloads
    BY <1>5, BoundsAssumption DEF Budgets
  <2>2. QED
    BY <2>1 DEF Budgets
<1>6. QED
  BY <1>1, <1>2, <1>3, <1>4, <1>5

LEMMA TypesStep == WriterInv /\ [Next]_vars => TypeOK'
<1> SUFFICES ASSUME WriterInv, [Next]_vars PROVE TypeOK'
  OBVIOUS
<1> USE DEF disk, locks, history
<1>0. TypeOK
  BY DEF WriterInv
<1>1. CASE UNCHANGED vars
  BY <1>0, <1>1 DEF vars, TypeOK
<1>2. ASSUME NEW fs \in EditKinds, Edit(fs) PROVE TypeOK'
  <2>1. mem' \in [Files -> Versions] /\ dirty' \in [Files -> BOOLEAN] /\ version' \in Versions
    BY <1>0, <1>2, ChangeTyped DEF Edit
  <2>2. QED
    BY <1>0, <1>2, <2>1 DEF Edit, TypeOK
<1>3. ASSUME NEW t \in Threads, SignsSerial(t) PROVE TypeOK'
  <2>1. [th[t] EXCEPT !.at = "snapshot"] \in ThreadStates
    BY <1>0, StageTyped DEF TypeOK, Stages
  <2>2. QED
    BY <1>0, <1>3, <2>1 DEF SignsSerial, Files, TypeOK
<1>4. ASSUME NEW t \in Threads, Snapshot(t) PROVE TypeOK'
  <2>1. th[t] \in ThreadStates /\ th[t].cur \in Files /\ mem[th[t].cur] \in Versions
    BY <1>0 DEF TypeOK, ThreadStates
  <2>2. [th[t] EXCEPT !.at = "lock", !.snap = mem[th[t].cur]] \in ThreadStates
    BY <2>1 DEF ThreadStates, Stages
  <2>3. newer(taken[th[t].cur], mem[th[t].cur]) \in Versions
    BY <1>0, <2>1 DEF TypeOK, newer
  <2>4. th' = [th EXCEPT ![t] = [th[t] EXCEPT !.at = "lock", !.snap = mem[th[t].cur]]]
    BY <1>4 DEF Snapshot
  <2>5. th' \in [Threads -> ThreadStates]
    BY <1>0, <2>2, <2>4 DEF TypeOK
  <2>6. QED
    BY <1>0, <1>4, <2>1, <2>2, <2>3, <2>4, <2>5 DEF Snapshot, TypeOK
<1>5. ASSUME NEW t \in Threads, NothingChanged(t) PROVE TypeOK'
  <2>1. Onward(th[t]) \in ThreadStates
    BY <1>0, OnwardTyped DEF TypeOK
  <2>2. th' = [th EXCEPT ![t] = Onward(th[t])]
    BY <1>5 DEF NothingChanged
  <2>3. th' \in [Threads -> ThreadStates]
    BY <1>0, <2>1, <2>2 DEF TypeOK
  <2>4. QED
    BY <1>0, <1>5, <2>1, <2>2, <2>3 DEF NothingChanged, TypeOK
<1>6. ASSUME NEW t \in Threads, SaveLock(t) PROVE TypeOK'
  <2>1. [th[t] EXCEPT !.at = "open"] \in ThreadStates
    BY <1>0, StageTyped DEF TypeOK, Stages
  <2>2. QED
    BY <1>0, <1>6, <2>1 DEF SaveLock, TypeOK
<1>7. ASSUME NEW t \in Threads, OpenTmp(t) PROVE TypeOK'
  <2>1. [v |-> th[t].snap, whole |-> FALSE, synced |-> FALSE]
          \in [v : Versions \union {Torn}, whole : BOOLEAN, synced : BOOLEAN]
    BY <1>0 DEF TypeOK, ThreadStates
  <2>2. [th[t] EXCEPT !.at = "write"] \in ThreadStates
    BY <1>0, StageTyped DEF TypeOK, Stages
  <2>3. QED
    BY <1>0, <1>7, <2>1, <2>2 DEF OpenTmp, Put, TypeOK
<1>8. ASSUME NEW t \in Threads, WriteTmp(t) PROVE TypeOK'
  <2>1. \A f \in Files : [tmp[f] EXCEPT !.whole = TRUE, !.synced = TRUE]
          \in [v : Versions \union {Torn}, whole : BOOLEAN, synced : BOOLEAN]
    BY <1>0 DEF TypeOK
  <2>2. [th[t] EXCEPT !.at = "rename"] \in ThreadStates
    BY <1>0, StageTyped DEF TypeOK, Stages
  <2>3. PICK f \in Files : Put(t, f, "write", [tmp[f] EXCEPT !.whole = TRUE, !.synced = TRUE], "rename")
    BY <1>8 DEF WriteTmp
  <2>4. tmp' = [tmp EXCEPT ![f] = [tmp[f] EXCEPT !.whole = TRUE, !.synced = TRUE]]
    BY <2>3 DEF Put
  <2>5. tmp' \in [Files -> [v : Versions \union {Torn}, whole : BOOLEAN, synced : BOOLEAN]]
    BY <1>0, <2>1, <2>4 DEF TypeOK
  <2>6. QED
    BY <1>0, <1>8, <2>1, <2>2, <2>3, <2>4, <2>5 DEF Put, TypeOK
<1>9. ASSUME NEW t \in Threads, RenameTmp(t) PROVE TypeOK'
  <2>1. th[t].cur \in Files /\ tmp[th[t].cur].v \in Versions \union {Torn}
    BY <1>0 DEF TypeOK, ThreadStates
  <2>2. [th[t] EXCEPT !.at = "syncDir"] \in ThreadStates
    BY <1>0, StageTyped DEF TypeOK, Stages
  <2>3. QED
    BY <1>0, <1>9, <2>1, <2>2 DEF RenameTmp, NoTmp, TypeOK
<1>10. ASSUME NEW t \in Threads, SyncDir(t) PROVE TypeOK'
  <2>1. Returns(t, TRUE)
    BY <1>10 DEF SyncDir
  <2>2. /\ saveMtx' = None
        /\ dirty' \in [Files -> BOOLEAN]
        /\ th' \in [Threads -> ThreadStates]
        /\ broken' \in [Files -> BOOLEAN]
    BY <1>0, <2>1, ReturnsTyped
  <2>3. th[t].cur \in Files /\ th[t].snap \in Versions
    BY <1>0 DEF TypeOK, ThreadStates, WriterInv, SnapsWhole
  <2>4. durable' = [durable EXCEPT ![th[t].cur] = {file[th[t].cur]}]
        /\ saved' = [saved EXCEPT ![th[t].cur] = th[t].snap]
    BY <1>10 DEF SyncDir
  <2>5. durable' \in [Files -> SUBSET (Versions \union {Torn})]
        /\ saved' \in [Files -> Versions]
    BY <1>0, <2>3, <2>4 DEF TypeOK
  <2>6. QED
    BY <1>0, <1>10, <2>2, <2>5 DEF SyncDir, TypeOK
<1>11. ASSUME NEW t \in Threads, SyncDirUnsupported(t) PROVE TypeOK'
  <2>1. Returns(t, TRUE)
    BY <1>11 DEF SyncDirUnsupported
  <2>2. /\ saveMtx' = None
        /\ dirty' \in [Files -> BOOLEAN]
        /\ th' \in [Threads -> ThreadStates]
        /\ broken' \in [Files -> BOOLEAN]
    BY <1>0, <2>1, ReturnsTyped
  <2>3. QED
    BY <1>0, <1>11, <2>1, <2>2 DEF SyncDirUnsupported, TypeOK
<1>12. ASSUME NEW t \in Threads, SyncDirFails(t) PROVE TypeOK'
  <2>1. Returns(t, FALSE)
    BY <1>12 DEF SyncDirFails
  <2>2. /\ saveMtx' = None
        /\ dirty' \in [Files -> BOOLEAN]
        /\ th' \in [Threads -> ThreadStates]
        /\ broken' \in [Files -> BOOLEAN]
    BY <1>0, <2>1, ReturnsTyped
  <2>3. left' \in Budgets
    BY <1>0, <1>12, SpentTyped DEF SyncDirFails, Fail, TypeOK
  <2>4. QED
    BY <1>0, <1>12, <2>1, <2>2, <2>3 DEF SyncDirFails, TypeOK
<1>13. ASSUME NEW t \in Threads, WriteFails(t) PROVE TypeOK'
  <2>1. Returns(t, FALSE)
    BY <1>13 DEF WriteFails
  <2>2. /\ saveMtx' = None
        /\ dirty' \in [Files -> BOOLEAN]
        /\ th' \in [Threads -> ThreadStates]
        /\ broken' \in [Files -> BOOLEAN]
    BY <1>0, <2>1, ReturnsTyped
  <2>3. left' \in Budgets
    BY <1>0, <1>13, SpentTyped DEF WriteFails, Fail, TypeOK
  <2>4. NoTmp \in [v : Versions \union {Torn}, whole : BOOLEAN, synced : BOOLEAN]
    BY DEF NoTmp
  <2>5. QED
    BY <1>0, <1>13, <2>1, <2>2, <2>3, <2>4 DEF WriteFails, TypeOK
<1>14. ASSUME NEW t \in Threads, SignsReturn(t) PROVE TypeOK'
  <2>1. Onward(th[t]) \in ThreadStates
    BY <1>0, OnwardTyped DEF TypeOK
  <2>2. th' = [th EXCEPT ![t] = Onward(th[t])]
    BY <1>14 DEF SignsReturn
  <2>3. th' \in [Threads -> ThreadStates]
    BY <1>0, <2>1, <2>2 DEF TypeOK
  <2>4. QED
    BY <1>0, <1>14, <2>1, <2>2, <2>3 DEF SignsReturn, TypeOK
<1>15. ASSUME NEW t \in Threads, JobDone(t) PROVE TypeOK'
  <2>1. Resting \in ThreadStates
    BY BoundsAssumption DEF Resting, ThreadStates, Stages, Jobs, Files, Versions
  <2>2. QED
    BY <1>0, <1>15, <2>1 DEF JobDone, TypeOK
<1>16. ASSUME NEW t \in Threads, Save(t) PROVE TypeOK'
  <2>1. Begin(t, "save", "world") /\ "save" \in Jobs /\ "world" \in Files /\ t \in Threads
    BY <1>16 DEF Save, Jobs, Files, Threads
  <2>2. th' \in [Threads -> ThreadStates] /\ since' \in [Threads -> [Files -> Versions]]
    BY <1>0, <2>1, BeginTyped
  <2>3. left' \in Budgets
    BY <1>0, <1>16, SpentTyped DEF TypeOK, Save, Command
  <2>4. QED
    BY <1>0, <1>16, <2>1, <2>2, <2>3 DEF Save, Command, TypeOK
<1>17. ASSUME NEW t \in Threads, SignsAddOrRm(t) PROVE TypeOK'
  <2>1. Begin(t, "signs", "signs") /\ "signs" \in Jobs /\ "signs" \in Files /\ t \in Threads
    BY <1>17 DEF SignsAddOrRm, Jobs, Files, Threads
  <2>2. th' \in [Threads -> ThreadStates] /\ since' \in [Threads -> [Files -> Versions]]
    BY <1>0, <2>1, BeginTyped
  <2>3. left' \in Budgets
    BY <1>0, <1>17, SpentTyped DEF TypeOK, SignsAddOrRm, Command
  <2>4. mem' \in [Files -> Versions] /\ dirty' \in [Files -> BOOLEAN] /\ version' \in Versions
    BY <1>0, <1>17, ChangeTyped DEF SignsAddOrRm
  <2>5. QED
    BY <1>0, <1>17, <2>1, <2>2, <2>3, <2>4 DEF SignsAddOrRm, Command, TypeOK
<1>18. ASSUME NEW t \in Threads, ControlStop(t) PROVE TypeOK'
  <2>1. Begin(t, "stop", "world") /\ "stop" \in Jobs /\ "world" \in Files /\ t \in Threads
    BY <1>18 DEF ControlStop, shutdownAndExit, Jobs, Files, Threads
  <2>2. th' \in [Threads -> ThreadStates] /\ since' \in [Threads -> [Files -> Versions]]
    BY <1>0, <2>1, BeginTyped
  <2>3. QED
    BY <1>0, <1>18, <2>1, <2>2 DEF ControlStop, shutdownAndExit, TypeOK
<1>19. ASSUME NEW t \in Threads, SignsReload(t) PROVE TypeOK'
  <2>1. [th[t] EXCEPT !.at = "read", !.job = "reload"] \in ThreadStates
    <3>1. th[t] \in ThreadStates
      BY <1>0 DEF TypeOK, Files
    <3>2. QED
      BY <3>1 DEF ThreadStates, Stages, Jobs
  <2>2. th' = [th EXCEPT ![t] = [th[t] EXCEPT !.at = "read", !.job = "reload"]]
    BY <1>19 DEF SignsReload
  <2>3. th' \in [Threads -> ThreadStates]
    BY <1>0, <2>1, <2>2 DEF TypeOK
  <2>4. left' \in Budgets
    BY <1>0, <1>19, SpentTyped DEF TypeOK, SignsReload
  <2>5. QED
    BY <1>0, <1>19, <2>1, <2>2, <2>3, <2>4 DEF SignsReload, TypeOK
<1>20. ASSUME NEW t \in Threads, ReloadRead(t) PROVE TypeOK'
  <2>1. [th[t] EXCEPT !.at = "assign", !.snap = file["signs"]] \in ThreadStates
    <3>1. th[t] \in ThreadStates /\ file["signs"] \in Versions \union {Torn}
      BY <1>0 DEF TypeOK, Files
    <3>2. QED
      BY <3>1 DEF ThreadStates, Stages, Jobs
  <2>2. th' = [th EXCEPT ![t] = [th[t] EXCEPT !.at = "assign", !.snap = file["signs"]]]
    BY <1>20 DEF ReloadRead
  <2>3. th' \in [Threads -> ThreadStates]
    BY <1>0, <2>1, <2>2 DEF TypeOK
  <2>4. QED
    BY <1>0, <1>20, <2>1, <2>2, <2>3 DEF ReloadRead, TypeOK
<1>21. ASSUME NEW t \in Threads, ReloadAssign(t) PROVE TypeOK'
  <2>1. [th[t] EXCEPT !.at = "done"] \in ThreadStates
    BY <1>0, StageTyped DEF TypeOK, Stages
  <2>2. th[t].snap \in Versions
    BY DEF WriterInv, SnapsWhole
  <2>3. QED
    BY <1>0, <1>21, <2>1, <2>2 DEF ReloadAssign, TypeOK
<1>22. ASSUME NEW t \in Threads, ReloadPrune(t) PROVE TypeOK'
  <2>1. Begin(t, "signs", "signs") /\ "signs" \in Jobs /\ "signs" \in Files /\ t \in Threads
    BY <1>22 DEF ReloadPrune, Jobs, Files, Threads
  <2>2. th' \in [Threads -> ThreadStates] /\ since' \in [Threads -> [Files -> Versions]]
    BY <1>0, <2>1, BeginTyped
  <2>3. mem' \in [Files -> Versions] /\ dirty' \in [Files -> BOOLEAN] /\ version' \in Versions
    BY <1>0, <1>22, ChangeTyped DEF ReloadPrune
  <2>4. QED
    BY <1>0, <1>22, <2>1, <2>2, <2>3 DEF ReloadPrune, TypeOK
<1>23. ASSUME Convert PROVE TypeOK'
  <2>1. /\ Begin(MainThread, "convert", "world")
        /\ "convert" \in Jobs
        /\ "world" \in Files
        /\ MainThread \in Threads
    BY <1>23 DEF Convert, Jobs, Files, Threads
  <2>2. th' \in [Threads -> ThreadStates] /\ since' \in [Threads -> [Files -> Versions]]
    BY <1>0, <2>1, BeginTyped
  <2>3. QED
    BY <1>0, <1>23, <2>1, <2>2 DEF Convert, TypeOK
<1>24. ASSUME LoadedBinary PROVE TypeOK'
  BY <1>0, <1>24 DEF LoadedBinary, TypeOK
<1>25. ASSUME pruneOrphanSigns PROVE TypeOK'
  <2>1. /\ Begin(MainThread, "signs", "signs")
        /\ "signs" \in Jobs
        /\ "signs" \in Files
        /\ MainThread \in Threads
    BY <1>25 DEF pruneOrphanSigns, Jobs, Files, Threads
  <2>2. th' \in [Threads -> ThreadStates] /\ since' \in [Threads -> [Files -> Versions]]
    BY <1>0, <2>1, BeginTyped
  <2>3. mem' \in [Files -> Versions] /\ dirty' \in [Files -> BOOLEAN] /\ version' \in Versions
    BY <1>0, <1>25, ChangeTyped DEF pruneOrphanSigns
  <2>4. QED
    BY <1>0, <1>25, <2>1, <2>2, <2>3 DEF pruneOrphanSigns, TypeOK
<1>26. ASSUME Listen PROVE TypeOK'
  BY <1>0, <1>26 DEF Listen, TypeOK
<1>27. ASSUME requestSave PROVE TypeOK'
  <2>1. left' \in Budgets
    BY <1>0, <1>27, SpentTyped DEF TypeOK, requestSave
  <2>2. QED
    BY <1>0, <1>27, <2>1 DEF requestSave, TypeOK
<1>28. ASSUME Clock PROVE TypeOK'
  BY <1>0, <1>28 DEF Clock, TypeOK
<1>29. ASSUME AutoBegin PROVE TypeOK'
  <2>1. Begin(AutoThread, due, "world") /\ due \in Jobs /\ "world" \in Files /\ AutoThread \in Threads
    BY <1>29 DEF AutoBegin, due, Jobs, Files, Threads
  <2>2. th' \in [Threads -> ThreadStates] /\ since' \in [Threads -> [Files -> Versions]]
    BY <1>0, <2>1, BeginTyped
  <2>3. QED
    BY <1>0, <1>29, <2>1, <2>2 DEF AutoBegin, begin, TypeOK
<1>30. ASSUME SignalStop PROVE TypeOK'
  <2>1. /\ Begin(MainThread, "stop", "world")
        /\ "stop" \in Jobs
        /\ "world" \in Files
        /\ MainThread \in Threads
    BY <1>30 DEF SignalStop, shutdownAndExit, Jobs, Files, Threads
  <2>2. th' \in [Threads -> ThreadStates] /\ since' \in [Threads -> [Files -> Versions]]
    BY <1>0, <2>1, BeginTyped
  <2>3. QED
    BY <1>0, <1>30, <2>1, <2>2 DEF SignalStop, shutdownAndExit, TypeOK
<1>31. ASSUME IdleStop PROVE TypeOK'
  <2>1. /\ Begin(AutoThread, "stop", "world")
        /\ "stop" \in Jobs
        /\ "world" \in Files
        /\ AutoThread \in Threads
    BY <1>31 DEF IdleStop, shutdownAndExit, Jobs, Files, Threads
  <2>2. th' \in [Threads -> ThreadStates] /\ since' \in [Threads -> [Files -> Versions]]
    BY <1>0, <2>1, BeginTyped
  <2>3. QED
    BY <1>0, <1>31, <2>1, <2>2 DEF IdleStop, shutdownAndExit, TypeOK
<1>32. ASSUME Restart PROVE TypeOK'
  <2>1. Resting \in ThreadStates
    BY BoundsAssumption DEF Resting, ThreadStates, Stages, Jobs, Files, Versions
  <2>2. Zero \in [Files -> Versions]
    BY BoundsAssumption DEF Zero, Versions
  <2>3. left' \in Budgets
    BY <1>0, <1>32, SpentTyped DEF TypeOK, Restart
  <2>4. NoTmp \in [v : Versions \union {Torn}, whole : BOOLEAN, synced : BOOLEAN]
    BY DEF NoTmp
  <2>5. /\ mem' \in [Files -> Versions]
        /\ file' \in [Files -> Versions \union {Torn}]
        /\ durable' \in [Files -> SUBSET (Versions \union {Torn})]
    BY <1>32 DEF Restart
  <2>6. QED
    BY <1>0, <1>32, <2>1, <2>2, <2>3, <2>4, <2>5 DEF Restart, TypeOK
<1>33. QED
  BY <1>1, <1>2, <1>3, <1>4, <1>5, <1>6, <1>7, <1>8, <1>9, <1>10, <1>11, <1>12, <1>13, <1>14,
     <1>15, <1>16, <1>17, <1>18, <1>19, <1>20, <1>21, <1>22, <1>23, <1>24, <1>25, <1>26, <1>27,
     <1>28, <1>29, <1>30, <1>31, <1>32 DEF Next, Step, SaveStep

-----------------------------------------------------------------------------
(* One writer, and whole files. *)

Writing == {"open", "write", "rename", "syncDir"}
WriterRest == OneWriter /\ CrashSafe /\ SnapsWhole /\ RenameReady

\* No thread moves and no file is touched.
LEMMA Elsewhere ==
    ASSUME WriterInv, UNCHANGED <<th, file, durable, tmp, saveMtx>>
    PROVE  WriterRest'
  BY DEF WriterInv, WriterRest, OneWriter, CrashSafe, SnapsWhole, RenameReady

\* A thread moves to a stage outside the write of a file.
LEMMA Aside ==
    ASSUME WriterInv, NEW t \in Threads, NEW r \in ThreadStates,
           UNCHANGED <<file, durable, tmp, saveMtx>>,
           th' = [th EXCEPT ![t] = r], r.at \notin Writing, r.snap \in Versions
    PROVE  WriterRest'
<1>1. \A u \in Threads : th'[u] = IF u = t THEN r ELSE th[u]
  BY DEF WriterInv, TypeOK
<1>2. OneWriter'
  BY <1>1 DEF WriterInv, OneWriter, Writing
<1>3. SnapsWhole'
  BY <1>1 DEF WriterInv, SnapsWhole
<1>4. RenameReady'
  BY <1>1 DEF WriterInv, RenameReady, Writing
<1>5. CrashSafe'
  BY DEF WriterInv, CrashSafe
<1>6. QED
  BY <1>2, <1>3, <1>4, <1>5 DEF WriterRest

\* A thread starts a job.
LEMMA Started ==
    ASSUME WriterInv, NEW t \in Threads, NEW job \in Jobs, NEW f \in Files, Begin(t, job, f),
           UNCHANGED <<file, durable, tmp, saveMtx>>
    PROVE  WriterRest'
<1> DEFINE r == [th[t] EXCEPT !.at = FirstStage(f), !.job = job, !.cur = f]
<1>1. th[t] \in ThreadStates /\ th[t].snap \in Versions /\ FirstStage(f) \in Stages \ Writing
  BY DEF WriterInv, TypeOK, SnapsWhole, FirstStage, Stages, Writing
<1>2. r \in ThreadStates /\ r.at \notin Writing /\ r.snap \in Versions
  BY <1>1 DEF ThreadStates
<1>3. th' = [th EXCEPT ![t] = r]
  BY DEF Begin
<1>4. QED
  BY <1>2, <1>3, Aside

\* While one thread writes a file, no other is between open and the directory's fsync.
LEMMA Alone ==
    ASSUME WriterInv, NEW t \in Threads, th[t].at \in Writing
    PROVE  saveMtx = t /\ \A u \in Threads \ {t} : th[u].at \notin Writing
  BY DEF WriterInv, OneWriter, Writing

\* The thread that writes goes on to another stage of the write: what the invariant asks of
\* it is asked of the file it writes.
LEMMA WriteMoves ==
    ASSUME WriterInv, NEW t \in Threads, saveMtx' = t,
           \A u \in Threads \ {t} : th[u].at \notin Writing,
           NEW stage \in Writing, th' = [th EXCEPT ![t].at = stage],
           stage \in {"write", "rename"} => tmp'[th[t].cur].v = th[t].snap,
           stage = "rename" => tmp'[th[t].cur].whole /\ tmp'[th[t].cur].synced,
           CrashSafe'
    PROVE  WriterRest'
<1>1. \A u \in Threads : /\ th'[u].at = IF u = t THEN stage ELSE th[u].at
                         /\ th'[u].cur = th[u].cur /\ th'[u].snap = th[u].snap
  <2>1. \A u \in Threads : th[u] \in ThreadStates
    BY DEF WriterInv, TypeOK
  <2>2. \A u \in Threads : th'[u] = IF u = t THEN [th[t] EXCEPT !.at = stage] ELSE th[u]
    BY DEF WriterInv, TypeOK
  <2>3. QED
    BY <2>1, <2>2 DEF ThreadStates
<1>2. OneWriter'
  BY <1>1 DEF OneWriter, Writing
<1>3. SnapsWhole'
  BY <1>1 DEF WriterInv, SnapsWhole
<1>4. RenameReady'
  BY <1>1 DEF RenameReady, Writing
<1>5. QED
  BY <1>2, <1>3, <1>4 DEF WriterRest

\* The write ends, well or badly, and g_saveMtx is released.
LEMMA WriteEnds ==
    ASSUME WriterInv, NEW t \in Threads, th[t].at \in Writing, NEW ok \in BOOLEAN,
           Returns(t, ok), CrashSafe'
    PROVE  WriterRest'
<1>1. \A u \in Threads \ {t} : th[u].at \notin Writing
  BY Alone
<1>2. th[t] \in ThreadStates /\ th[t].snap \in Versions
  BY DEF WriterInv, TypeOK, SnapsWhole
<1>3. PICK r : th' = [th EXCEPT ![t] = r] /\ r.at \notin Writing /\ r.snap \in Versions
  <2>1. CASE th[t].cur = "signs"
    <3>1. th' = [th EXCEPT ![t] = [th[t] EXCEPT !.at = "flag", !.ok = ok]]
      BY <2>1 DEF Returns
    <3>2. [th[t] EXCEPT !.at = "flag", !.ok = ok].at = "flag"
          /\ [th[t] EXCEPT !.at = "flag", !.ok = ok].snap = th[t].snap
      BY <1>2 DEF ThreadStates
    <3>3. QED
      BY <1>2, <3>1, <3>2 DEF Writing
  <2>2. CASE th[t].cur # "signs"
    <3>1. th' = [th EXCEPT ![t] = Onward(th[t])]
      BY <2>2 DEF Returns
    <3>2. Onward(th[t]).at \notin Writing /\ Onward(th[t]).snap = th[t].snap
      BY <1>2 DEF Onward, Writing, ThreadStates, Files
    <3>3. QED
      BY <1>2, <3>1, <3>2
  <2>3. QED
    BY <2>1, <2>2
<1>4. \A u \in Threads : th'[u] = IF u = t THEN r ELSE th[u]
  BY <1>3 DEF WriterInv, TypeOK
<1>5. \A u \in Threads : th'[u].at \notin Writing
  BY <1>1, <1>3, <1>4
<1>6. OneWriter' /\ RenameReady'
  BY <1>5 DEF OneWriter, RenameReady, Writing
<1>7. SnapsWhole'
  BY <1>3, <1>4 DEF WriterInv, SnapsWhole
<1>8. QED
  BY <1>6, <1>7 DEF WriterRest

LEMMA WriterStep == WriterInv /\ [Next]_vars => WriterRest'
<1> SUFFICES ASSUME WriterInv, [Next]_vars PROVE WriterRest'
  OBVIOUS
<1> USE DEF disk, locks, history
<1>0. TypeOK /\ OneWriter /\ CrashSafe /\ SnapsWhole /\ RenameReady
  BY DEF WriterInv
<1>1. CASE UNCHANGED vars
  BY <1>1, Elsewhere DEF vars
<1>2. ASSUME NEW fs \in EditKinds, Edit(fs) PROVE WriterRest'
  BY <1>2, Elsewhere DEF Edit
<1>3. ASSUME NEW t \in Threads, SignsSerial(t) PROVE WriterRest'
  <2>1. th[t] \in ThreadStates /\ th[t].snap \in Versions
    BY <1>0 DEF TypeOK, SnapsWhole, Files
  <2>2. /\ [th[t] EXCEPT !.at = "snapshot"] \in ThreadStates
        /\ [th[t] EXCEPT !.at = "snapshot"].at \notin Writing
        /\ [th[t] EXCEPT !.at = "snapshot"].snap \in Versions
    BY <2>1 DEF ThreadStates, Stages, Jobs, Writing
  <2>3. QED
    BY <1>3, <2>2, Aside DEF SignsSerial
<1>4. ASSUME NEW t \in Threads, Snapshot(t) PROVE WriterRest'
  <2>1. th[t] \in ThreadStates /\ mem[th[t].cur] \in Versions
    BY <1>0 DEF TypeOK, ThreadStates
  <2>2. /\ [th[t] EXCEPT !.at = "lock", !.snap = mem[th[t].cur]] \in ThreadStates
        /\ [th[t] EXCEPT !.at = "lock", !.snap = mem[th[t].cur]].at \notin Writing
        /\ [th[t] EXCEPT !.at = "lock", !.snap = mem[th[t].cur]].snap \in Versions
    BY <2>1 DEF ThreadStates, Stages, Jobs, Writing
  <2>3. QED
    BY <1>4, <2>2, Aside DEF Snapshot
<1>5. ASSUME NEW t \in Threads, NothingChanged(t) PROVE WriterRest'
  <2>1. th[t] \in ThreadStates /\ th[t].snap \in Versions
    BY <1>0 DEF TypeOK, SnapsWhole
  <2>2. Onward(th[t]) \in ThreadStates /\ Onward(th[t]).snap \in Versions
    BY <2>1, OnwardTyped
  <2>3. Onward(th[t]).at \notin Writing
    BY <2>1 DEF Onward, ThreadStates, Files, Writing
  <2>4. QED
    BY <1>5, <2>2, <2>3, Aside DEF NothingChanged
<1>6. ASSUME NEW t \in Threads, SaveLock(t) PROVE WriterRest'
  <2>1. saveMtx' = t /\ th' = [th EXCEPT ![t].at = "open"] /\ UNCHANGED <<file, durable, tmp>>
    BY <1>6 DEF SaveLock
  <2>2. \A u \in Threads : th[u].at \notin Writing
    BY <1>0, <1>6, ThreadsAssumption DEF SaveLock, OneWriter, Writing
  <2>3. CrashSafe'
    BY <1>0, <2>1 DEF CrashSafe
  <2>4. QED
    BY <2>1, <2>2, <2>3, WriteMoves DEF Writing
<1>7. ASSUME NEW t \in Threads, OpenTmp(t) PROVE WriterRest'
  <2>1. PICK f \in Files :
          Put(t, f, "open", [v |-> th[t].snap, whole |-> FALSE, synced |-> FALSE], "write")
    BY <1>7 DEF OpenTmp
  <2>2. /\ f = th[t].cur /\ th' = [th EXCEPT ![t].at = "write"]
        /\ tmp' = [tmp EXCEPT ![f] = [v |-> th[t].snap, whole |-> FALSE, synced |-> FALSE]]
        /\ th[t].at = "open" /\ UNCHANGED <<file, durable, saveMtx>>
    BY <2>1 DEF Put, At
  <2>3. tmp'[th[t].cur].v = th[t].snap
    BY <1>0, <2>2 DEF TypeOK
  <2>4. saveMtx' = t /\ \A u \in Threads \ {t} : th[u].at \notin Writing
    BY <2>2, Alone DEF Writing
  <2>5. CrashSafe'
    BY <1>0, <2>2 DEF CrashSafe
  <2>6. QED
    BY <2>2, <2>3, <2>4, <2>5, WriteMoves DEF Writing
<1>8. ASSUME NEW t \in Threads, WriteTmp(t) PROVE WriterRest'
  <2>1. PICK f \in Files :
          Put(t, f, "write", [tmp[f] EXCEPT !.whole = TRUE, !.synced = TRUE], "rename")
    BY <1>8 DEF WriteTmp
  <2>2. /\ f = th[t].cur /\ th' = [th EXCEPT ![t].at = "rename"]
        /\ tmp' = [tmp EXCEPT ![f] = [tmp[f] EXCEPT !.whole = TRUE, !.synced = TRUE]]
        /\ th[t].at = "write" /\ UNCHANGED <<file, durable, saveMtx>>
    BY <2>1 DEF Put, At
  <2>3. tmp[f] \in [v : Versions \union {Torn}, whole : BOOLEAN, synced : BOOLEAN]
        /\ tmp'[f] = [tmp[f] EXCEPT !.whole = TRUE, !.synced = TRUE]
    BY <1>0, <2>2 DEF TypeOK
  <2>4. tmp'[f].v = tmp[f].v /\ tmp'[f].whole /\ tmp'[f].synced
    BY <2>3
  <2>5. tmp[f].v = th[t].snap
    BY <1>0, <2>2 DEF OneWriter
  <2>6. saveMtx' = t /\ \A u \in Threads \ {t} : th[u].at \notin Writing
    BY <2>2, Alone DEF Writing
  <2>7. CrashSafe'
    BY <1>0, <2>2 DEF CrashSafe
  <2>8. QED
    BY <2>2, <2>4, <2>5, <2>6, <2>7, WriteMoves DEF Writing
<1>9. ASSUME NEW t \in Threads, RenameTmp(t) PROVE WriterRest'
  <2> DEFINE f == th[t].cur
  <2>1. /\ th[t].at = "rename" /\ f \in Files /\ UNCHANGED saveMtx
        /\ th' = [th EXCEPT ![t].at = "syncDir"]
    BY <1>0, <1>9 DEF RenameTmp, At, TypeOK, ThreadStates
  <2>2. tmp[f].v \in Versions /\ tmp[f].whole /\ tmp[f].synced
    BY <1>0, <2>1 DEF OneWriter, SnapsWhole, RenameReady
  <2>3. /\ file' = [file EXCEPT ![f] = tmp[f].v]
        /\ durable' = [durable EXCEPT ![f] = durable[f] \union {tmp[f].v}]
    BY <2>2, <1>9 DEF RenameTmp
  <2>4. tmp[f].v # Torn
    BY <2>2 DEF Versions, Torn
  <2>5. CrashSafe'
    BY <1>0, <2>3, <2>4 DEF CrashSafe, TypeOK
  <2>6. saveMtx' = t /\ \A u \in Threads \ {t} : th[u].at \notin Writing
    BY <2>1, Alone DEF Writing
  <2>7. QED
    BY <2>1, <2>5, <2>6, WriteMoves DEF Writing
<1>10. ASSUME NEW t \in Threads, SyncDir(t) PROVE WriterRest'
  <2>1. th[t].at \in Writing /\ Returns(t, TRUE)
    BY <1>10 DEF SyncDir, At, Writing
  <2>2. CrashSafe'
    BY <1>0, <1>10 DEF SyncDir, CrashSafe, TypeOK
  <2>3. QED
    BY <2>1, <2>2, WriteEnds
<1>11. ASSUME NEW t \in Threads, SyncDirUnsupported(t) PROVE WriterRest'
  <2>1. th[t].at \in Writing /\ Returns(t, TRUE)
    BY <1>11 DEF SyncDirUnsupported, At, Writing
  <2>2. CrashSafe'
    BY <1>0, <1>11 DEF SyncDirUnsupported, CrashSafe
  <2>3. QED
    BY <2>1, <2>2, WriteEnds
<1>12. ASSUME NEW t \in Threads, SyncDirFails(t) PROVE WriterRest'
  <2>1. th[t].at \in Writing /\ Returns(t, FALSE)
    BY <1>12 DEF SyncDirFails, At, Writing
  <2>2. CrashSafe'
    BY <1>0, <1>12 DEF SyncDirFails, CrashSafe
  <2>3. QED
    BY <2>1, <2>2, WriteEnds
<1>13. ASSUME NEW t \in Threads, WriteFails(t) PROVE WriterRest'
  <2>1. th[t].at \in Writing /\ Returns(t, FALSE)
    BY <1>13 DEF WriteFails, At, Writing
  <2>2. CrashSafe'
    BY <1>0, <1>13 DEF WriteFails, CrashSafe
  <2>3. QED
    BY <2>1, <2>2, WriteEnds
<1>14. ASSUME NEW t \in Threads, SignsReturn(t) PROVE WriterRest'
  <2>1. th[t] \in ThreadStates /\ th[t].snap \in Versions
    BY <1>0 DEF TypeOK, SnapsWhole
  <2>2. Onward(th[t]) \in ThreadStates /\ Onward(th[t]).snap \in Versions
    BY <2>1, OnwardTyped
  <2>3. Onward(th[t]).at \notin Writing
    BY <2>1 DEF Onward, ThreadStates, Files, Writing
  <2>4. QED
    BY <1>14, <2>2, <2>3, Aside DEF SignsReturn
<1>15. ASSUME NEW t \in Threads, JobDone(t) PROVE WriterRest'
  <2>1. Resting \in ThreadStates /\ Resting.at \notin Writing /\ Resting.snap \in Versions
    BY BoundsAssumption DEF Resting, ThreadStates, Stages, Jobs, Files, Versions, Writing
  <2>2. QED
    BY <1>15, <2>1, Aside DEF JobDone
<1>16. ASSUME NEW t \in Threads, Save(t) PROVE WriterRest'
  <2>1. Begin(t, "save", "world") /\ "save" \in Jobs /\ "world" \in Files /\ t \in Threads
    BY <1>16 DEF Save, Jobs, Files, Threads
  <2>2. UNCHANGED <<file, durable, tmp, saveMtx>>
    BY <1>16 DEF Save
  <2>3. QED
    BY <2>1, <2>2, Started
<1>17. ASSUME NEW t \in Threads, SignsAddOrRm(t) PROVE WriterRest'
  <2>1. Begin(t, "signs", "signs") /\ "signs" \in Jobs /\ "signs" \in Files /\ t \in Threads
    BY <1>17 DEF SignsAddOrRm, Jobs, Files, Threads
  <2>2. UNCHANGED <<file, durable, tmp, saveMtx>>
    BY <1>17 DEF SignsAddOrRm
  <2>3. QED
    BY <2>1, <2>2, Started
<1>18. ASSUME NEW t \in Threads, ControlStop(t) PROVE WriterRest'
  <2>1. Begin(t, "stop", "world") /\ "stop" \in Jobs /\ "world" \in Files /\ t \in Threads
    BY <1>18 DEF ControlStop, shutdownAndExit, Jobs, Files, Threads
  <2>2. UNCHANGED <<file, durable, tmp, saveMtx>>
    BY <1>18 DEF ControlStop, shutdownAndExit
  <2>3. QED
    BY <2>1, <2>2, Started
<1>19. ASSUME NEW t \in Threads, SignsReload(t) PROVE WriterRest'
  <2>1. th[t] \in ThreadStates /\ th[t].snap \in Versions
    BY <1>0 DEF TypeOK, SnapsWhole, Files
  <2>2. /\ [th[t] EXCEPT !.at = "read", !.job = "reload"] \in ThreadStates
        /\ [th[t] EXCEPT !.at = "read", !.job = "reload"].at \notin Writing
        /\ [th[t] EXCEPT !.at = "read", !.job = "reload"].snap \in Versions
    BY <2>1 DEF ThreadStates, Stages, Jobs, Writing
  <2>3. QED
    BY <1>19, <2>2, Aside DEF SignsReload
<1>20. ASSUME NEW t \in Threads, ReloadRead(t) PROVE WriterRest'
  <2>1. th[t] \in ThreadStates /\ file["signs"] \in Versions
    BY <1>0 DEF TypeOK, CrashSafe, Files
  <2>2. /\ [th[t] EXCEPT !.at = "assign", !.snap = file["signs"]] \in ThreadStates
        /\ [th[t] EXCEPT !.at = "assign", !.snap = file["signs"]].at \notin Writing
        /\ [th[t] EXCEPT !.at = "assign", !.snap = file["signs"]].snap \in Versions
    BY <2>1 DEF ThreadStates, Stages, Jobs, Writing
  <2>3. QED
    BY <1>20, <2>2, Aside DEF ReloadRead
<1>21. ASSUME NEW t \in Threads, ReloadAssign(t) PROVE WriterRest'
  <2>1. th[t] \in ThreadStates /\ th[t].snap \in Versions
    BY <1>0 DEF TypeOK, SnapsWhole, Files
  <2>2. /\ [th[t] EXCEPT !.at = "done"] \in ThreadStates
        /\ [th[t] EXCEPT !.at = "done"].at \notin Writing
        /\ [th[t] EXCEPT !.at = "done"].snap \in Versions
    BY <2>1 DEF ThreadStates, Stages, Jobs, Writing
  <2>3. QED
    BY <1>21, <2>2, Aside DEF ReloadAssign
<1>22. ASSUME NEW t \in Threads, ReloadPrune(t) PROVE WriterRest'
  <2>1. Begin(t, "signs", "signs") /\ "signs" \in Jobs /\ "signs" \in Files /\ t \in Threads
    BY <1>22 DEF ReloadPrune, Jobs, Files, Threads
  <2>2. UNCHANGED <<file, durable, tmp, saveMtx>>
    BY <1>22 DEF ReloadPrune
  <2>3. QED
    BY <2>1, <2>2, Started
<1>23. ASSUME Convert PROVE WriterRest'
  <2>1. /\ Begin(MainThread, "convert", "world")
        /\ "convert" \in Jobs
        /\ "world" \in Files
        /\ MainThread \in Threads
    BY <1>23 DEF Convert, Jobs, Files, Threads
  <2>2. UNCHANGED <<file, durable, tmp, saveMtx>>
    BY <1>23 DEF Convert
  <2>3. QED
    BY <2>1, <2>2, Started
<1>24. ASSUME LoadedBinary PROVE WriterRest'
  BY <1>24, Elsewhere DEF LoadedBinary
<1>25. ASSUME pruneOrphanSigns PROVE WriterRest'
  <2>1. /\ Begin(MainThread, "signs", "signs")
        /\ "signs" \in Jobs
        /\ "signs" \in Files
        /\ MainThread \in Threads
    BY <1>25 DEF pruneOrphanSigns, Jobs, Files, Threads
  <2>2. UNCHANGED <<file, durable, tmp, saveMtx>>
    BY <1>25 DEF pruneOrphanSigns
  <2>3. QED
    BY <2>1, <2>2, Started
<1>26. ASSUME Listen PROVE WriterRest'
  BY <1>26, Elsewhere DEF Listen
<1>27. ASSUME requestSave PROVE WriterRest'
  BY <1>27, Elsewhere DEF requestSave
<1>28. ASSUME Clock PROVE WriterRest'
  BY <1>28, Elsewhere DEF Clock
<1>29. ASSUME AutoBegin PROVE WriterRest'
  <2>1. Begin(AutoThread, due, "world") /\ due \in Jobs /\ "world" \in Files /\ AutoThread \in Threads
    BY <1>29 DEF AutoBegin, Jobs, Files, Threads, due
  <2>2. UNCHANGED <<file, durable, tmp, saveMtx>>
    BY <1>29 DEF AutoBegin
  <2>3. QED
    BY <2>1, <2>2, Started
<1>30. ASSUME SignalStop PROVE WriterRest'
  <2>1. /\ Begin(MainThread, "stop", "world")
        /\ "stop" \in Jobs
        /\ "world" \in Files
        /\ MainThread \in Threads
    BY <1>30 DEF SignalStop, shutdownAndExit, Jobs, Files, Threads
  <2>2. UNCHANGED <<file, durable, tmp, saveMtx>>
    BY <1>30 DEF SignalStop, shutdownAndExit
  <2>3. QED
    BY <2>1, <2>2, Started
<1>31. ASSUME IdleStop PROVE WriterRest'
  <2>1. /\ Begin(AutoThread, "stop", "world")
        /\ "stop" \in Jobs
        /\ "world" \in Files
        /\ AutoThread \in Threads
    BY <1>31 DEF IdleStop, shutdownAndExit, Jobs, Files, Threads
  <2>2. UNCHANGED <<file, durable, tmp, saveMtx>>
    BY <1>31 DEF IdleStop, shutdownAndExit
  <2>3. QED
    BY <2>1, <2>2, Started
<1>32. ASSUME Restart PROVE WriterRest'
  <2>1. \A u \in Threads : th'[u] = Resting
    BY <1>32 DEF Restart
  <2>2. OneWriter' /\ RenameReady' /\ SnapsWhole'
    BY <2>1, BoundsAssumption DEF OneWriter, RenameReady, SnapsWhole, Resting, Versions
  <2>3. CrashSafe'
    BY <1>32 DEF Restart, CrashSafe, Versions, Torn
  <2>4. QED
    BY <2>2, <2>3 DEF WriterRest
<1>33. QED
  BY <1>1, <1>2, <1>3, <1>4, <1>5, <1>6, <1>7, <1>8, <1>9, <1>10, <1>11, <1>12, <1>13, <1>14,
     <1>15, <1>16, <1>17, <1>18, <1>19, <1>20, <1>21, <1>22, <1>23, <1>24, <1>25, <1>26, <1>27,
     <1>28, <1>29, <1>30, <1>31, <1>32 DEF Next, Step, SaveStep

LEMMA WriterKept == Spec => []WriterInv
<1>1. WriterInv /\ [Next]_vars => WriterInv'
  BY TypesStep, WriterStep DEF WriterInv, WriterRest
<1>2. QED
  BY <1>1, WriterInit, PTL DEF Spec

\* Every variable of the persistence model keeps its type.
THEOREM PersistTypes == Spec => []TypeOK
<1>1. WriterInv => TypeOK
  BY DEF WriterInv
<1>2. QED
  BY <1>1, WriterKept, PTL

\* g_saveMtx gives every temp file one writer, which finds there what it wrote
\* (writeFileAtomic and its callers).
THEOREM TempFilesHaveOneWriter == Spec => []OneWriter
<1>1. WriterInv => OneWriter
  BY DEF WriterInv
<1>2. QED
  BY <1>1, WriterKept, PTL

\* "Never a zero-length or partial one" (durable_write.h): no crash, failure or race leaves
\* a file that is not a whole copy of what a save took.
THEOREM FilesAreWhole == Spec => []CrashSafe
<1>1. WriterInv => CrashSafe
  BY DEF WriterInv
<1>2. QED
  BY <1>1, WriterKept, PTL

-----------------------------------------------------------------------------
(***************************************************************************)
(* The sign file, when no `signs reload` runs (one that does breaks these  *)
(* properties: ReloadKeepsSigns).  What saveSigns carries from its         *)
(* snapshot to its return, while it holds g_signSaveMtx, is never older    *)
(* than the file, and is all there is unless the flag has been set again.  *)
(***************************************************************************)
SignStages == {"snapshot", "lock", "open", "write", "rename", "syncDir", "flag"}
InSigns(r) == r.cur = "signs" /\ r.at \in SignStages

\* What the thread in saveSigns has got, for the file, list and flag as they are.
Carries(r, f, m, d) ==
    /\ r.at = "snapshot" => d \/ f = m
    /\ r.at \in {"lock", "open", "write", "rename"} => f <= r.snap /\ r.snap <= m /\ (d \/ r.snap = m)
    /\ r.at = "syncDir" => f = r.snap /\ (d \/ r.snap = m)
    /\ r.at = "flag" => ~r.ok \/ d \/ f = m

Serialised == \A t \in Threads : InSigns(th[t]) <=> signMtx = t
StagesOfSigns == \A t \in Threads : th[t].at \in {"serial", "flag"} => th[t].cur = "signs"
NoReloads == \A t \in Threads : th[t].at \notin {"read", "assign"} /\ th[t].job # "reload"
SignsOrdered ==
    /\ saved["signs"] <= file["signs"] /\ file["signs"] <= mem["signs"] /\ mem["signs"] <= version
    /\ \A v \in durable["signs"] : saved["signs"] <= v /\ v <= file["signs"]
SaverCarries ==
    \A t \in Threads : InSigns(th[t]) => Carries(th[t], file["signs"], mem["signs"], dirty["signs"])
RestIsSaved == signMtx = None => dirty["signs"] \/ file["signs"] = mem["signs"]

SignInv == Serialised /\ StagesOfSigns /\ NoReloads /\ SignsOrdered /\ SaverCarries /\ RestIsSaved

LEMMA SignsAreNumbers ==
    ASSUME WriterInv
    PROVE  /\ "signs" \in Files /\ mem["signs"] \in Nat /\ file["signs"] \in Nat
           /\ saved["signs"] \in Nat /\ version \in Nat /\ dirty["signs"] \in BOOLEAN
           /\ durable["signs"] \subseteq Nat
           /\ \A t \in Threads : th[t].snap \in Nat
<1>1. Versions \subseteq Nat /\ Versions \union {Torn} \subseteq Int
  BY BoundsAssumption DEF Versions, Torn
<1>2. "signs" \in Files
  BY DEF Files
<1>3. \A v \in Versions \union {Torn} : v # Torn => v \in Nat
  BY <1>1
<1>4. QED
  BY <1>1, <1>2, <1>3 DEF WriterInv, TypeOK, CrashSafe, SnapsWhole

LEMMA SignsInit == Init => SignInv
<1> SUFFICES ASSUME Init PROVE SignInv
  OBVIOUS
<1>1. "signs" \in Files /\ \A t \in Threads : th[t] = Resting /\ signMtx # t
  BY ThreadsAssumption DEF Init, Files
<1>2. ~InSigns(Resting) /\ Resting.at = "idle" /\ Resting.job # "reload"
  BY DEF InSigns, Resting, SignStages, None
<1>3. Serialised /\ StagesOfSigns /\ NoReloads /\ SaverCarries
  BY <1>1, <1>2 DEF Serialised, StagesOfSigns, NoReloads, SaverCarries
<1>4. SignsOrdered /\ RestIsSaved
  BY <1>1 DEF Init, SignsOrdered, RestIsSaved, Zero
<1>5. QED
  BY <1>3, <1>4 DEF SignInv

\* A step in which nobody enters, leaves or moves inside saveSigns, and the list is left
\* alone or gets a change later than any other.
Outside(r) ==
    /\ ~InSigns(r) /\ r.at \notin {"read", "assign"} /\ r.job # "reload"
    /\ r.at \in {"serial", "flag"} => r.cur = "signs"

LEMMA Bystander ==
    ASSUME WriterInv, SignInv, UNCHANGED <<file["signs"], durable["signs"], saved["signs"], signMtx>>,
           version' \in Nat, version <= version',
           \/ UNCHANGED <<mem["signs"], dirty["signs"]>>
           \/ dirty'["signs"] /\ mem'["signs"] = version',
           \A u \in Threads : th'[u] = th[u] \/ (Outside(th[u]) /\ Outside(th'[u]))
    PROVE  SignInv'
<1>1. UNCHANGED <<file["signs"], durable["signs"], saved["signs"], signMtx>>
  OBVIOUS
<1>2. Serialised'
  BY <1>1 DEF SignInv, Serialised, Outside
<1>3. StagesOfSigns' /\ NoReloads'
  BY DEF SignInv, StagesOfSigns, NoReloads, Outside
<1>4. SignsOrdered'
  BY <1>1, SignsAreNumbers DEF SignInv, SignsOrdered
<1>5. RestIsSaved'
  BY <1>1 DEF SignInv, RestIsSaved
<1>6. ASSUME NEW u \in Threads, InSigns(th'[u])
      PROVE  Carries(th'[u], file'["signs"], mem'["signs"], dirty'["signs"])
  <2>1. th'[u] = th[u] /\ Carries(th[u], file["signs"], mem["signs"], dirty["signs"])
    BY <1>6 DEF SignInv, SaverCarries, Outside
  <2>2. mem["signs"] <= mem'["signs"]
    BY SignsAreNumbers DEF SignInv, SignsOrdered
  <2>3. mem'["signs"] \in Nat /\ th[u].snap \in Nat
    BY SignsAreNumbers
  <2>4. QED
    BY <1>1, <2>1, <2>2, <2>3, SignsAreNumbers DEF Carries
<1>7. QED
  BY <1>2, <1>3, <1>4, <1>5, <1>6 DEF SignInv, SaverCarries

\* A step of the thread inside saveSigns, or of the one that enters.
LEMMA Saver ==
    ASSUME WriterInv, SignInv, NEW t \in Threads, signMtx \in {None, t},
           NEW r, th' = [th EXCEPT ![t] = r],
           r.at \notin {"read", "assign"}, r.job # "reload",
           r.at \in {"serial", "flag"} => r.cur = "signs",
           SignsOrdered',
           \/ /\ InSigns(r) /\ signMtx' = t
              /\ Carries(r, file'["signs"], mem'["signs"], dirty'["signs"])
           \/ /\ ~InSigns(r) /\ signMtx' = None
              /\ dirty'["signs"] \/ file'["signs"] = mem'["signs"]
    PROVE  SignInv'
<1>1. \A u \in Threads : th'[u] = IF u = t THEN r ELSE th[u]
  BY DEF WriterInv, TypeOK
<1>2. t # None /\ \A u \in Threads \ {t} : ~InSigns(th[u])
  BY ThreadsAssumption DEF SignInv, Serialised
<1>3. Serialised'
  BY <1>1, <1>2, ThreadsAssumption DEF Serialised
<1>4. StagesOfSigns' /\ NoReloads'
  BY <1>1 DEF SignInv, StagesOfSigns, NoReloads
<1>5. SaverCarries'
  BY <1>1, <1>2 DEF SaverCarries
<1>6. RestIsSaved'
  BY <1>2 DEF RestIsSaved
<1>7. QED
  BY <1>3, <1>4, <1>5, <1>6 DEF SignInv

\* A change gets a number of its own, and one of the signs sets their flag.
LEMMA ChangeSigns ==
    ASSUME TypeOK, NEW fs, change(fs)
    PROVE  /\ version' \in Nat /\ version <= version'
           /\ "signs" \in fs => dirty'["signs"] /\ mem'["signs"] = version'
           /\ "signs" \notin fs => UNCHANGED <<mem["signs"], dirty["signs"]>>
<1>1. "signs" \in Files /\ version \in Nat
  BY BoundsAssumption DEF TypeOK, Versions, Files
<1>2. /\ version' = version + 1
      /\ mem'["signs"] = IF "signs" \in fs THEN version + 1 ELSE mem["signs"]
      /\ dirty'["signs"] = ("signs" \in fs \/ dirty["signs"])
  BY <1>1 DEF change
<1>3. "signs" \in fs => dirty'["signs"]
  BY <1>2
<1>4. "signs" \notin fs => dirty'["signs"] = dirty["signs"]
  <2>1. dirty["signs"] \in BOOLEAN
    BY <1>1 DEF TypeOK
  <2>2. QED
    BY <1>2, <2>1
<1>5. QED
  BY <1>1, <1>2, <1>3, <1>4

\* A thread that starts a job was, and is, not in the middle of saveSigns.
LEMMA StartsOutside ==
    ASSUME TypeOK, NoReloads, NEW t \in Threads, NEW job, NEW f \in Files, Begin(t, job, f),
           job # "reload", th[t].at \in {"idle", "done"}
    PROVE  \A u \in Threads : th'[u] = th[u] \/ (Outside(th[u]) /\ Outside(th'[u]))
<1>1. th[t] \in ThreadStates /\ th[t].job # "reload"
  BY DEF TypeOK, NoReloads
<1>2. /\ th'[t] = [th[t] EXCEPT !.at = FirstStage(f), !.job = job, !.cur = f]
      /\ \A u \in Threads \ {t} : th'[u] = th[u]
  BY DEF TypeOK, Begin
<1>3. th'[t].at = FirstStage(f) /\ th'[t].job = job /\ th'[t].cur = f
  BY <1>1, <1>2 DEF ThreadStates
<1>4. Outside(th[t])
  BY <1>1 DEF Outside, InSigns, SignStages
<1>5. Outside(th'[t])
  BY <1>3 DEF Outside, InSigns, SignStages, FirstStage
<1>6. QED
  BY <1>2, <1>4, <1>5

\* The end of a write of another file is nothing to the signs.
LEMMA EndsOutside ==
    ASSUME TypeOK, NoReloads, NEW t \in Threads, NEW ok \in BOOLEAN, Returns(t, ok),
           th[t].cur # "signs", th[t].at \in Writing
    PROVE  /\ dirty'["signs"] = dirty["signs"]
           /\ \A u \in Threads : th'[u] = th[u] \/ (Outside(th[u]) /\ Outside(th'[u]))
<1>1. th[t] \in ThreadStates /\ th[t].job # "reload" /\ "signs" \in Files
  BY DEF TypeOK, NoReloads, Files
<1>2. dirty'["signs"] = dirty["signs"]
  BY <1>1 DEF Returns, TypeOK
<1>3. \A u \in Threads : th'[u] = IF u = t THEN Onward(th[t]) ELSE th[u]
  BY DEF Returns, TypeOK
<1>4. Outside(Onward(th[t]))
  BY <1>1 DEF Outside, InSigns, SignStages, Onward, ThreadStates, Files
<1>5. Outside(th[t])
  BY <1>1 DEF Outside, InSigns, Writing
<1>6. QED
  BY <1>2, <1>3, <1>4, <1>5

\* The end of a write of the sign file: on to the flag, with g_signSaveMtx still held.
LEMMA EndsInside ==
    ASSUME MaxReloads = 0, WriterInv, SignInv, NEW t \in Threads, NEW ok \in BOOLEAN, Returns(t, ok),
           th[t].cur = "signs", th[t].at \in Writing,
           ok => th[t].at = "syncDir",
           UNCHANGED <<mem, file, signMtx>>, SignsOrdered'
    PROVE  SignInv'
<1> DEFINE r == [th[t] EXCEPT !.at = "flag", !.ok = ok]
<1>1. th[t] \in ThreadStates /\ th[t].job # "reload" /\ "signs" \in Files /\ InSigns(th[t])
  BY DEF WriterInv, TypeOK, SignInv, NoReloads, Files, Writing, InSigns, SignStages
<1>2. signMtx = t /\ Carries(th[t], file["signs"], mem["signs"], dirty["signs"])
  BY <1>1 DEF SignInv, Serialised, SaverCarries
<1>3. r.at = "flag" /\ r.cur = "signs" /\ r.job # "reload" /\ r.ok = ok
  BY <1>1 DEF ThreadStates
<1>4. th' = [th EXCEPT ![t] = r] /\ dirty'["signs"] = dirty["signs"]
  BY <1>1 DEF Returns, WriterInv, TypeOK
<1>5. InSigns(r) /\ Carries(r, file'["signs"], mem'["signs"], dirty'["signs"])
  BY <1>2, <1>3, <1>4 DEF InSigns, SignStages, Carries
<1> HIDE DEF r
<1>6. QED
  BY <1>2, <1>3, <1>4, <1>5, Saver

LEMMA SignsStep ==
    ASSUME MaxReloads = 0, WriterInv, SignInv, [Next]_vars
    PROVE  SignInv'
<1> USE DEF disk, locks, history
<1>0. TypeOK /\ Serialised /\ StagesOfSigns /\ NoReloads /\ SignsOrdered /\ SaverCarries /\ RestIsSaved
  BY DEF WriterInv, SignInv
<1>a. /\ "signs" \in Files /\ version \in Nat /\ version <= version
      /\ \A t \in Threads : th[t] \in ThreadStates /\ t # None
  BY SignsAreNumbers, ThreadsAssumption DEF WriterInv, TypeOK
<1>1. CASE UNCHANGED vars
  BY <1>1, <1>a, Bystander DEF vars
<1>2. ASSUME NEW fs \in EditKinds, Edit(fs) PROVE SignInv'
  <2>1. /\ version' \in Nat /\ version <= version'
        /\ \/ UNCHANGED <<mem["signs"], dirty["signs"]>>
           \/ dirty'["signs"] /\ mem'["signs"] = version'
    BY <1>2, <1>0, ChangeSigns DEF Edit
  <2>2. QED
    BY <1>2, <2>1, Bystander DEF Edit
<1>3. ASSUME NEW t \in Threads, SignsSerial(t) PROVE SignInv'
  <2>1. th[t].at = "serial" /\ th[t].cur = "signs" /\ signMtx = None /\ th[t].job # "reload"
    BY <1>3, <1>0 DEF SignsSerial, At, StagesOfSigns, NoReloads
  <2> DEFINE r == [th[t] EXCEPT !.at = "snapshot"]
  <2>2. r.at = "snapshot" /\ r.cur = "signs" /\ r.job # "reload"
    BY <1>a, <2>1 DEF ThreadStates
  <2>3. InSigns(r)
    BY <2>2 DEF InSigns, SignStages
  <2>4. Carries(r, file["signs"], mem["signs"], dirty["signs"])
    BY <1>0, <2>1, <2>2 DEF Carries, RestIsSaved
  <2>5. SignsOrdered' /\ UNCHANGED <<file, mem, dirty>> /\ signMtx' = t /\ th' = [th EXCEPT ![t] = r]
    BY <1>3, <1>0 DEF SignsSerial, SignsOrdered
  <2> HIDE DEF r
  <2>6. QED
    BY <2>1, <2>2, <2>3, <2>4, <2>5, Saver
<1>4. ASSUME NEW t \in Threads, Snapshot(t) PROVE SignInv'
  <2>1. CASE th[t].cur # "signs"
    <3> DEFINE r == [th[t] EXCEPT !.at = "lock", !.snap = mem[th[t].cur]]
    <3>1. r.cur = th[t].cur /\ r.job = th[t].job /\ r.at \notin {"serial", "flag", "read", "assign"}
      BY <1>a DEF ThreadStates
    <3>2. Outside(r) /\ Outside(th[t])
      BY <1>0, <2>1, <3>1, <1>4 DEF Outside, InSigns, NoReloads, Snapshot, At
    <3>3. \A u \in Threads : th'[u] = th[u] \/ (Outside(th[u]) /\ Outside(th'[u]))
      <4>1. \A u \in Threads : th'[u] = IF u = t THEN r ELSE th[u]
        BY <1>4, <1>0 DEF Snapshot, TypeOK
      <4>2. QED
        BY <3>2, <4>1
    <3>4. UNCHANGED <<file["signs"], durable["signs"], saved["signs"], signMtx, mem["signs"], dirty["signs"], version>>
      BY <1>4, <1>0, <1>a, <2>1 DEF Snapshot, TypeOK
    <3>5. QED
      BY <1>a, <3>3, <3>4, Bystander
  <2>2. CASE th[t].cur = "signs"
    <3> DEFINE r == [th[t] EXCEPT !.at = "lock", !.snap = mem[th[t].cur]]
    <3>1. th[t].at = "snapshot" /\ InSigns(th[t]) /\ th[t].job # "reload" /\ signMtx = t
      BY <1>4, <1>0, <2>2 DEF Snapshot, At, InSigns, SignStages, NoReloads, Serialised
    <3>2. r.at = "lock" /\ r.cur = "signs" /\ r.job # "reload"
      BY <1>a, <2>2, <3>1 DEF ThreadStates
    <3>3. InSigns(r)
      BY <3>2 DEF InSigns, SignStages
    <3>4. Carries(th[t], file["signs"], mem["signs"], dirty["signs"])
      BY <1>0, <3>1 DEF SaverCarries
    <3>5. r.snap = mem["signs"]
      BY <1>a, <2>2 DEF ThreadStates
    <3>6. SignsOrdered' /\ UNCHANGED <<file, mem, signMtx>> /\ th' = [th EXCEPT ![t] = r]
      BY <1>4, <1>0, <2>2 DEF Snapshot, SignsOrdered
    <3>7. Carries(r, file'["signs"], mem'["signs"], dirty'["signs"])
      BY <1>0, <3>2, <3>5, <3>6, SignsAreNumbers DEF Carries, SignsOrdered
    <3> HIDE DEF r
    <3>9. QED
      BY <3>1, <3>2, <3>3, <3>6, <3>7, Saver
  <2>3. QED
    BY <2>1, <2>2
<1>5. ASSUME NEW t \in Threads, NothingChanged(t) PROVE SignInv'
  <2>1. CASE th[t].cur # "signs"
    <3> DEFINE r == Onward(th[t])
    <3>1. Outside(r) /\ Outside(th[t])
      BY <1>0, <1>a, <2>1, <1>5 DEF Outside, InSigns, SignStages, NoReloads, NothingChanged, At, Onward,
                                  ThreadStates, Files
    <3>2. signMtx # t
      BY <1>0, <2>1 DEF Serialised, InSigns
    <3>3. \A u \in Threads : th'[u] = IF u = t THEN r ELSE th[u]
      BY <1>5, <1>0 DEF NothingChanged, TypeOK
    <3>4. \A u \in Threads : th'[u] = th[u] \/ (Outside(th[u]) /\ Outside(th'[u]))
      BY <3>1, <3>3
    <3>5. UNCHANGED <<file, durable, saved, signMtx, mem, dirty, version>>
      BY <1>5, <3>2 DEF NothingChanged
    <3>6. QED
      BY <1>a, <3>4, <3>5, Bystander
  <2>2. CASE th[t].cur = "signs"
    <3> DEFINE r == Onward(th[t])
    <3>1. th[t].at = "snapshot" /\ InSigns(th[t]) /\ th[t].job # "reload" /\ ~dirty["signs"]
      BY <1>5, <1>0, <2>2 DEF NothingChanged, At, InSigns, SignStages, NoReloads
    <3>2. signMtx = t /\ Carries(th[t], file["signs"], mem["signs"], dirty["signs"])
      BY <1>0, <3>1 DEF Serialised, SaverCarries
    <3>3. r.at = "done" /\ r.job # "reload" /\ ~InSigns(r)
      BY <1>a, <2>2, <3>1 DEF Onward, ThreadStates, InSigns, SignStages
    <3>4. /\ signMtx' = None
          /\ th' = [th EXCEPT ![t] = r]
          /\ UNCHANGED <<file, mem, dirty>>
          /\ SignsOrdered'
      BY <1>5, <1>0, <3>2 DEF NothingChanged, SignsOrdered
    <3>5. file["signs"] = mem["signs"]
      BY <3>1, <3>2 DEF Carries
    <3> HIDE DEF r
    <3>6. QED
      BY <3>2, <3>3, <3>4, <3>5, Saver
  <2>3. QED
    BY <2>1, <2>2
<1>6. ASSUME NEW t \in Threads, SaveLock(t) PROVE SignInv'
  <2>1. CASE th[t].cur # "signs"
    <3> DEFINE r == [th[t] EXCEPT !.at = "open"]
    <3>1. r.cur = th[t].cur /\ r.job = th[t].job /\ r.at \notin {"serial", "flag", "read", "assign"}
      BY <1>a DEF ThreadStates
    <3>2. Outside(r) /\ Outside(th[t])
      BY <1>0, <2>1, <3>1, <1>6 DEF Outside, InSigns, NoReloads, SaveLock, At
    <3>3. \A u \in Threads : th'[u] = th[u] \/ (Outside(th[u]) /\ Outside(th'[u]))
      <4>1. \A u \in Threads : th'[u] = IF u = t THEN r ELSE th[u]
        BY <1>6, <1>0 DEF SaveLock, TypeOK
      <4>2. QED
        BY <3>2, <4>1
    <3>4. UNCHANGED <<file["signs"], durable["signs"], saved["signs"], signMtx, mem["signs"], dirty["signs"], version>>
      BY <1>6, <1>0, <1>a, <2>1 DEF SaveLock, TypeOK
    <3>5. QED
      BY <1>a, <3>3, <3>4, Bystander
  <2>2. CASE th[t].cur = "signs"
    <3> DEFINE r == [th[t] EXCEPT !.at = "open"]
    <3>1. th[t].at = "lock" /\ InSigns(th[t]) /\ th[t].job # "reload" /\ signMtx = t
      BY <1>6, <1>0, <2>2 DEF SaveLock, At, InSigns, SignStages, NoReloads, Serialised
    <3>2. r.at = "open" /\ r.cur = "signs" /\ r.job # "reload"
      BY <1>a, <2>2, <3>1 DEF ThreadStates
    <3>3. InSigns(r)
      BY <3>2 DEF InSigns, SignStages
    <3>4. Carries(th[t], file["signs"], mem["signs"], dirty["signs"])
      BY <1>0, <3>1 DEF SaverCarries
    <3>5. r.snap = th[t].snap
      BY <1>a DEF ThreadStates
    <3>6. SignsOrdered' /\ UNCHANGED <<file, mem, dirty, signMtx>> /\ th' = [th EXCEPT ![t] = r]
      BY <1>6, <1>0, <2>2 DEF SaveLock, SignsOrdered
    <3>7. Carries(r, file'["signs"], mem'["signs"], dirty'["signs"])
      BY <3>1, <3>2, <3>4, <3>5, <3>6 DEF Carries
    <3> HIDE DEF r
    <3>9. QED
      BY <3>1, <3>2, <3>3, <3>6, <3>7, Saver
  <2>3. QED
    BY <2>1, <2>2
<1>7. ASSUME NEW t \in Threads, OpenTmp(t) PROVE SignInv'
  <2>1. CASE th[t].cur # "signs"
    <3> DEFINE r == [th[t] EXCEPT !.at = "write"]
    <3>1. r.cur = th[t].cur /\ r.job = th[t].job /\ r.at \notin {"serial", "flag", "read", "assign"}
      BY <1>a DEF ThreadStates
    <3>2. Outside(r) /\ Outside(th[t])
      BY <1>0, <2>1, <3>1, <1>7 DEF Outside, InSigns, NoReloads, OpenTmp, Put, At
    <3>3. \A u \in Threads : th'[u] = th[u] \/ (Outside(th[u]) /\ Outside(th'[u]))
      <4>1. \A u \in Threads : th'[u] = IF u = t THEN r ELSE th[u]
        BY <1>7, <1>0 DEF OpenTmp, Put, TypeOK
      <4>2. QED
        BY <3>2, <4>1
    <3>4. UNCHANGED <<file["signs"], durable["signs"], saved["signs"], signMtx, mem["signs"], dirty["signs"], version>>
      BY <1>7, <1>0, <1>a, <2>1 DEF OpenTmp, Put, TypeOK
    <3>5. QED
      BY <1>a, <3>3, <3>4, Bystander
  <2>2. CASE th[t].cur = "signs"
    <3> DEFINE r == [th[t] EXCEPT !.at = "write"]
    <3>1. th[t].at = "open" /\ InSigns(th[t]) /\ th[t].job # "reload" /\ signMtx = t
      BY <1>7, <1>0, <2>2 DEF OpenTmp, Put, At, InSigns, SignStages, NoReloads, Serialised
    <3>2. r.at = "write" /\ r.cur = "signs" /\ r.job # "reload"
      BY <1>a, <2>2, <3>1 DEF ThreadStates
    <3>3. InSigns(r)
      BY <3>2 DEF InSigns, SignStages
    <3>4. Carries(th[t], file["signs"], mem["signs"], dirty["signs"])
      BY <1>0, <3>1 DEF SaverCarries
    <3>5. r.snap = th[t].snap
      BY <1>a DEF ThreadStates
    <3>6. SignsOrdered' /\ UNCHANGED <<file, mem, dirty, signMtx>> /\ th' = [th EXCEPT ![t] = r]
      BY <1>7, <1>0, <2>2 DEF OpenTmp, Put, SignsOrdered
    <3>7. Carries(r, file'["signs"], mem'["signs"], dirty'["signs"])
      BY <3>1, <3>2, <3>4, <3>5, <3>6 DEF Carries
    <3> HIDE DEF r
    <3>9. QED
      BY <3>1, <3>2, <3>3, <3>6, <3>7, Saver
  <2>3. QED
    BY <2>1, <2>2
<1>8. ASSUME NEW t \in Threads, WriteTmp(t) PROVE SignInv'
  <2>1. CASE th[t].cur # "signs"
    <3> DEFINE r == [th[t] EXCEPT !.at = "rename"]
    <3>1. r.cur = th[t].cur /\ r.job = th[t].job /\ r.at \notin {"serial", "flag", "read", "assign"}
      BY <1>a DEF ThreadStates
    <3>2. Outside(r) /\ Outside(th[t])
      BY <1>0, <2>1, <3>1, <1>8 DEF Outside, InSigns, NoReloads, WriteTmp, Put, At
    <3>3. \A u \in Threads : th'[u] = th[u] \/ (Outside(th[u]) /\ Outside(th'[u]))
      <4>1. \A u \in Threads : th'[u] = IF u = t THEN r ELSE th[u]
        BY <1>8, <1>0 DEF WriteTmp, Put, TypeOK
      <4>2. QED
        BY <3>2, <4>1
    <3>4. UNCHANGED <<file["signs"], durable["signs"], saved["signs"], signMtx, mem["signs"], dirty["signs"], version>>
      BY <1>8, <1>0, <1>a, <2>1 DEF WriteTmp, Put, TypeOK
    <3>5. QED
      BY <1>a, <3>3, <3>4, Bystander
  <2>2. CASE th[t].cur = "signs"
    <3> DEFINE r == [th[t] EXCEPT !.at = "rename"]
    <3>1. th[t].at = "write" /\ InSigns(th[t]) /\ th[t].job # "reload" /\ signMtx = t
      BY <1>8, <1>0, <2>2 DEF WriteTmp, Put, At, InSigns, SignStages, NoReloads, Serialised
    <3>2. r.at = "rename" /\ r.cur = "signs" /\ r.job # "reload"
      BY <1>a, <2>2, <3>1 DEF ThreadStates
    <3>3. InSigns(r)
      BY <3>2 DEF InSigns, SignStages
    <3>4. Carries(th[t], file["signs"], mem["signs"], dirty["signs"])
      BY <1>0, <3>1 DEF SaverCarries
    <3>5. r.snap = th[t].snap
      BY <1>a DEF ThreadStates
    <3>6. SignsOrdered' /\ UNCHANGED <<file, mem, dirty, signMtx>> /\ th' = [th EXCEPT ![t] = r]
      BY <1>8, <1>0, <2>2 DEF WriteTmp, Put, SignsOrdered
    <3>7. Carries(r, file'["signs"], mem'["signs"], dirty'["signs"])
      BY <3>1, <3>2, <3>4, <3>5, <3>6 DEF Carries
    <3> HIDE DEF r
    <3>9. QED
      BY <3>1, <3>2, <3>3, <3>6, <3>7, Saver
  <2>3. QED
    BY <2>1, <2>2
<1>9. ASSUME NEW t \in Threads, RenameTmp(t) PROVE SignInv'
  <2>0. /\ th[t].at = "rename" /\ th[t].cur \in Files /\ tmp[th[t].cur].v = th[t].snap
        /\ tmp[th[t].cur].whole /\ tmp[th[t].cur].synced
    BY <1>9, <1>a DEF RenameTmp, At, WriterInv, OneWriter, RenameReady, ThreadStates
  <2>a. /\ file' = [file EXCEPT ![th[t].cur] = th[t].snap]
        /\ durable' = [durable EXCEPT ![th[t].cur] = durable[th[t].cur] \union {th[t].snap}]
    BY <1>9, <2>0 DEF RenameTmp
  <2>1. CASE th[t].cur # "signs"
    <3> DEFINE r == [th[t] EXCEPT !.at = "syncDir"]
    <3>1. r.cur = th[t].cur /\ r.job = th[t].job /\ r.at \notin {"serial", "flag", "read", "assign"}
      BY <1>a DEF ThreadStates
    <3>2. Outside(r) /\ Outside(th[t])
      BY <1>0, <2>1, <3>1, <1>9 DEF Outside, InSigns, NoReloads, RenameTmp, At
    <3>3. \A u \in Threads : th'[u] = th[u] \/ (Outside(th[u]) /\ Outside(th'[u]))
      <4>1. \A u \in Threads : th'[u] = IF u = t THEN r ELSE th[u]
        BY <1>9, <1>0 DEF RenameTmp, TypeOK
      <4>2. QED
        BY <3>2, <4>1
    <3>4. UNCHANGED <<file["signs"], durable["signs"], saved["signs"], signMtx, mem["signs"], dirty["signs"], version>>
      BY <1>9, <1>0, <1>a, <2>a, <2>1 DEF RenameTmp, TypeOK
    <3>5. QED
      BY <1>a, <3>3, <3>4, Bystander
  <2>2. CASE th[t].cur = "signs"
    <3> DEFINE r == [th[t] EXCEPT !.at = "syncDir"]
    <3>1. th[t].at = "rename" /\ InSigns(th[t]) /\ th[t].job # "reload" /\ signMtx = t
      BY <1>9, <1>0, <2>2 DEF RenameTmp, At, InSigns, SignStages, NoReloads, Serialised
    <3>2. r.at = "syncDir" /\ r.cur = "signs" /\ r.job # "reload"
      BY <1>a, <2>2, <3>1 DEF ThreadStates
    <3>3. InSigns(r)
      BY <3>2 DEF InSigns, SignStages
    <3>4. Carries(th[t], file["signs"], mem["signs"], dirty["signs"])
      BY <1>0, <3>1 DEF SaverCarries
    <3>5. /\ r.snap = th[t].snap /\ file'["signs"] = th[t].snap
          /\ durable'["signs"] = durable["signs"] \union {th[t].snap}
          /\ UNCHANGED <<mem, dirty, saved, version, signMtx>> /\ th' = [th EXCEPT ![t] = r]
      BY <1>9, <1>0, <1>a, <2>a, <2>2 DEF RenameTmp, ThreadStates, TypeOK
    <3>a. file["signs"] <= th[t].snap /\ th[t].snap <= mem["signs"]
      BY <3>1, <3>4 DEF Carries
    <3>6. SignsOrdered' /\ UNCHANGED <<mem, dirty, signMtx>> /\ th' = [th EXCEPT ![t] = r]
      <4>1. \A v \in durable'["signs"] : v \in Nat /\ saved["signs"] <= v /\ v <= th[t].snap
        BY <1>0, <3>5, <3>a, SignsAreNumbers DEF SignsOrdered
      <4>2. saved["signs"] <= th[t].snap
        BY <1>0, <3>a, SignsAreNumbers DEF SignsOrdered
      <4>3. QED
        BY <1>0, <3>5, <3>a, <4>1, <4>2 DEF SignsOrdered
    <3>7. Carries(r, file'["signs"], mem'["signs"], dirty'["signs"])
      BY <3>1, <3>2, <3>4, <3>5 DEF Carries
    <3> HIDE DEF r
    <3>9. QED
      BY <3>1, <3>2, <3>3, <3>6, <3>7, Saver
  <2>3. QED
    BY <2>1, <2>2
<1>10. ASSUME NEW t \in Threads, SyncDir(t) PROVE SignInv'
  <2>0. th[t].at \in Writing /\ Returns(t, TRUE) /\ th[t].at = "syncDir"
    BY <1>10 DEF SyncDir, At, Writing
  <2>1. CASE th[t].cur # "signs"
    <3>1. /\ dirty'["signs"] = dirty["signs"]
          /\ \A u \in Threads : th'[u] = th[u] \/ (Outside(th[u]) /\ Outside(th'[u]))
      BY <1>0, <2>0, <2>1, EndsOutside
    <3>2. UNCHANGED <<file["signs"], durable["signs"], saved["signs"], signMtx, mem["signs"], version>>
      BY <1>10, <1>0, <1>a, <2>1 DEF SyncDir, TypeOK
    <3>3. QED
      BY <1>a, <3>1, <3>2, Bystander
  <2>2. CASE th[t].cur = "signs"
    <3>1. /\ durable'["signs"] = {file["signs"]} /\ saved'["signs"] = th[t].snap
          /\ UNCHANGED <<file, mem, version, signMtx>>
      BY <1>10, <1>0, <1>a, <2>2 DEF SyncDir, TypeOK
    <3>2. file["signs"] = th[t].snap
      BY <1>10, <1>0, <2>2 DEF SyncDir, At, SaverCarries, InSigns, SignStages, Carries
    <3>3. SignsOrdered'
      BY <1>0, <3>1, <3>2, SignsAreNumbers DEF SignsOrdered
    <3>4. QED
      BY <2>0, <2>2, <3>1, <3>3, EndsInside
  <2>3. QED
    BY <2>1, <2>2
<1>11. ASSUME NEW t \in Threads, SyncDirUnsupported(t) PROVE SignInv'
  <2>0. th[t].at \in Writing /\ Returns(t, TRUE) /\ th[t].at = "syncDir"
    BY <1>11 DEF SyncDirUnsupported, At, Writing
  <2>1. CASE th[t].cur # "signs"
    <3>1. /\ dirty'["signs"] = dirty["signs"]
          /\ \A u \in Threads : th'[u] = th[u] \/ (Outside(th[u]) /\ Outside(th'[u]))
      BY <1>0, <2>0, <2>1, EndsOutside
    <3>2. UNCHANGED <<file["signs"], durable["signs"], saved["signs"], signMtx, mem["signs"], version>>
      BY <1>11, <1>0, <1>a, <2>1 DEF SyncDirUnsupported, TypeOK
    <3>3. QED
      BY <1>a, <3>1, <3>2, Bystander
  <2>2. CASE th[t].cur = "signs"
    <3>1. UNCHANGED <<file, durable, saved, mem, version, signMtx>>
      BY <1>11 DEF SyncDirUnsupported
    <3>2. SignsOrdered'
      BY <1>0, <3>1 DEF SignsOrdered
    <3>3. QED
      BY <2>0, <2>2, <3>1, <3>2, EndsInside
  <2>3. QED
    BY <2>1, <2>2
<1>12. ASSUME NEW t \in Threads, SyncDirFails(t) PROVE SignInv'
  <2>0. th[t].at \in Writing /\ Returns(t, FALSE)
    BY <1>12 DEF SyncDirFails, At, Writing
  <2>1. CASE th[t].cur # "signs"
    <3>1. /\ dirty'["signs"] = dirty["signs"]
          /\ \A u \in Threads : th'[u] = th[u] \/ (Outside(th[u]) /\ Outside(th'[u]))
      BY <1>0, <2>0, <2>1, EndsOutside
    <3>2. UNCHANGED <<file["signs"], durable["signs"], saved["signs"], signMtx, mem["signs"], version>>
      BY <1>12, <1>0, <1>a, <2>1 DEF SyncDirFails, TypeOK
    <3>3. QED
      BY <1>a, <3>1, <3>2, Bystander
  <2>2. CASE th[t].cur = "signs"
    <3>1. UNCHANGED <<file, durable, saved, mem, version, signMtx>>
      BY <1>12 DEF SyncDirFails
    <3>2. SignsOrdered'
      BY <1>0, <3>1 DEF SignsOrdered
    <3>3. QED
      BY <2>0, <2>2, <3>1, <3>2, EndsInside
  <2>3. QED
    BY <2>1, <2>2
<1>13. ASSUME NEW t \in Threads, WriteFails(t) PROVE SignInv'
  <2>0. th[t].at \in Writing /\ Returns(t, FALSE)
    BY <1>13 DEF WriteFails, At, Writing
  <2>1. CASE th[t].cur # "signs"
    <3>1. /\ dirty'["signs"] = dirty["signs"]
          /\ \A u \in Threads : th'[u] = th[u] \/ (Outside(th[u]) /\ Outside(th'[u]))
      BY <1>0, <2>0, <2>1, EndsOutside
    <3>2. UNCHANGED <<file["signs"], durable["signs"], saved["signs"], signMtx, mem["signs"], version>>
      BY <1>13, <1>0, <1>a, <2>1 DEF WriteFails, TypeOK
    <3>3. QED
      BY <1>a, <3>1, <3>2, Bystander
  <2>2. CASE th[t].cur = "signs"
    <3>1. UNCHANGED <<file, durable, saved, mem, version, signMtx>>
      BY <1>13 DEF WriteFails
    <3>2. SignsOrdered'
      BY <1>0, <3>1 DEF SignsOrdered
    <3>3. QED
      BY <2>0, <2>2, <3>1, <3>2, EndsInside
  <2>3. QED
    BY <2>1, <2>2
<1>14. ASSUME NEW t \in Threads, SignsReturn(t) PROVE SignInv'
  <2> DEFINE r == Onward(th[t])
  <2>1. th[t].at = "flag" /\ th[t].cur = "signs" /\ InSigns(th[t]) /\ th[t].job # "reload"
    BY <1>14, <1>0 DEF SignsReturn, At, StagesOfSigns, InSigns, SignStages, NoReloads
  <2>2. signMtx = t /\ Carries(th[t], file["signs"], mem["signs"], dirty["signs"])
    BY <1>0, <2>1 DEF Serialised, SaverCarries
  <2>3. r.at = "done" /\ r.job # "reload" /\ ~InSigns(r)
    BY <1>a, <2>1 DEF Onward, ThreadStates, InSigns, SignStages
  <2>4. /\ signMtx' = None /\ th' = [th EXCEPT ![t] = r] /\ UNCHANGED <<file, mem>> /\ SignsOrdered'
        /\ dirty'["signs"] = (dirty["signs"] \/ ~th[t].ok)
    BY <1>14, <1>0, <1>a DEF SignsReturn, SignsOrdered, TypeOK
  <2>5. dirty'["signs"] \/ file["signs"] = mem["signs"]
    BY <2>1, <2>2, <2>4 DEF Carries
  <2> HIDE DEF r
  <2>6. QED
    BY <2>2, <2>3, <2>4, <2>5, Saver
<1>15. ASSUME NEW t \in Threads, JobDone(t) PROVE SignInv'
  <2>1. Outside(Resting) /\ Outside(th[t])
    BY <1>15, <1>0 DEF JobDone, At, Outside, InSigns, SignStages, NoReloads, Resting, None
  <2>2. \A u \in Threads : th'[u] = IF u = t THEN Resting ELSE th[u]
    BY <1>15, <1>0 DEF JobDone, TypeOK
  <2>3. \A u \in Threads : th'[u] = th[u] \/ (Outside(th[u]) /\ Outside(th'[u]))
    BY <2>1, <2>2
  <2>4. QED
    BY <1>15, <1>a, <2>3, Bystander DEF JobDone
<1>16. ASSUME NEW t \in Threads, Save(t) PROVE SignInv'
  <2>1. /\ Begin(t, "save", "world")
        /\ t \in Threads
        /\ "world" \in Files
        /\ th[t].at \in {"idle", "done"}
        /\ "save" # "reload"
        /\ UNCHANGED <<file["signs"], durable["signs"], saved["signs"], signMtx>>
    BY <1>16, <1>0 DEF Save, At, Threads, Files, NoReloads, Command
  <2>2. \A u \in Threads : th'[u] = th[u] \/ (Outside(th[u]) /\ Outside(th'[u]))
    BY <1>0, <2>1, StartsOutside
  <2>3. UNCHANGED <<mem["signs"], dirty["signs"], version>>
    BY <1>16, <1>0, <1>a DEF Save, TypeOK
  <2>4. QED
    BY <1>a, <2>1, <2>2, <2>3, Bystander
<1>17. ASSUME NEW t \in Threads, SignsAddOrRm(t) PROVE SignInv'
  <2>1. /\ Begin(t, "signs", "signs")
        /\ t \in Threads
        /\ "signs" \in Files
        /\ th[t].at \in {"idle", "done"}
        /\ "signs" # "reload"
        /\ UNCHANGED <<file["signs"], durable["signs"], saved["signs"], signMtx>>
    BY <1>17, <1>0 DEF SignsAddOrRm, At, Threads, Files, NoReloads, Command
  <2>2. \A u \in Threads : th'[u] = th[u] \/ (Outside(th[u]) /\ Outside(th'[u]))
    BY <1>0, <2>1, StartsOutside
  <2>3. /\ version' \in Nat /\ version <= version'
        /\ dirty'["signs"] /\ mem'["signs"] = version'
    BY <1>17, <1>0, ChangeSigns DEF SignsAddOrRm
  <2>4. QED
    BY <1>a, <2>1, <2>2, <2>3, Bystander
<1>18. ASSUME NEW t \in Threads, ControlStop(t) PROVE SignInv'
  <2>1. /\ Begin(t, "stop", "world")
        /\ t \in Threads
        /\ "world" \in Files
        /\ th[t].at \in {"idle", "done"}
        /\ "stop" # "reload"
        /\ UNCHANGED <<file["signs"], durable["signs"], saved["signs"], signMtx>>
    BY <1>18, <1>0 DEF ControlStop, shutdownAndExit, At, Threads, Files, NoReloads
  <2>2. \A u \in Threads : th'[u] = th[u] \/ (Outside(th[u]) /\ Outside(th'[u]))
    BY <1>0, <2>1, StartsOutside
  <2>3. UNCHANGED <<mem["signs"], dirty["signs"], version>>
    BY <1>18, <1>0, <1>a DEF ControlStop, shutdownAndExit, TypeOK
  <2>4. QED
    BY <1>a, <2>1, <2>2, <2>3, Bystander
<1>19. ASSUME NEW t \in Threads, SignsReload(t) PROVE SignInv'
  BY <1>19, <1>0 DEF SignsReload, TypeOK, Budgets
<1>20. ASSUME NEW t \in Threads, ReloadRead(t) PROVE SignInv'
  BY <1>20, <1>0 DEF ReloadRead, At, NoReloads
<1>21. ASSUME NEW t \in Threads, ReloadAssign(t) PROVE SignInv'
  BY <1>21, <1>0 DEF ReloadAssign, At, NoReloads
<1>22. ASSUME NEW t \in Threads, ReloadPrune(t) PROVE SignInv'
  BY <1>22, <1>0 DEF ReloadPrune, At, NoReloads
<1>23. ASSUME Convert PROVE SignInv'
  <2>1. /\ Begin(MainThread, "convert", "world")
        /\ MainThread \in Threads
        /\ "world" \in Files
        /\ th[MainThread].at \in {"idle", "done"}
        /\ "convert" # "reload"
        /\ UNCHANGED <<file["signs"], durable["signs"], saved["signs"], signMtx>>
    BY <1>23, <1>0 DEF Convert, At, Threads, Files, NoReloads
  <2>2. \A u \in Threads : th'[u] = th[u] \/ (Outside(th[u]) /\ Outside(th'[u]))
    BY <1>0, <2>1, StartsOutside
  <2>3. UNCHANGED <<mem["signs"], dirty["signs"], version>>
    BY <1>23, <1>0, <1>a DEF Convert, TypeOK
  <2>4. QED
    BY <1>a, <2>1, <2>2, <2>3, Bystander
<1>24. ASSUME LoadedBinary PROVE SignInv'
  BY <1>24, <1>a, Bystander DEF LoadedBinary
<1>25. ASSUME pruneOrphanSigns PROVE SignInv'
  <2>1. /\ Begin(MainThread, "signs", "signs")
        /\ MainThread \in Threads
        /\ "signs" \in Files
        /\ th[MainThread].at \in {"idle", "done"}
        /\ "signs" # "reload"
        /\ UNCHANGED <<file["signs"], durable["signs"], saved["signs"], signMtx>>
    BY <1>25, <1>0 DEF pruneOrphanSigns, At, Threads, Files, NoReloads
  <2>2. \A u \in Threads : th'[u] = th[u] \/ (Outside(th[u]) /\ Outside(th'[u]))
    BY <1>0, <2>1, StartsOutside
  <2>3. /\ version' \in Nat /\ version <= version'
        /\ dirty'["signs"] /\ mem'["signs"] = version'
    BY <1>25, <1>0, ChangeSigns DEF pruneOrphanSigns
  <2>4. QED
    BY <1>a, <2>1, <2>2, <2>3, Bystander
<1>26. ASSUME Listen PROVE SignInv'
  BY <1>26, <1>a, Bystander DEF Listen
<1>27. ASSUME requestSave PROVE SignInv'
  BY <1>27, <1>a, Bystander DEF requestSave
<1>28. ASSUME Clock PROVE SignInv'
  BY <1>28, <1>a, Bystander DEF Clock
<1>29. ASSUME AutoBegin PROVE SignInv'
  <2>1. /\ Begin(AutoThread, due, "world")
        /\ AutoThread \in Threads
        /\ "world" \in Files
        /\ th[AutoThread].at \in {"idle", "done"}
        /\ due # "reload"
        /\ UNCHANGED <<file["signs"], durable["signs"], saved["signs"], signMtx>>
    BY <1>29, <1>0 DEF AutoBegin, At, Threads, Files, NoReloads, due
  <2>2. \A u \in Threads : th'[u] = th[u] \/ (Outside(th[u]) /\ Outside(th'[u]))
    BY <1>0, <2>1, StartsOutside
  <2>3. UNCHANGED <<mem["signs"], dirty["signs"], version>>
    BY <1>29, <1>0, <1>a DEF AutoBegin, TypeOK
  <2>4. QED
    BY <1>a, <2>1, <2>2, <2>3, Bystander
<1>30. ASSUME SignalStop PROVE SignInv'
  <2>1. /\ Begin(MainThread, "stop", "world")
        /\ MainThread \in Threads
        /\ "world" \in Files
        /\ th[MainThread].at \in {"idle", "done"}
        /\ "stop" # "reload"
        /\ UNCHANGED <<file["signs"], durable["signs"], saved["signs"], signMtx>>
    BY <1>30, <1>0 DEF SignalStop, shutdownAndExit, At, Threads, Files, NoReloads
  <2>2. \A u \in Threads : th'[u] = th[u] \/ (Outside(th[u]) /\ Outside(th'[u]))
    BY <1>0, <2>1, StartsOutside
  <2>3. UNCHANGED <<mem["signs"], dirty["signs"], version>>
    BY <1>30, <1>0, <1>a DEF SignalStop, shutdownAndExit, TypeOK
  <2>4. QED
    BY <1>a, <2>1, <2>2, <2>3, Bystander
<1>31. ASSUME IdleStop PROVE SignInv'
  <2>1. /\ Begin(AutoThread, "stop", "world")
        /\ AutoThread \in Threads
        /\ "world" \in Files
        /\ th[AutoThread].at \in {"idle", "done"}
        /\ "stop" # "reload"
        /\ UNCHANGED <<file["signs"], durable["signs"], saved["signs"], signMtx>>
    BY <1>31, <1>0 DEF IdleStop, shutdownAndExit, At, Threads, Files, NoReloads
  <2>2. \A u \in Threads : th'[u] = th[u] \/ (Outside(th[u]) /\ Outside(th'[u]))
    BY <1>0, <2>1, StartsOutside
  <2>3. UNCHANGED <<mem["signs"], dirty["signs"], version>>
    BY <1>31, <1>0, <1>a DEF IdleStop, shutdownAndExit, TypeOK
  <2>4. QED
    BY <1>a, <2>1, <2>2, <2>3, Bystander
<1>32. ASSUME Restart PROVE SignInv'
  <2>1. PICK img \in [Files -> Versions] :
          /\ \A f \in Files : img[f] \in durable[f] \union {file[f]}
          /\ mem' = img /\ file' = img /\ durable' = [f \in Files |-> {img[f]}]
    BY <1>32 DEF Restart
  <2>2. img["signs"] \in durable["signs"] \union {file["signs"]} /\ durable'["signs"] = {img["signs"]}
    BY <1>a, <2>1
  <2>3. saved["signs"] <= img["signs"] /\ img["signs"] <= version
    BY <1>0, <2>2, SignsAreNumbers DEF SignsOrdered
  <2>4. img["signs"] \in Nat
    BY <2>2, SignsAreNumbers
  <2>5. SignsOrdered'
    BY <1>32, <2>1, <2>2, <2>3, <2>4 DEF Restart, SignsOrdered
  <2>6. \A u \in Threads : th'[u] = Resting /\ signMtx' # u
    BY <1>32, <1>a DEF Restart
  <2>7. Outside(Resting)
    BY DEF Outside, InSigns, SignStages, Resting, None
  <2>8. Serialised' /\ StagesOfSigns' /\ NoReloads' /\ SaverCarries'
    BY <2>6, <2>7 DEF Serialised, StagesOfSigns, NoReloads, SaverCarries, Outside
  <2>9. RestIsSaved'
    BY <2>1 DEF RestIsSaved
  <2>10. QED
    BY <2>5, <2>8, <2>9 DEF SignInv
<1>33. QED
  BY <1>1, <1>2, <1>3, <1>4, <1>5, <1>6, <1>7, <1>8, <1>9, <1>10, <1>11, <1>12, <1>13, <1>14,
     <1>15, <1>16, <1>17, <1>18, <1>19, <1>20, <1>21, <1>22, <1>23, <1>24, <1>25, <1>26, <1>27,
     <1>28, <1>29, <1>30, <1>31, <1>32 DEF Next, Step, SaveStep

\* A clean sign flag hides no unsaved sign (saveSigns), as long as no reload swaps the list.
THEOREM CleanSignsAreSaved == MaxReloads = 0 => (Spec => []SignsCleanIsSaved)
<1> SUFFICES ASSUME MaxReloads = 0 PROVE Spec => []SignsCleanIsSaved
  OBVIOUS
<1>1. WriterInv /\ SignInv /\ [Next]_vars => SignInv'
  BY SignsStep
<1>2. WriterInv /\ SignInv => SignsCleanIsSaved
  BY SignsAreNumbers DEF SignInv, RestIsSaved, SignsCleanIsSaved, CleanIsSaved
<1>3. QED
  BY <1>1, <1>2, SignsInit, WriterKept, PTL DEF Spec

\* Once a save of the signs has been reported durable, no race, failure or power loss brings
\* an older list back (saveSigns over write_file_durable), as long as no reload does.
THEOREM SavedSignsStay == MaxReloads = 0 => (Spec => []SignsSavedStay)
<1> SUFFICES ASSUME MaxReloads = 0 PROVE Spec => []SignsSavedStay
  OBVIOUS
<1>1. WriterInv /\ SignInv /\ [Next]_vars => SignInv'
  BY SignsStep
<1>2. WriterInv /\ SignInv => SignsSavedStay
  BY SignsAreNumbers DEF SignInv, SignsOrdered, SignsSavedStay
<1>3. QED
  BY <1>1, <1>2, SignsInit, WriterKept, PTL DEF Spec

-----------------------------------------------------------------------------
(***************************************************************************)
(* What a control `save` or a stop leaves in the sign file.  A save or     *)
(* stop that is through with the signs left the file as new as it found    *)
(* the list, or the last write of it failed; and whoever writes the file   *)
(* next took its snapshot later.                                           *)
(***************************************************************************)
Carrying == {"lock", "open", "write", "rename", "syncDir"}
WritesSigns(r) == r.cur = "signs" /\ r.at \in Carrying
Ordered(r) == r.at = "done" /\ r.job \in {"save", "stop"}
Through(r) == r.at = "flag" \/ Ordered(r)

SinceBehind == \A t \in Threads : since[t]["signs"] <= mem["signs"]
WritesFound ==
    \A t, u \in Threads :
        (t = u \/ Ordered(th[t])) /\ WritesSigns(th[u]) => since[t]["signs"] <= th[u].snap
LeavesFound ==
    \A t \in Threads : Through(th[t]) => since[t]["signs"] <= file["signs"] \/ broken["signs"]

KeepInv == SinceBehind /\ WritesFound /\ LeavesFound

LEMMA SinceAreNumbers ==
    ASSUME WriterInv
    PROVE  \A t \in Threads : since[t]["signs"] \in Nat
<1>1. Versions \subseteq Nat /\ "signs" \in Files
  BY BoundsAssumption DEF Versions, Files
<1>2. QED
  BY <1>1 DEF WriterInv, TypeOK

LEMMA KeepInit == Init => KeepInv
<1> SUFFICES ASSUME Init PROVE KeepInv
  OBVIOUS
<1>1. "signs" \in Files /\ \A t \in Threads : th[t] = Resting /\ since[t] = Zero /\ mem = Zero
  BY DEF Init, Files
<1>2. ~WritesSigns(Resting) /\ ~Through(Resting)
  BY DEF WritesSigns, Through, Ordered, Resting, None
<1>3. Zero["signs"] = 0
  BY <1>1 DEF Zero
<1>4. QED
  BY <1>1, <1>2, <1>3 DEF KeepInv, SinceBehind, WritesFound, LeavesFound

\* A step in which nobody inside a write of the sign file moves.
Aloof(r) == ~WritesSigns(r) /\ ~Through(r)

LEMMA KeepAside ==
    ASSUME WriterInv, KeepInv, UNCHANGED <<file["signs"], broken["signs"]>>,
           mem["signs"] <= mem'["signs"], mem'["signs"] \in Nat,
           \A u \in Threads : \/ th'[u] = th[u] /\ since'[u]["signs"] = since[u]["signs"]
                              \/ Aloof(th'[u]) /\ since'[u]["signs"] <= mem'["signs"]
    PROVE  KeepInv'
<1>1. SinceBehind'
  BY SignsAreNumbers, SinceAreNumbers DEF KeepInv, SinceBehind
<1>2. WritesFound'
  BY DEF KeepInv, WritesFound, Aloof, Through
<1>3. LeavesFound'
  BY DEF KeepInv, LeavesFound, Aloof
<1>4. QED
  BY <1>1, <1>2, <1>3 DEF KeepInv

\* A step of the thread inside saveSigns.
LEMMA KeepSaver ==
    ASSUME WriterInv, SignInv, KeepInv, NEW t \in Threads, InSigns(th[t]),
           NEW r, th' = [th EXCEPT ![t] = r], UNCHANGED <<mem, since>>,
           WritesSigns(r) => \/ r.snap = mem["signs"]
                             \/ WritesSigns(th[t]) /\ r.snap = th[t].snap,
           Through(r) => since[t]["signs"] <= file'["signs"] \/ broken'["signs"],
           \/ UNCHANGED <<file["signs"], broken["signs"]>>
           \/ UNCHANGED file["signs"] /\ broken'["signs"]
           \/ WritesSigns(th[t]) /\ file'["signs"] = th[t].snap
    PROVE  KeepInv'
<1>1. \A u \in Threads : th'[u] = IF u = t THEN r ELSE th[u]
  BY DEF WriterInv, TypeOK
<1>2. \A u \in Threads \ {t} : ~InSigns(th[u])
  BY DEF SignInv, Serialised
<1>3. \A u \in Threads \ {t} : ~WritesSigns(th'[u]) /\ th'[u].at # "flag"
  BY <1>1, <1>2 DEF WritesSigns, Carrying, InSigns, SignStages, SignInv, StagesOfSigns
<1>4. SinceBehind'
  BY DEF KeepInv, SinceBehind
<1>5. WritesFound'
  <2> SUFFICES ASSUME NEW v \in Threads, NEW u \in Threads,
                      v = u \/ Ordered(th'[v]), WritesSigns(th'[u])
               PROVE  since'[v]["signs"] <= th'[u].snap
    BY DEF WritesFound
  <2>1. u = t /\ th'[u] = r /\ WritesSigns(r)
    BY <1>1, <1>3
  <2>2. v = t \/ Ordered(th[v])
    BY <1>1, <2>1
  <2>3. since[v]["signs"] <= mem["signs"]
    BY DEF KeepInv, SinceBehind
  <2>4. WritesSigns(th[t]) => since[v]["signs"] <= th[t].snap
    BY <2>2 DEF KeepInv, WritesFound
  <2>5. QED
    BY <2>1, <2>3, <2>4
<1>6. LeavesFound'
  <2> SUFFICES ASSUME NEW v \in Threads, Through(th'[v])
               PROVE  since'[v]["signs"] <= file'["signs"] \/ broken'["signs"]
    BY DEF LeavesFound
  <2>1. CASE v = t
    BY <1>1, <2>1
  <2>2. CASE v # t
    <3>1. Ordered(th[v])
      BY <1>1, <1>3, <2>2 DEF Through
    <3>2. since[v]["signs"] <= file["signs"] \/ broken["signs"]
      BY <3>1 DEF KeepInv, LeavesFound, Through
    <3>3. WritesSigns(th[t]) => since[v]["signs"] <= th[t].snap
      BY <3>1 DEF KeepInv, WritesFound
    <3>4. QED
      BY <3>2, <3>3
  <2>3. QED
    BY <2>1, <2>2
<1>7. QED
  BY <1>4, <1>5, <1>6 DEF KeepInv

\* Starting a job notes a list no newer than the one there is.
LEMMA StartsAside ==
    ASSUME WriterInv, SignInv, NEW t \in Threads, NEW job, NEW f \in Files, Begin(t, job, f),
           mem["signs"] <= mem'["signs"], mem'["signs"] \in Nat
    PROVE  \A u \in Threads : \/ th'[u] = th[u] /\ since'[u]["signs"] = since[u]["signs"]
                              \/ Aloof(th'[u]) /\ since'[u]["signs"] <= mem'["signs"]
<1>1. th[t] \in ThreadStates /\ "signs" \in Files
  BY DEF WriterInv, TypeOK, Files
<1>2. /\ th'[t] = [th[t] EXCEPT !.at = FirstStage(f), !.job = job, !.cur = f]
      /\ since'[t] = IF job \in {"save", "stop"} THEN mem ELSE Zero
      /\ \A u \in Threads \ {t} : th'[u] = th[u] /\ since'[u] = since[u]
  BY DEF WriterInv, TypeOK, Begin
<1>3. th'[t].at = FirstStage(f)
  BY <1>1, <1>2 DEF ThreadStates
<1>4. Aloof(th'[t])
  BY <1>3 DEF Aloof, WritesSigns, Carrying, Through, Ordered, FirstStage
<1>5. since'[t]["signs"] <= mem'["signs"]
  BY <1>1, <1>2 DEF Zero
<1>6. QED
  BY <1>2, <1>4, <1>5

\* A thread that is not writing the signs, and is not afterwards either.
LEMMA KeepElsewhere ==
    ASSUME WriterInv, KeepInv, NEW t \in Threads, NEW r, th' = [th EXCEPT ![t] = r], Aloof(r),
           UNCHANGED <<mem["signs"], since, file["signs"], broken["signs"]>>
    PROVE  KeepInv'
<1>1. \A u \in Threads : th'[u] = IF u = t THEN r ELSE th[u]
  BY DEF WriterInv, TypeOK
<1>2. mem["signs"] \in Nat /\ since[t]["signs"] <= mem["signs"]
  BY SignsAreNumbers DEF KeepInv, SinceBehind
<1>3. QED
  BY <1>1, <1>2, KeepAside

\* A thread moves on inside its write, of whatever file.
LEMMA KeepMoves ==
    ASSUME WriterInv, SignInv, KeepInv, NEW t \in Threads, NEW r, th' = [th EXCEPT ![t] = r],
           th[t].at \in Carrying, r.at \in Carrying, r.cur = th[t].cur, r.snap = th[t].snap,
           UNCHANGED <<mem, since, broken>>,
           \/ UNCHANGED file["signs"]
           \/ th[t].cur = "signs" /\ file'["signs"] = th[t].snap
    PROVE  KeepInv'
<1>1. ~Through(r)
  BY DEF Through, Ordered, Carrying
<1>2. CASE th[t].cur # "signs"
  <2>1. Aloof(r)
    BY <1>1, <1>2 DEF Aloof, WritesSigns
  <2>2. QED
    BY <1>2, <2>1, KeepElsewhere
<1>3. CASE th[t].cur = "signs"
  <2>1. InSigns(th[t]) /\ WritesSigns(th[t])
    BY <1>3 DEF InSigns, SignStages, WritesSigns, Carrying
  <2>2. QED
    BY <1>1, <2>1, KeepSaver
<1>4. QED
  BY <1>2, <1>3

\* The end of a write: of the signs, the file is what was found, or the write failed.
LEMMA KeepEnds ==
    ASSUME WriterInv, SignInv, KeepInv, NEW t \in Threads, NEW ok \in BOOLEAN, Returns(t, ok),
           th[t].at \in Carrying, ok => th[t].at = "syncDir", UNCHANGED <<mem, since, file>>
    PROVE  KeepInv'
<1>1. th[t] \in ThreadStates /\ "signs" \in Files
  BY DEF WriterInv, TypeOK, Files
<1>2. broken'["signs"] = IF th[t].cur = "signs" THEN ~ok ELSE broken["signs"]
  BY <1>1 DEF Returns, WriterInv, TypeOK
<1>3. CASE th[t].cur # "signs"
  <2> DEFINE r == Onward(th[t])
  <2>1. th' = [th EXCEPT ![t] = r]
    BY <1>3 DEF Returns
  <2>2. Aloof(r)
    BY <1>1, <1>3 DEF Aloof, WritesSigns, Carrying, Through, Ordered, Onward, ThreadStates, Files
  <2> HIDE DEF r
  <2>3. QED
    BY <1>2, <1>3, <2>1, <2>2, KeepElsewhere
<1>4. CASE th[t].cur = "signs"
  <2> DEFINE r == [th[t] EXCEPT !.at = "flag", !.ok = ok]
  <2>1. th' = [th EXCEPT ![t] = r] /\ r.at = "flag"
    BY <1>1, <1>4 DEF Returns, ThreadStates
  <2>2. ~WritesSigns(r)
    BY <2>1 DEF WritesSigns, Carrying
  <2>3. InSigns(th[t]) /\ WritesSigns(th[t])
    BY <1>4 DEF InSigns, SignStages, WritesSigns, Carrying
  <2>4. since[t]["signs"] <= th[t].snap
    BY <2>3 DEF KeepInv, WritesFound
  <2>5. ok => file["signs"] = th[t].snap
    BY <2>3 DEF SignInv, SaverCarries, Carries
  <2> HIDE DEF r
  <2>6. QED
    BY <1>2, <1>4, <2>1, <2>2, <2>3, <2>4, <2>5, KeepSaver
<1>5. QED
  BY <1>3, <1>4

LEMMA KeepStep ==
    ASSUME MaxReloads = 0, WriterInv, SignInv, KeepInv, [Next]_vars
    PROVE  KeepInv'
<1> USE DEF disk, locks, history
<1>0. TypeOK /\ StagesOfSigns /\ NoReloads /\ SaverCarries /\ SignsOrdered
  BY DEF WriterInv, SignInv
<1>a. /\ "signs" \in Files /\ "world" \in Files /\ mem["signs"] \in Nat /\ version \in Nat
      /\ mem["signs"] <= mem["signs"]
      /\ \A t \in Threads : th[t] \in ThreadStates /\ th[t].job # "reload"
  BY <1>0, SignsAreNumbers DEF WriterInv, TypeOK, NoReloads, Files
<1>b. ASSUME NEW fs, change(fs) PROVE mem["signs"] <= mem'["signs"] /\ mem'["signs"] \in Nat
  <2>1. mem'["signs"] = version' \/ mem'["signs"] = mem["signs"]
    BY <1>b, <1>0, ChangeSigns
  <2>2. QED
    BY <1>b, <1>0, <1>a, <2>1, ChangeSigns DEF SignsOrdered
\* Steps that leave every thread alone.
<1>1. CASE UNCHANGED vars
  BY <1>1, <1>a, KeepAside DEF vars
<1>2. ASSUME NEW fs \in EditKinds, Edit(fs) PROVE KeepInv'
  BY <1>2, <1>b, KeepAside DEF Edit
<1>3. ASSUME LoadedBinary \/ Listen \/ requestSave \/ Clock PROVE KeepInv'
  BY <1>3, <1>a, KeepAside DEF LoadedBinary, Listen, requestSave, Clock
\* A job begins.
<1>4. ASSUME NEW t \in Threads, NEW job, NEW f \in Files, Begin(t, job, f),
             UNCHANGED <<file, broken>>, mem["signs"] <= mem'["signs"], mem'["signs"] \in Nat
      PROVE  KeepInv'
  BY <1>4, StartsAside, KeepAside
<1>5. ASSUME NEW t \in Threads, Save(t) \/ ControlStop(t) PROVE KeepInv'
  BY <1>5, <1>4, <1>a DEF Save, ControlStop, shutdownAndExit
<1>6. ASSUME NEW t \in Threads, SignsAddOrRm(t) PROVE KeepInv'
  BY <1>6, <1>4, <1>a, <1>b DEF SignsAddOrRm
<1>7. ASSUME Convert \/ SignalStop \/ IdleStop \/ AutoBegin PROVE KeepInv'
  <2>1. MainThread \in Threads /\ AutoThread \in Threads
    BY DEF Threads
  <2>2. QED
    BY <1>7, <1>4, <1>a, <2>1 DEF Convert, SignalStop, IdleStop, AutoBegin, shutdownAndExit
<1>8. ASSUME pruneOrphanSigns PROVE KeepInv'
  <2>1. MainThread \in Threads
    BY DEF Threads
  <2>2. QED
    BY <1>8, <1>4, <1>a, <1>b, <2>1 DEF pruneOrphanSigns
\* A thread in one of the three saves.
<1>9. ASSUME NEW t \in Threads, SignsSerial(t) PROVE KeepInv'
  <2> DEFINE r == [th[t] EXCEPT !.at = "snapshot"]
  <2>1. th' = [th EXCEPT ![t] = r] /\ r.at = "snapshot" /\ UNCHANGED <<mem, since, file, broken>>
    BY <1>9, <1>a DEF SignsSerial, ThreadStates
  <2> HIDE DEF r
  <2>2. QED
    BY <2>1, KeepElsewhere DEF Aloof, WritesSigns, Carrying, Through, Ordered
<1>10. ASSUME NEW t \in Threads, Snapshot(t) PROVE KeepInv'
  <2> DEFINE r == [th[t] EXCEPT !.at = "lock", !.snap = mem[th[t].cur]]
  <2>1. /\ th' = [th EXCEPT ![t] = r] /\ r.at = "lock" /\ r.cur = th[t].cur /\ r.snap = mem[th[t].cur]
        /\ UNCHANGED <<mem, since, file, broken>> /\ th[t].at = "snapshot"
    BY <1>10, <1>a DEF Snapshot, At, ThreadStates
  <2> HIDE DEF r
  <2>2. ~Through(r)
    BY <2>1 DEF Through, Ordered
  <2>3. CASE th[t].cur = "signs"
    BY <2>1, <2>2, <2>3, KeepSaver DEF InSigns, SignStages
  <2>4. CASE th[t].cur # "signs"
    BY <2>1, <2>2, <2>4, KeepElsewhere DEF Aloof, WritesSigns
  <2>5. QED
    BY <2>3, <2>4
<1>11. ASSUME NEW t \in Threads, NothingChanged(t) PROVE KeepInv'
  <2> DEFINE r == Onward(th[t])
  <2>1. /\ th' = [th EXCEPT ![t] = r] /\ UNCHANGED <<mem, since, file, broken>>
        /\ th[t].at = "snapshot" /\ ~dirty[th[t].cur]
    BY <1>11 DEF NothingChanged, At
  <2>2. CASE th[t].cur # "signs"
    <3>1. Aloof(r)
      BY <1>a, <2>1, <2>2 DEF Aloof, WritesSigns, Carrying, Through, Ordered, Onward, ThreadStates, Files
    <3>2. QED
      BY <2>1, <3>1, KeepElsewhere
  <2>3. CASE th[t].cur = "signs"
    <3>1. InSigns(th[t])
      BY <2>1, <2>3 DEF InSigns, SignStages
    <3>2. file["signs"] = mem["signs"]
      BY <1>0, <2>1, <2>3, <3>1 DEF SaverCarries, Carries
    <3>3. since[t]["signs"] <= mem["signs"]
      BY DEF KeepInv, SinceBehind
    <3>4. ~WritesSigns(r)
      BY <1>a, <2>1, <2>3 DEF WritesSigns, Carrying, Onward, ThreadStates
    <3> HIDE DEF r
    <3>5. QED
      BY <2>1, <3>1, <3>2, <3>3, <3>4, KeepSaver
  <2>4. QED
    BY <2>2, <2>3
<1>12. ASSUME NEW t \in Threads, SaveLock(t) PROVE KeepInv'
  <2> DEFINE r == [th[t] EXCEPT !.at = "open"]
  <2>1. /\ th' = [th EXCEPT ![t] = r] /\ r.at = "open" /\ r.cur = th[t].cur /\ r.snap = th[t].snap
        /\ UNCHANGED <<mem, since, file, broken>> /\ th[t].at \in Carrying
    BY <1>12, <1>a DEF SaveLock, At, Carrying, ThreadStates
  <2> HIDE DEF r
  <2>2. QED
    BY <2>1, KeepMoves DEF Carrying
<1>13. ASSUME NEW t \in Threads, OpenTmp(t) PROVE KeepInv'
  <2> DEFINE r == [th[t] EXCEPT !.at = "write"]
  <2>1. /\ th' = [th EXCEPT ![t] = r] /\ r.at = "write" /\ r.cur = th[t].cur /\ r.snap = th[t].snap
        /\ UNCHANGED <<mem, since, file, broken>> /\ th[t].at \in Carrying
    BY <1>13, <1>a DEF OpenTmp, Put, At, Carrying, ThreadStates
  <2> HIDE DEF r
  <2>2. QED
    BY <2>1, KeepMoves DEF Carrying
<1>14. ASSUME NEW t \in Threads, WriteTmp(t) PROVE KeepInv'
  <2> DEFINE r == [th[t] EXCEPT !.at = "rename"]
  <2>1. /\ th' = [th EXCEPT ![t] = r] /\ r.at = "rename" /\ r.cur = th[t].cur /\ r.snap = th[t].snap
        /\ UNCHANGED <<mem, since, file, broken>> /\ th[t].at \in Carrying
    BY <1>14, <1>a DEF WriteTmp, Put, At, Carrying, ThreadStates
  <2> HIDE DEF r
  <2>2. QED
    BY <2>1, KeepMoves DEF Carrying
<1>15. ASSUME NEW t \in Threads, RenameTmp(t) PROVE KeepInv'
  <2> DEFINE r == [th[t] EXCEPT !.at = "syncDir"]
  <2>1. /\ th' = [th EXCEPT ![t] = r] /\ r.at = "syncDir" /\ r.cur = th[t].cur /\ r.snap = th[t].snap
        /\ UNCHANGED <<mem, since, broken>> /\ th[t].at = "rename"
    BY <1>15, <1>a DEF RenameTmp, At, ThreadStates
  <2>2. tmp[th[t].cur].v = th[t].snap /\ tmp[th[t].cur].whole
    BY <2>1 DEF WriterInv, OneWriter, RenameReady
  <2>3. file'["signs"] = IF th[t].cur = "signs" THEN th[t].snap ELSE file["signs"]
    BY <1>15, <1>0, <1>a, <2>2 DEF RenameTmp, TypeOK
  <2> HIDE DEF r
  <2>4. QED
    BY <2>1, <2>3, KeepMoves DEF Carrying
<1>16. ASSUME NEW t \in Threads, SyncDir(t) \/ SyncDirUnsupported(t) PROVE KeepInv'
  BY <1>16, KeepEnds DEF SyncDir, SyncDirUnsupported, At, Carrying
<1>17. ASSUME NEW t \in Threads, SyncDirFails(t) \/ WriteFails(t) PROVE KeepInv'
  BY <1>17, KeepEnds DEF SyncDirFails, WriteFails, At, Carrying
<1>18. ASSUME NEW t \in Threads, SignsReturn(t) PROVE KeepInv'
  <2> DEFINE r == Onward(th[t])
  <2>1. /\ th[t].at = "flag" /\ th[t].cur = "signs" /\ th' = [th EXCEPT ![t] = r]
        /\ UNCHANGED <<mem, since, file, broken>>
    BY <1>18, <1>0 DEF SignsReturn, At, StagesOfSigns
  <2>2. InSigns(th[t]) /\ Through(th[t])
    BY <2>1 DEF InSigns, SignStages, Through
  <2>3. since[t]["signs"] <= file["signs"] \/ broken["signs"]
    BY <2>2 DEF KeepInv, LeavesFound
  <2>4. ~WritesSigns(r)
    BY <1>a, <2>1 DEF WritesSigns, Carrying, Onward, ThreadStates
  <2> HIDE DEF r
  <2>5. QED
    BY <2>1, <2>2, <2>3, <2>4, KeepSaver
\* The end of a job, and of the process.
<1>19. ASSUME NEW t \in Threads, JobDone(t) PROVE KeepInv'
  <2>1. Aloof(Resting)
    BY DEF Aloof, WritesSigns, Carrying, Through, Ordered, Resting
  <2>2. QED
    BY <1>19, <2>1, KeepElsewhere DEF JobDone
<1>20. ASSUME Restart PROVE KeepInv'
  <2>1. \A u \in Threads : th'[u] = Resting /\ since'[u]["signs"] = 0
    BY <1>20, <1>a DEF Restart, Zero
  <2>2. Aloof(Resting)
    BY DEF Aloof, WritesSigns, Carrying, Through, Ordered, Resting
  <2>3. mem' \in [Files -> Versions] /\ Versions \subseteq Nat
    BY <1>20, BoundsAssumption DEF Restart, Versions
  <2>4. mem'["signs"] \in Nat
    BY <1>a, <2>3
  <2>5. QED
    BY <2>1, <2>2, <2>4 DEF KeepInv, SinceBehind, WritesFound, LeavesFound, Aloof, Through
\* No reload is under way.
<1>21. ASSUME NEW t \in Threads,
              SignsReload(t) \/ ReloadRead(t) \/ ReloadAssign(t) \/ ReloadPrune(t)
       PROVE  KeepInv'
  BY <1>21, <1>0, <1>a DEF SignsReload, ReloadRead, ReloadAssign, ReloadPrune, At, NoReloads, TypeOK,
     Budgets
<1>22. QED
  BY <1>1, <1>2, <1>3, <1>5, <1>6, <1>7, <1>8, <1>9, <1>10, <1>11, <1>12, <1>13, <1>14, <1>15, <1>16,
     <1>17, <1>18, <1>19, <1>20, <1>21 DEF Next, Step, SaveStep

\* A control `save` and every clean stop leave in the sign file the list they found, whatever
\* other save was under way, unless the write failed (saveSigns), as long as no reload swaps
\* the list.
THEOREM SavesKeepSigns == MaxReloads = 0 => (Spec => []SaveKeepsSigns)
<1> SUFFICES ASSUME MaxReloads = 0 PROVE Spec => []SaveKeepsSigns
  OBVIOUS
<1>1. WriterInv /\ SignInv /\ [Next]_vars => SignInv'
  BY SignsStep
<1>2. WriterInv /\ SignInv /\ KeepInv /\ [Next]_vars => KeepInv'
  BY KeepStep
<1>3. WriterInv /\ KeepInv => SaveKeepsSigns
  BY SignsAreNumbers, SinceAreNumbers DEF KeepInv, LeavesFound, SaveKeepsSigns, Through, Ordered, At
<1>4. QED
  BY <1>1, <1>2, <1>3, SignsInit, KeepInit, WriterKept, PTL DEF Spec
-----------------------------------------------------------------------------
(***************************************************************************)
(* What a departure asked for.  A table with a clean flag has been taken   *)
(* by some save, and so has everything a restart may find; and from the    *)
(* moment SaveSched::begin consumes a request, a table the request was     *)
(* about is still ahead of the autosave thread, or has been taken.         *)
(***************************************************************************)
Later(r, f) == (r.cur = "world" /\ f # "world") \/ (r.cur = "players" /\ f = "signs")
Ahead(r, f) ==
    \/ r.at \in {"serial", "snapshot"} /\ r.cur = f
    \/ r.at \notin {"idle", "done"} /\ Later(r, f)

Numbered == \A f \in Files : mem[f] <= version /\ taken[f] <= version
AskedBehind == \A f \in Files : asked[f] <= mem[f]
CleanTaken == \A f \in Files : dirty[f] \/ mem[f] <= taken[f]
DiskTaken == \A f \in Files : \A v \in durable[f] \union {file[f]} : v <= taken[f]
SnapTaken == \A t \in Threads : th[t].at \in Carrying => th[t].snap <= taken[th[t].cur]
AutoJobs == th[AutoThread].job \in {None, "autosave", "departure", "stop"}
RequestCovered ==
    \A f \in Files : sched.requested \/ Ahead(th[AutoThread], f) \/ asked[f] <= taken[f]

TablesInv == Numbered /\ AskedBehind /\ CleanTaken /\ DiskTaken /\ SnapTaken
AutoInv == AutoJobs /\ RequestCovered
TakenInv == TablesInv /\ AutoInv

LEMMA TablesAreNumbers ==
    ASSUME WriterInv
    PROVE  /\ \A f \in Files : /\ mem[f] \in Nat /\ file[f] \in Nat /\ durable[f] \subseteq Nat
                               /\ taken[f] \in Nat /\ asked[f] \in Nat /\ dirty[f] \in BOOLEAN
           /\ \A t \in Threads : th[t].snap \in Nat /\ th[t].cur \in Files
           /\ version \in Nat /\ AutoThread \in Threads /\ MainThread \in Threads
<1>1. Versions \subseteq Nat /\ Versions \union {Torn} \subseteq Int
  BY BoundsAssumption DEF Versions, Torn
<1>2. \A v \in Versions \union {Torn} : v # Torn => v \in Nat
  BY <1>1
<1>3. \A t \in Threads : th[t].cur \in Files
  BY DEF WriterInv, TypeOK, ThreadStates
<1>4. QED
  BY <1>1, <1>2, <1>3 DEF WriterInv, TypeOK, CrashSafe, SnapsWhole, Threads

LEMMA TakenInit == Init => TakenInv
<1> SUFFICES ASSUME Init PROVE TakenInv
  OBVIOUS
<1>1. \A t \in Threads : th[t] = Resting
  BY DEF Init
<1>2. AutoThread \in Threads
  BY DEF Threads
<1>3. \A f \in Files : Zero[f] = 0
  BY DEF Zero
<1>4. QED
  BY <1>1, <1>2, <1>3 DEF Init, TakenInv, TablesInv, AutoInv, Numbered, AskedBehind, CleanTaken, DiskTaken, SnapTaken, AutoJobs,
     RequestCovered, Resting, Carrying

\* The tables and the files, in a step that restarts nothing.

LEMMA TablesKept ==
    ASSUME WriterInv, TablesInv, version' \in Nat, version <= version',
           \A f \in Files : mem'[f] \in Nat /\ mem[f] <= mem'[f] /\ mem'[f] <= version',
           \A f \in Files : taken'[f] \in Nat /\ taken[f] <= taken'[f] /\ taken'[f] <= version',
           \A f \in Files : asked'[f] = asked[f] \/ asked'[f] = mem'[f],
           \A f \in Files : dirty'[f] \/ UNCHANGED <<mem[f], dirty[f]>> \/ mem'[f] <= taken'[f],
           \A f \in Files : \A v \in durable'[f] \union {file'[f]} :
               v \in durable[f] \union {file[f]} \/ (v \in Nat /\ v <= taken[f]),
           \A u \in Threads : th'[u].at \in Carrying =>
               \/ th[u].at \in Carrying /\ th'[u].cur = th[u].cur /\ th'[u].snap = th[u].snap
               \/ th'[u].cur \in Files /\ th'[u].snap = mem[th'[u].cur]
                  /\ mem[th'[u].cur] <= taken'[th'[u].cur]
    PROVE  TablesInv'
<1>1. AskedBehind' /\ Numbered'
  BY TablesAreNumbers DEF TablesInv, AskedBehind, Numbered
<1>2. CleanTaken'
  BY TablesAreNumbers DEF TablesInv, CleanTaken
<1>3. DiskTaken'
  <2> SUFFICES ASSUME NEW f \in Files, NEW v \in durable'[f] \union {file'[f]} PROVE v <= taken'[f]
    BY DEF DiskTaken
  <2>1. v \in durable[f] \union {file[f]} => v <= taken[f] /\ v \in Nat
    BY TablesAreNumbers DEF TablesInv, DiskTaken
  <2>2. CASE v \in durable[f] \union {file[f]}
    BY <2>1, <2>2, TablesAreNumbers
  <2>3. CASE v \in Nat /\ v <= taken[f]
    BY <2>3, TablesAreNumbers
  <2>4. QED
    BY <2>2, <2>3
<1>4. SnapTaken'
  BY TablesAreNumbers DEF TablesInv, SnapTaken
<1>5. QED
  BY <1>1, <1>2, <1>3, <1>4 DEF TablesInv
\* The autosave thread's job, in a step that is not a new request.
LEMMA AutoKept ==
    ASSUME WriterInv, AutoInv, UNCHANGED <<asked, th[AutoThread]>>,
           sched.requested => sched'.requested,
           \A f \in Files : taken'[f] \in Nat /\ taken[f] <= taken'[f]
    PROVE  AutoInv'
<1>1. \A f \in Files : asked[f] <= taken[f] => asked'[f] <= taken'[f]
  BY TablesAreNumbers
<1>2. UNCHANGED asked /\ th'[AutoThread] = th[AutoThread]
  OBVIOUS
<1>3. QED
  BY <1>1, <1>2 DEF AutoInv, AutoJobs, RequestCovered, Ahead

\* A thread moves on inside a save: to a later stage of the same table, or to the next one.
LEMMA AutoWalks ==
    ASSUME WriterInv, SignInv, AutoInv, UNCHANGED <<asked, sched>>,
           \A f \in Files : taken'[f] \in Nat /\ taken[f] <= taken'[f],
           NEW t \in Threads, th[t].at \notin {"idle", "done"},
           NEW r, th' = [th EXCEPT ![t] = r],
           \/ /\ r.cur = th[t].cur /\ r.job = th[t].job /\ r.at \notin {"idle", "done"}
              /\ \/ r.at = "snapshot"
                 \/ th[t].at # "serial" /\ (th[t].at = "snapshot" => asked[th[t].cur] <= taken'[th[t].cur])
           \/ /\ r = Onward(th[t]) /\ th[t].at # "serial"
              /\ th[t].at = "snapshot" => asked[th[t].cur] <= taken'[th[t].cur]
    PROVE  AutoInv'
<1>1. CASE t # AutoThread
  BY <1>1, AutoKept DEF WriterInv, TypeOK
<1>2. CASE t = AutoThread
  <2>1. th'[AutoThread] = r /\ th[t] \in ThreadStates
    BY <1>2 DEF WriterInv, TypeOK
  <2>2. th[t].job # "convert" /\ th[t].cur \in Files
    BY <1>2, <2>1 DEF AutoInv, AutoJobs, ThreadStates, None
  <2>3. r.job = th[t].job
    BY <2>1, <2>2 DEF Onward, ThreadStates, Files
  <2>4. \A f \in Files : Ahead(th[t], f) => Ahead(r, f) \/ asked[f] <= taken'[f]
    BY <2>1, <2>2 DEF Ahead, Later, Onward, ThreadStates, Files
  <2>5. \A f \in Files : asked[f] <= taken[f] => asked[f] <= taken'[f]
    BY TablesAreNumbers
  <2>6. QED
    BY <1>2, <2>1, <2>3, <2>4, <2>5 DEF AutoInv, AutoJobs, RequestCovered
<1>3. QED
  BY <1>1, <1>2

\* A thread that carries nothing begins a job, which for the autosave thread is a full save.
LEMMA TakenBegins ==
    ASSUME WriterInv, TakenInv, NEW t \in Threads, NEW job, NEW f \in Files, Begin(t, job, f),
           t = AutoThread => f = "world" /\ job \in {"autosave", "departure", "stop"},
           t # AutoThread => UNCHANGED sched,
           UNCHANGED <<file, durable, taken, asked>>,
           version' \in Nat, version <= version',
           \A g \in Files : mem'[g] \in Nat /\ mem[g] <= mem'[g] /\ mem'[g] <= version',
           \A g \in Files : dirty'[g] \/ UNCHANGED <<mem[g], dirty[g]>>
    PROVE  TakenInv'
<1>1. th[t] \in ThreadStates /\ AutoThread \in Threads
  BY TablesAreNumbers DEF WriterInv, TypeOK
<1>2. /\ th'[t] = [th[t] EXCEPT !.at = FirstStage(f), !.job = job, !.cur = f]
      /\ \A u \in Threads \ {t} : th'[u] = th[u]
  BY DEF WriterInv, TypeOK, Begin
<1>3. th'[t].at = FirstStage(f) /\ th'[t].job = job /\ th'[t].cur = f
  BY <1>1, <1>2 DEF ThreadStates
<1>4. th'[t].at \notin Carrying
  BY <1>3 DEF FirstStage, Carrying
<1>5. TablesInv'
  <2>1. \A u \in Threads : th'[u].at \in Carrying => th[u].at \in Carrying /\ th'[u] = th[u]
    BY <1>2, <1>4
  <2>2. \A g \in Files : \A v \in durable'[g] \union {file'[g]} : v \in durable[g] \union {file[g]}
    OBVIOUS
  <2>3. \A g \in Files : /\ taken'[g] \in Nat /\ taken[g] <= taken'[g] /\ taken'[g] <= version'
                         /\ asked'[g] = asked[g]
    BY TablesAreNumbers DEF TakenInv, TablesInv, Numbered
  <2>4. QED
    BY <2>1, <2>2, <2>3, TablesKept DEF TakenInv
<1>6. AutoInv'
  <2>1. CASE t # AutoThread
    BY <1>1, <1>2, <2>1, AutoKept, TablesAreNumbers DEF TakenInv
  <2>2. CASE t = AutoThread
    <3>1. AutoJobs'
      BY <1>3, <2>2 DEF AutoJobs
    <3>2. \A g \in Files : Ahead(th'[AutoThread], g)
      BY <1>3, <2>2 DEF Ahead, Later, FirstStage, Files
    <3>3. QED
      BY <3>1, <3>2 DEF AutoInv, RequestCovered
  <2>3. QED
    BY <2>1, <2>2
<1>7. QED
  BY <1>5, <1>6 DEF TakenInv

\* The end of a write, whatever became of it.
LEMMA TakenEnds ==
    ASSUME WriterInv, SignInv, TakenInv, NEW t \in Threads, NEW ok \in BOOLEAN, Returns(t, ok),
           th[t].at \in Carrying, UNCHANGED <<mem, version, taken, asked, sched, file>>,
           \A f \in Files : durable'[f] \subseteq durable[f] \union {file[f]}
    PROVE  TakenInv'
<1>1. th[t] \in ThreadStates
  BY DEF WriterInv, TypeOK
<1>2. \A f \in Files : dirty'[f] \/ UNCHANGED dirty[f]
  BY TablesAreNumbers DEF Returns
<1>3. PICK r : /\ th' = [th EXCEPT ![t] = r] /\ r.at \notin Carrying
               /\ \/ r.cur = th[t].cur /\ r.job = th[t].job /\ r.at = "flag"
                  \/ r = Onward(th[t])
  <2>1. CASE th[t].cur = "signs"
    <3> DEFINE r == [th[t] EXCEPT !.at = "flag", !.ok = ok]
    <3>1. th' = [th EXCEPT ![t] = r] /\ r.at = "flag" /\ r.cur = th[t].cur /\ r.job = th[t].job
      BY <1>1, <2>1 DEF Returns, ThreadStates
    <3> HIDE DEF r
    <3>2. QED
      BY <3>1 DEF Carrying
  <2>2. CASE th[t].cur # "signs"
    <3> DEFINE r == Onward(th[t])
    <3>1. th' = [th EXCEPT ![t] = r]
      BY <2>2 DEF Returns
    <3>2. r.at \notin Carrying
      BY <1>1, <2>2 DEF Carrying, ThreadStates, Onward, Files
    <3>3. QED
      BY <3>1, <3>2
  <2>3. QED
    BY <2>1, <2>2
<1>4. \A u \in Threads : th'[u] = IF u = t THEN r ELSE th[u]
  BY <1>3 DEF WriterInv, TypeOK
<1>5. TablesInv'
  <2>1. \A u \in Threads : th'[u].at \in Carrying => th[u].at \in Carrying /\ th'[u] = th[u]
    BY <1>3, <1>4
  <2>2. \A f \in Files : \A v \in durable'[f] \union {file'[f]} : v \in durable[f] \union {file[f]}
    OBVIOUS
  <2>3. /\ version' \in Nat /\ version <= version'
        /\ \A f \in Files :
             /\ taken'[f] \in Nat /\ taken[f] <= taken'[f] /\ taken'[f] <= version'
             /\ mem'[f] \in Nat /\ mem[f] <= mem'[f] /\ mem'[f] = mem[f] /\ mem'[f] <= version'
             /\ asked'[f] = asked[f]
    BY TablesAreNumbers DEF TakenInv, TablesInv, Numbered
  <2>4. QED
    BY <1>2, <2>1, <2>2, <2>3, TablesKept DEF TakenInv
<1>6. AutoInv'
  <2>1. AutoInv
    BY DEF TakenInv
  <2>2. \A f \in Files : taken'[f] \in Nat /\ taken[f] <= taken'[f]
    BY TablesAreNumbers
  <2>3. th[t].at \notin {"idle", "done", "serial", "snapshot"}
    BY DEF Carrying
  <2>4. r.at = "flag" \/ r = Onward(th[t])
    BY <1>3
  <2>5. QED
    BY <1>3, <2>1, <2>2, <2>3, <2>4, AutoWalks
<1>7. QED
  BY <1>5, <1>6 DEF TakenInv
\* A stage of a save that leaves every table, and what was taken of it, alone.
LEMMA TakenMoves ==
    ASSUME WriterInv, SignInv, TakenInv, NEW t \in Threads, NEW r, th' = [th EXCEPT ![t] = r],
           UNCHANGED <<mem, version, taken, asked, sched>>,
           \A f \in Files : dirty'[f] \/ UNCHANGED dirty[f],
           \A f \in Files : \A v \in durable'[f] \union {file'[f]} :
               v \in durable[f] \union {file[f]} \/ (v \in Nat /\ v <= taken[f]),
           r.at \in Carrying => th[t].at \in Carrying /\ r.cur = th[t].cur /\ r.snap = th[t].snap,
           th[t].at \notin {"idle", "done"},
           \/ /\ r.cur = th[t].cur /\ r.job = th[t].job /\ r.at \notin {"idle", "done"}
              /\ r.at = "snapshot" \/ th[t].at \notin {"serial", "snapshot"}
           \/ /\ r = Onward(th[t]) /\ th[t].at # "serial"
              /\ th[t].at = "snapshot" => asked[th[t].cur] <= taken[th[t].cur]
    PROVE  TakenInv'
<1>1. \A u \in Threads : th'[u] = IF u = t THEN r ELSE th[u]
  BY DEF WriterInv, TypeOK
<1>2. /\ version' \in Nat /\ version <= version'
      /\ \A f \in Files :
           /\ taken'[f] \in Nat /\ taken[f] <= taken'[f] /\ taken'[f] <= version'
           /\ mem'[f] \in Nat /\ mem[f] <= mem'[f] /\ mem'[f] = mem[f] /\ mem'[f] <= version'
           /\ asked'[f] = asked[f]
  BY TablesAreNumbers DEF TakenInv, TablesInv, Numbered
<1>3. TablesInv'
  <2>1. \A u \in Threads : th'[u].at \in Carrying =>
          th[u].at \in Carrying /\ th'[u].cur = th[u].cur /\ th'[u].snap = th[u].snap
    BY <1>1
  <2>2. QED
    BY <1>2, <2>1, TablesKept DEF TakenInv
<1>4. AutoInv'
  <2>1. AutoInv
    BY DEF TakenInv
  <2>2. th[t].cur \in Files /\ taken'[th[t].cur] = taken[th[t].cur]
    BY TablesAreNumbers
  <2>3. QED
    BY <1>2, <2>1, <2>2, AutoWalks
<1>5. QED
  BY <1>3, <1>4 DEF TakenInv

\* Steps of the tables and of the clock, with every thread where it was.
LEMMA TakenAside ==
    ASSUME WriterInv, TakenInv, UNCHANGED <<th, file, durable, taken>>,
           \/ UNCHANGED asked /\ (sched.requested => sched'.requested)
           \/ asked' = mem' /\ sched'.requested,
           version' \in Nat, version <= version',
           \A f \in Files : mem'[f] \in Nat /\ mem[f] <= mem'[f] /\ mem'[f] <= version',
           \A f \in Files : dirty'[f] \/ UNCHANGED <<mem[f], dirty[f]>>
    PROVE  TakenInv'
<1>1. \A f \in Files : taken'[f] \in Nat /\ taken[f] <= taken'[f] /\ taken'[f] <= version'
  BY TablesAreNumbers DEF TakenInv, TablesInv, Numbered
<1>2. TablesInv'
  BY <1>1, TablesKept DEF TakenInv
<1>3. AutoInv'
  <2>1. AutoInv
    BY DEF TakenInv
  <2>2. CASE UNCHANGED asked /\ (sched.requested => sched'.requested)
    BY <1>1, <2>1, <2>2, AutoKept
  <2>3. CASE sched'.requested
    BY <2>1, <2>3 DEF AutoInv, AutoJobs, RequestCovered
  <2>4. QED
    BY <2>2, <2>3
<1>4. QED
  BY <1>2, <1>3 DEF TakenInv

LEMMA ChangeTables ==
    ASSUME WriterInv, TakenInv, NEW fs, change(fs)
    PROVE  /\ version' \in Nat /\ version <= version'
           /\ \A f \in Files : mem'[f] \in Nat /\ mem[f] <= mem'[f] /\ mem'[f] <= version'
           /\ \A f \in Files : dirty'[f] \/ UNCHANGED <<mem[f], dirty[f]>>
<1>1. \A f \in Files : mem[f] <= version
  BY DEF TakenInv, TablesInv, Numbered
<1>2. /\ version' = version + 1
      /\ \A f \in Files : /\ mem'[f] = IF f \in fs THEN version + 1 ELSE mem[f]
                          /\ dirty'[f] = (f \in fs \/ dirty[f])
  BY DEF change
<1>3. ASSUME NEW f \in Files PROVE dirty'[f] \/ UNCHANGED <<mem[f], dirty[f]>>
  <2>1. dirty[f] \in BOOLEAN
    BY TablesAreNumbers
  <2>2. QED
    BY <1>2, <2>1
<1>4. QED
  BY <1>1, <1>2, <1>3, TablesAreNumbers
LEMMA TakenStep ==
    ASSUME MaxReloads = 0, WriterInv, SignInv, TakenInv, [Next]_vars
    PROVE  TakenInv'
<1> USE DEF disk, locks, history
<1>0. TypeOK /\ StagesOfSigns /\ NoReloads
  BY DEF WriterInv, SignInv
<1>a. /\ \A f \in Files : /\ mem[f] \in Nat /\ mem[f] <= mem[f] /\ mem[f] <= version
                          /\ taken[f] \in Nat /\ taken[f] <= version
      /\ version \in Nat /\ version <= version
      /\ MainThread \in Threads /\ AutoThread \in Threads
      /\ MainThread # AutoThread /\ AutoThread \notin CtlThreads
      /\ "world" \in Files /\ "players" \in Files /\ "signs" \in Files
  BY TablesAreNumbers, ThreadsAssumption DEF TakenInv, TablesInv, Numbered, Files
<1>b. \A t \in Threads : th[t] \in ThreadStates /\ th[t].cur \in Files
  BY <1>0 DEF TypeOK, ThreadStates
\* The tables change, or the clock moves.
<1>1. CASE UNCHANGED vars
  BY <1>1, <1>a, TakenAside DEF vars
<1>2. ASSUME NEW fs \in EditKinds, Edit(fs) PROVE TakenInv'
  BY <1>2, ChangeTables, TakenAside DEF Edit
<1>3. ASSUME LoadedBinary \/ Listen \/ requestSave \/ Clock PROVE TakenInv'
  BY <1>3, <1>0, <1>a, TakenAside DEF LoadedBinary, Listen, requestSave, Clock, TypeOK
\* A job begins.
<1>4. ASSUME NEW t \in Threads, NEW job, NEW f \in Files, Begin(t, job, f),
             t = AutoThread => f = "world" /\ job \in {"autosave", "departure", "stop"},
             t # AutoThread => UNCHANGED sched,
             UNCHANGED <<mem, version, file, durable, taken, asked>>,
             \A g \in Files : dirty'[g] \/ UNCHANGED dirty[g]
      PROVE  TakenInv'
  BY <1>4, <1>a, TakenBegins
<1>5. ASSUME NEW t \in Threads, Save(t) \/ ControlStop(t) PROVE TakenInv'
  BY <1>5, <1>4, <1>a DEF Save, Command, ControlStop, shutdownAndExit
<1>6. ASSUME NEW t \in Threads, SignsAddOrRm(t) PROVE TakenInv'
  BY <1>6, <1>a, ChangeTables, TakenBegins DEF SignsAddOrRm, Command
<1>7. ASSUME pruneOrphanSigns PROVE TakenInv'
  BY <1>7, <1>a, ChangeTables, TakenBegins DEF pruneOrphanSigns
<1>8. ASSUME Convert PROVE TakenInv'
  <2>1. \A g \in Files : dirty'[g] \/ UNCHANGED dirty[g]
    BY <1>8, <1>0 DEF Convert, TypeOK
  <2>2. QED
    BY <1>8, <1>4, <1>a, <2>1 DEF Convert
<1>9. ASSUME SignalStop \/ IdleStop PROVE TakenInv'
  BY <1>9, <1>4, <1>a DEF SignalStop, IdleStop, shutdownAndExit
<1>10. ASSUME AutoBegin PROVE TakenInv'
  <2>1. due \in {"autosave", "departure", "stop"}
    BY <1>10 DEF AutoBegin, due
  <2>2. QED
    BY <1>10, <1>4, <1>a, <2>1 DEF AutoBegin
\* A thread in one of the three saves.
<1>11. ASSUME NEW t \in Threads, SignsSerial(t) \/ SaveLock(t) \/ OpenTmp(t) \/ WriteTmp(t)
       PROVE  TakenInv'
  <2>1. PICK stage \in {"snapshot", "open", "write", "rename"} :
          /\ th' = [th EXCEPT ![t].at = stage]
          /\ stage = "snapshot" \/ th[t].at \in Carrying
          /\ th[t].at \notin {"idle", "done"}
    BY <1>11 DEF SignsSerial, SaveLock, OpenTmp, WriteTmp, Put, At, Carrying
  <2> DEFINE r == [th[t] EXCEPT !.at = stage]
  <2>2. th' = [th EXCEPT ![t] = r] /\ r.at = stage /\ r.cur = th[t].cur /\ r.snap = th[t].snap
        /\ r.job = th[t].job
    BY <1>b, <2>1 DEF ThreadStates
  <2>3. UNCHANGED <<mem, version, dirty, file, durable, taken, asked, sched>>
    BY <1>11 DEF SignsSerial, SaveLock, OpenTmp, WriteTmp, Put
  <2> HIDE DEF r
  <2>4. r.at \notin {"idle", "done"} /\ (r.at = "snapshot" \/ th[t].at \notin {"serial", "snapshot"})
        /\ (r.at \in Carrying => th[t].at \in Carrying)
    BY <2>1, <2>2 DEF Carrying
  <2>5. QED
    BY <2>1, <2>2, <2>3, <2>4, TakenMoves
<1>12. ASSUME NEW t \in Threads, Snapshot(t) PROVE TakenInv'
  <2> DEFINE f == th[t].cur
             r == [th[t] EXCEPT !.at = "lock", !.snap = mem[f]]
  <2>1. /\ th' = [th EXCEPT ![t] = r] /\ r.at = "lock" /\ r.cur = f /\ r.snap = mem[f]
        /\ r.job = th[t].job /\ th[t].at = "snapshot" /\ f \in Files
    BY <1>12, <1>b DEF Snapshot, At, ThreadStates
  <2>2. /\ UNCHANGED <<mem, version, file, durable, asked, sched>>
        /\ dirty' = [dirty EXCEPT ![f] = FALSE]
        /\ taken' = [taken EXCEPT ![f] = newer(taken[f], mem[f])]
    BY <1>12 DEF Snapshot
  <2>3. /\ mem[f] <= taken'[f] /\ asked[f] <= taken'[f]
        /\ \A g \in Files : taken'[g] \in Nat /\ taken[g] <= taken'[g] /\ taken'[g] <= version
    BY <1>0, <1>a, <2>1, <2>2, TablesAreNumbers
       DEF TypeOK, newer, TakenInv, TablesInv, AskedBehind
  <2>4. \A u \in Threads : th'[u] = IF u = t THEN r ELSE th[u]
    BY <1>0, <2>1 DEF TypeOK
  <2>5. \A g \in Files : dirty'[g] \/ UNCHANGED <<mem[g], dirty[g]>> \/ mem'[g] <= taken'[g]
    BY <1>0, <2>2, <2>3 DEF TypeOK
  <2> HIDE DEF r, f
  <2>6. TablesInv'
    BY <1>a, <2>1, <2>2, <2>3, <2>4, <2>5, TablesKept DEF TakenInv
  <2>7. AutoInv'
    <3>1. th[t].cur = f
      BY DEF f
    <3>2. QED
      BY <2>1, <2>2, <2>3, <3>1, AutoWalks DEF TakenInv
  <2>8. QED
    BY <2>6, <2>7 DEF TakenInv
<1>13. ASSUME NEW t \in Threads, NothingChanged(t) PROVE TakenInv'
  <2> DEFINE f == th[t].cur
             r == Onward(th[t])
  <2>1. /\ th' = [th EXCEPT ![t] = r] /\ th[t].at = "snapshot" /\ ~dirty[f] /\ f \in Files
        /\ UNCHANGED <<mem, version, dirty, file, durable, taken, asked, sched>>
    BY <1>13, <1>b DEF NothingChanged, At
  <2>2. asked[f] <= taken[f]
    BY <1>a, <2>1, TablesAreNumbers DEF TakenInv, TablesInv, AskedBehind, CleanTaken
  <2>3. r.at \notin Carrying
    BY <1>b DEF Onward, ThreadStates, Files, Carrying
  <2> HIDE DEF r
  <2>4. QED
    BY <2>1, <2>2, <2>3, TakenMoves DEF r
<1>14. ASSUME NEW t \in Threads, RenameTmp(t) PROVE TakenInv'
  <2> DEFINE r == [th[t] EXCEPT !.at = "syncDir"]
  <2>1. /\ th' = [th EXCEPT ![t] = r] /\ r.at = "syncDir" /\ r.cur = th[t].cur /\ r.snap = th[t].snap
        /\ r.job = th[t].job /\ th[t].at = "rename"
        /\ UNCHANGED <<mem, version, dirty, taken, asked, sched>>
    BY <1>14, <1>b DEF RenameTmp, At, ThreadStates
  <2>2. /\ tmp[th[t].cur].v = th[t].snap /\ tmp[th[t].cur].whole /\ tmp[th[t].cur].synced
        /\ th[t].snap <= taken[th[t].cur] /\ th[t].snap \in Nat
    BY <2>1, TablesAreNumbers
       DEF WriterInv, OneWriter, RenameReady, TakenInv, TablesInv, SnapTaken, Carrying
  <2>3. \A f \in Files : \A v \in durable'[f] \union {file'[f]} :
          v \in durable[f] \union {file[f]} \/ (v \in Nat /\ v <= taken[f])
    BY <1>14, <1>0, <2>2 DEF RenameTmp, TypeOK
  <2> HIDE DEF r
  <2>4. QED
    BY <2>1, <2>3, TakenMoves DEF Carrying
<1>15. ASSUME NEW t \in Threads, SyncDir(t) PROVE TakenInv'
  <2>1. \A f \in Files : durable'[f] \subseteq durable[f] \union {file[f]}
    BY <1>15, <1>0 DEF SyncDir, TypeOK
  <2>2. QED
    BY <1>15, <2>1, TakenEnds DEF SyncDir, At, Carrying
<1>16. ASSUME NEW t \in Threads, SyncDirUnsupported(t) \/ SyncDirFails(t) \/ WriteFails(t)
       PROVE  TakenInv'
  BY <1>16, TakenEnds DEF SyncDirUnsupported, SyncDirFails, WriteFails, At, Carrying
<1>17. ASSUME NEW t \in Threads, SignsReturn(t) PROVE TakenInv'
  <2> DEFINE r == Onward(th[t])
  <2>1. /\ th' = [th EXCEPT ![t] = r] /\ th[t].at = "flag"
        /\ UNCHANGED <<mem, version, file, durable, taken, asked, sched>>
    BY <1>17 DEF SignsReturn, At
  <2>2. \A f \in Files : dirty'[f] \/ UNCHANGED dirty[f]
    BY <1>17, <1>0 DEF SignsReturn, TypeOK
  <2>3. r.at \notin Carrying
    BY <1>b DEF Onward, ThreadStates, Files, Carrying
  <2> HIDE DEF r
  <2>4. QED
    BY <2>1, <2>2, <2>3, TakenMoves DEF r
\* The end of a job, and of the process.
<1>18. ASSUME NEW t \in Threads, JobDone(t) PROVE TakenInv'
  <2>1. /\ th' = [th EXCEPT ![t] = Resting] /\ th[t].at = "done"
        /\ UNCHANGED <<mem, version, dirty, file, durable, taken, asked, sched>>
    BY <1>18 DEF JobDone, At
  <2>2. \A u \in Threads : th'[u] = IF u = t THEN Resting ELSE th[u]
    BY <1>0, <2>1 DEF TypeOK
  <2>3. Resting.at = "idle" /\ Resting.job = None
    BY DEF Resting
  <2>4. TablesInv'
    BY <1>a, <2>1, <2>2, <2>3, TablesKept DEF TakenInv, Carrying
  <2>5. AutoInv'
    <3>1. CASE t # AutoThread
      BY <1>a, <2>1, <2>2, <3>1, AutoKept, TablesAreNumbers DEF TakenInv
    <3>2. CASE t = AutoThread
      BY <1>a, <2>1, <2>2, <2>3, <3>2 DEF TakenInv, AutoInv, AutoJobs, RequestCovered, Ahead
    <3>3. QED
      BY <3>1, <3>2
  <2>6. QED
    BY <2>4, <2>5 DEF TakenInv
<1>19. ASSUME Restart PROVE TakenInv'
  <2>1. PICK img \in [Files -> Versions] :
          /\ \A f \in Files : img[f] \in durable[f] \union {file[f]}
          /\ mem' = img /\ file' = img /\ durable' = [f \in Files |-> {img[f]}]
    BY <1>19 DEF Restart
  <2>2. \A f \in Files : img[f] <= taken[f] /\ img[f] \in Nat /\ mem'[f] = img[f]
                         /\ \A v \in durable'[f] \union {file'[f]} : v = img[f]
    BY <2>1, TablesAreNumbers DEF TakenInv, TablesInv, DiskTaken
  <2>3. \A u \in Threads : th'[u].at = "idle" /\ th'[u].job = None
    BY <1>19 DEF Restart, Resting
  <2>4. UNCHANGED <<taken, version>> /\ \A f \in Files : asked'[f] = 0
    BY <1>19 DEF Restart, Zero
  <2>5. TablesInv'
    BY <1>a, <2>2, <2>3, <2>4
       DEF TablesInv, Numbered, AskedBehind, CleanTaken, DiskTaken, SnapTaken, Carrying
  <2>6. AutoInv'
    BY <1>a, <2>3, <2>4 DEF AutoInv, AutoJobs, RequestCovered
  <2>7. QED
    BY <2>5, <2>6 DEF TakenInv
\* No reload is under way.
<1>20. ASSUME NEW t \in Threads,
              SignsReload(t) \/ ReloadRead(t) \/ ReloadAssign(t) \/ ReloadPrune(t)
       PROVE  TakenInv'
  BY <1>20, <1>0 DEF SignsReload, ReloadRead, ReloadAssign, ReloadPrune, At, NoReloads, TypeOK,
     Budgets
<1>21. QED
  BY <1>1, <1>2, <1>3, <1>5, <1>6, <1>7, <1>8, <1>9, <1>10, <1>11, <1>12, <1>13, <1>14, <1>15, <1>16,
     <1>17, <1>18, <1>19, <1>20 DEF Next, Step, SaveStep

\* With no request left and the autosave thread asleep, what a departing player left has been
\* taken by some save (SaveSched::begin before the snapshot), as long as no reload swaps the
\* sign list for an older one.
THEOREM DeparturesAreTaken == MaxReloads = 0 => (Spec => []DeparturesCovered)
<1> SUFFICES ASSUME MaxReloads = 0 PROVE Spec => []DeparturesCovered
  OBVIOUS
<1>1. WriterInv /\ SignInv /\ [Next]_vars => SignInv'
  BY SignsStep
<1>2. WriterInv /\ SignInv /\ TakenInv /\ [Next]_vars => TakenInv'
  BY TakenStep
<1>3. WriterInv /\ TakenInv => DeparturesCovered
  BY TablesAreNumbers DEF TakenInv, AutoInv, RequestCovered, DeparturesCovered, Ahead
<1>4. QED
  BY <1>1, <1>2, <1>3, SignsInit, TakenInit, WriterKept, PTL DEF Spec
=============================================================================
