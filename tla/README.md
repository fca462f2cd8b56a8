# TLA+ models of ewb-server

Specifications of the Eden World Builder server in this repository: what its threads do to the
state they share, and what its matchmaker does to its list of servers. They are model-checked with TLC
on small instances, and their safety properties are proved with TLAPS for every value of the
constants: every invariant and action property of a passing run that is not a liveness property. Every definition is translated from the source;
`PROJECT.json` names, for each, the lines it models (`map`), each run, each property's mutant, and
the hazards the properties are for.

## 1. Inventory

The server is one process (`src/server_posix.cpp` and the headers it includes) with these threads:
the accept loop (`main`), one **reader** per client (`handleClient`), one **writer** per client
(`clientWriter`), the autosave thread, the zone-restore thread, the control-socket accept thread with
one detached thread per connection, and the matchmaker registration thread. They share tables under
about a dozen mutexes.

| Component | State | Operations | Interacts with | What is hard | Correct when |
|---|---|---|---|---|---|
| World model (`world_store.h`, `simAction`, `worldSet`) | `g_world`, `g_colGens`, `editsDirty` under `g_worldMtx` | BUILD, MINE, BURN, PAINT; WorldEdit; load | every edit is relayed to every other client, and invalidates cached replies | the relay happens after the lock is released | a new cell never exceeds the cap; every store bumps its column's generation |
| Region replies and cache (`region_query.h`, `region_cache.h`, `serveRegion`) | `g_regionCache`, generations, `g_rgnPendingRecs`, per-client limiter | scan or hit under the world lock, push, file after the send | reads the world; fills the client's queue; the *writer* files into the cache without the world lock | stale state at filing, opposite finishing orders, columns that share a generation, counters on every exit path | a served reply is what a scan would emit; the record counter is exact; the guard bounds memory |
| Client output (`out_queue.h`, `pushHi/World/Reply/Region`, `clientWriter`, `EncodeSlots`, `closeOut`) | per-client `OutQueue`, `closing/tooSlow/dead/writing`; global encoder slots | push, take one frame at a time, requeue, encode, write, drop, join | every other part sends through it | two priorities, refusal and drop in two critical sections, requeue behind producers' backs, encode failures, a join that must return | world state is one complete FIFO; nothing leaks; a client that missed an update is dropped; a close ends |
| Persistence (`save_sched.h`, `durable_write.h`, `saveWorld`, `savePlayerPos`, `saveSigns`) | tables and dirty flags; files and temp files; `SaveSched` | autosave, departure save, control `save`/`stop`/`signs`, idle and signal stop, start-up conversion and pruning | every edit sets a flag | racing saves, consumed flags and failures, power loss, requests that arrive during a save | files are never partial; what a clean flag promises is on disk; no request is lost |
| Sessions (`handleClient`, accept loop, `hardening.h`, `eden_names.h`) | `clients`, `playerInfoMap`, `g_outs`, per-address counts | accept, JOIN, rename, evict, kick, ban, idle drop, close | owns every other per-client object | descriptor reuse, eviction racing buffered lines | one session per name; counts balanced; no action on another's descriptor |
| Name PINs (`auth.h`) | PIN table, lockouts | `/login`, `/register`, control verbs | JOIN consults it | the hash runs outside the lock | a login counts only for the live record |
| Zones, restores (`zones.h`, `zone_guard.h`) | zone table, `RevertQueue` | refuse, schedule a restore, coalesce, expire | edits, burns, output | restores are late and from another thread | every refused edit is restored on the screens that show it |
| Explosions (`explode.h`, `burn_guard.h`, `block_rules.h`) | worklist, budgets | chain, fill, charge | world, zones | caps inside the chain | never beyond budget; bounded |
| WorldEdit (`worldedit.h`) | selection, history | set, replace, undo, redo | world, output | byte budget, batch caps | undo restores what was overwritten |
| Signs (`sign_store.h`) | list, index, burst, dirty flag | SIGNP write, SIGNQ, remove, prune | world (a block's removal), persistence | burst cache vs. list | one sign per slot, none on air |
| Rate limits (`hardening.h`, `log_fold.h`) | token buckets, windows | take, charge | every handler | burst boundaries | never above rate |
| Control socket (`control.h`, `handleControlLine`) | connection count | about 40 verbs | everything | runs beside all of it | each verb is one consistent step |
| SNAPZ codec, base profile; top map; spawn and MOTD files | none or read-only | encode, load | region replies, JOIN | byte formats | round trip |
| Matchmaker (`matchmaker.h`, `edenmatch.cpp`) | registry | REGISTER, heartbeat, expiry, spawn | separate program | TTL vs. late heartbeats | lists only live worlds |
| World import/export, `edenctl`, admin console, ops scripts | files | run by hand | the server's files | -- | -- |

`PROJECT.json` has the same list with the status of each and the list of hazards, each at its line.

## 2. Plan

Order, most important first. Items 1-9 are done.

1. **RegionServe** - edits, scans, cache, relays: the part with the deepest argument in the source
   ("Why a hit is exactly a fresh reply").
2. **ClientOut** - one client's output; the detail behind the `lo` queue that RegionServe abstracts to
   one frame per reply.
3. **Persist** - saves, crashes, stops.
4. **RegionServeProofs**, **PersistProofs** - types, cache exactness, filing order, record counts and
   their bound, the LRU list; one writer per temp file, whole files, the theorems about the sign file
   and about departures.
5. **Session**, **SessionProofs** - accept, JOIN, suffix and eviction, kick and ban, close, descriptor
   reuse, per-address counts, PIN login against the operator's commands.
6. **Burn**, **Signs**, **Edits**, **WorldEdit** - what an explosion does; the sign list; the edits of
   several players against zones, switches and the operator; WorldEdit's batches and history.
   WorldEdit EXTENDS Edits, which EXTENDS Burn and Signs: one run checks the composition, and
   **WorldEditProofs** proves what it checks, from the burn and the sign list up.
7. **Matchmaker**, **Listing** - the registry, its handlers, sweeper, file and restart, the game
   servers it lists and starts; Listing is the abstract list that Matchmaker implements.
8. **MatchmakerProofs** - that refinement, and that no row is held by a handler that is gone;
   **ClientOutProofs** - the writer, the counts, the stream and the replies it files.

9. **LogFold**, **LogFoldProofs**, **Pacing**, **PacingProofs** - the tables that fold log lines, and
   the token buckets and gaps that pace a client.

Left, in this order:

10. Runs of LogFold and Pacing on small instances.
11. An abstract FIFO specification (accepted, sent, closed) that ClientOut implements, checked and
    proved.
12. Pure algorithms against reference definitions: `snap_chunk`, the zone file.

## 3. Modules and the code

### RegionServe

A cell is its column `<<x, z>>`: boxes, generations and replies look at nothing else. A reply is one
frame (ClientOut has the frame stream), and the encoded size is one unit per record and one of
header. Deflate itself is not modelled.

| State | Code |
|---|---|
| `world`, `gen`, `now` | `g_world`, `ColumnGens::gen_`, `now_` (`gen` on the slots some modelled column folds onto; the others are never bumped) |
| `cache` | `g_regionCache` as `[map, order, bytes]`, most recent first |
| `pending`, `served` | `g_rgnPendingRecs`, `RegionLimiter::served` |
| `thr[c]` | what reader `c` carries between critical sections |
| `lo[c]`, `hand[c]` | the client's world-state queue, and what its writer holds |

What `pending` should be is counted over the records themselves, each named by the place it is in
(`QueuedRecs`, `HeldRecs`).

Each critical section is an action. `Edit` is `simAction` under `g_worldMtx`; `RelayTo` and
`RelayDone` are `broadcastWorld`, one client lock at a time, after the world lock is gone;
`EditRefused` is a BUILD over the cell cap taken back out of its sender's world. `RegionScan` is
`serveRegion` up to the release of the world lock (cache lookup, or scan and stamp);
`BudgetRefuse`, `CountPending`, `GlobalGuard`, `PushRegion` and `PushCached` are its ways on.
`WriterTake`, `WriterSend`, `WriterFile`, `WriterAbandon` are the writer, which files with no
world lock. Region records are charged against a token bucket in real time; `BudgetRefuse` is that
refusal, at any time. Left out: bulk edits (BURN, WorldEdit) and `ColumnGens::bump_all`, which runs
only before anything listens.

### ClientOut

One client's `OutQueue`, its flags, its writer, and `closeOut`. A blob has a size, a region reply
a number of records, and the `k`-th record of the `n`-th accepted entry is the unit `<<n, k>>`. What was
accepted, sent and lost are sets of units, and what is on the wire, in hand and queued are sequences
of such sets, each ahead of the next, so completeness is an equation between sets and order a
relation between neighbours. `PushHi`, `PushWorld`,
`PushWorldRefused`+`dropTooSlow` (two critical sections, any number of broadcasters in between up
to `Broadcasters`), `PushReply`, `PushRegion` are the producers; `WriterTake`/`WriterLeave` is the
top of `clientWriter`, then `AcquireSlot`/`SlotTimeout`, `EncodeDone`/`EncodeFail`,
`WriteOk`/`WriteFail`, `Cleanup`; `CloseOut` and `Join` are the reader's `closeOut`.
`OtherAcquires`/`OtherReleases` are the other clients' writers on the shared encoder slots.

### Persist

What a table or a file holds is the number of the last change it includes; `Torn` is a file that is
not a whole copy of anything. A thread's job walks the calls in order; each call is split where the
code takes or releases a lock or makes a system call: snapshot under the table's lock (flag
consumed), `g_saveMtx`, open, write+fsync, rename, directory fsync, flag restored on failure.
`durable[f]` is the set of contents a power loss may leave; a rename adds to it and a directory
fsync settles it. `saveSigns` differs from the others by `g_signSaveMtx` (`serial`..`flag`).
`Restart` is a power loss, a kill or an exit at any point and the next start-up. `Clock` makes the
tick or the minimum gap pass; since only the sleeping autosave thread looks at the clock it moves
only then. The ban, op and PIN files use the same helper from single control commands and are not
modelled.

### Session

| State | Code |
|---|---|
| `opened`, `at`, `ip`, `fd`, `username`, `rec` | `clientIdCounter`; where a reader thread is; its address, descriptor, name, and the PIN record a `/login` copied |
| `clients`, `roster` | the client list and `playerInfoMap`, keyed by descriptor |
| `evicted` | `ClientOut::evicted`, set under another client's JOIN |
| `ipConns`, `wrong` | `g_ipConns`; `AuthFailureLimiter`'s count for an address |
| `shut` | descriptors on which `shutdown()` was called |
| `bans`, `auth` | `g_bans`; `g_auth`, a record being the number of the `passwd` that made it |
| `ctl` | the control thread: a ban whose holders are to be looked up, names to kick, a kick in its notice |

Descriptors come from a small set and are handed out again once closed; connection numbers are
not. `Accept` is the accept loop. `Take`, `Move`, `JoinRefused`/`JoinAllowed`, `JoinPublish` (the
one section under `clientsMutex` that finds the name taken, evicts or takes a suffix, and publishes),
`JoinAnnounce`, `LoginRead`, `LoginWrong`/`LoginClaim` are the reader; `Leave`, `removeClient`,
`CloseFd`, `Release` its way out, one action per lock. `Kick`, `KickFinds`, `KickShuts` are
`ctlKick`, which lets go of `clientsMutex` between finding a descriptor and shutting it down;
`Ban`, `BanScan`, `Passwd`, `Unpasswd`, `Unban` the other orders. `Lapse` is the window of failures
passing. A name is a sequence, the suffix its last element.

### Burn

Pure functions of a world: `simBurn` is `SvExplodeWorld` with `BurnRun` (a blast and its chain, the
fill of an expansion block and its ramps, the chain of expansion blocks, budgets and caps),
`preview_burn` the dry run that decides whether a switch forbids it. The order of visits is
kept where it decides something: the chain of TNT, the lit blocks, the cells the cell cap refuses.
`visits` counts every read of the source, the repeated ones too: `RingLooks` counts the four faces of
each corner sample of a ring that is air and unprotected when it comes round, `fill` the side above
and the side below only where they are looked at.

### Signs

`signs` is `g_signs`, `signBlocks` its index, `burst` and `stale` the cached answer to SIGNQ,
`removals` the audit lines that wait, `hand` those a thread took. `Put`, `PutOff`, `removeSigns`,
`Drain`, `Write_audit`, `serveSigns` are the operations; `SignsSpec` lets edits come from anywhere,
which is what the theorems are about, and Edits says which edits there are.

### Edits

`world`, `zones`, the two switches; `h[p]`, how far player `p`'s handler is and what it carries;
`echo`, the block whose MINE the client will send by itself; `jobs` and `pending`, the restore
queue. The ACTION handler reads the switches, the zones and the world under different locks and
in this order: `Receive` (dry run), `Verdict` (switches read again), `Check` (zones), `Sim` or
`SimBurn` (under `g_worldMtx`), `Relay`, then `DrainSigns` and `LogSigns`. `SignSent` and
`handleSignWrite` are SIGNP. The operator's `Fill`, `SignsAdd`, `SignsRm`, switches and zone verbs
are one step each; `Revert` is the restore thread taking a job. `kept` is history: what the
protected end should hold, changed only by those the zone does not stop.

### WorldEdit

`Command` looks at the zones, `Commit` decides and writes the batch under `g_worldMtx` (`Decided` is
`weCommit`: what changes and is not held, all under the cap or nothing), `History` is `UndoStore`'s
`record`, `take_undo`, `take_redo` with `trim`. `clip` is the clipboard of `Copy`, `Rotate` and
paste. `foreign` is history: where someone else has written since, or a zone kept an undo out.

### Matchmaker and Listing

| State | Code |
|---|---|
| `rows`, `file` | `Registry::entries_` (a set: order is LIST's), `eden_registry.txt` |
| `thread[c]` | handler of connection `c`: whose it is, its REGISTER, how far it is, whom it displaced |
| `regFds` | `g_regFds` |
| `sweep` | the sweeper's snapshot and verdicts, made with the registry unlocked |
| `proc[s]` | a game server: down, forked, up; its port; the connection its matchmaker thread holds |

`Register` and `Reregister` are `Registry::add` (takeover, displacement, limits), `Enlist` puts the
socket in the table and drops the one displaced, `Leave` and `Orphan` are the end of a handler;
`SweepLook`, `Probe`, `SweepApply`, `persistRegistry` the sweeper; `Crash` and `Restart` lose
everything but the file; `HostSpawn` and `Bind` are HOST's port choice and the child's bind.
Listing is the promise alone: `Claim`, `Release`, `Drop`, `Save`, `Crash`, `Reload` on a function from
addresses to holders. `Promise` in Matchmaker is the refinement mapping.

### LogFold

`edit` and `audit` are `EditLogFold` and `ZoneAuditAgg`: for each key (a player; a player and a zone) how
long ago its window opened and how many lines it has swallowed. `NoteEdit` is `logEdit`, `NoteDenial`
`zoneAudit`, from any reader, each under its table's mutex; `FlushEdits` and `FlushDenials` are the
autosave tick's two calls; `Tick` is the clock. `unsaid`, `since` and `crowded` are history: what no line
has told of, how long ago the last line was, and whether two ever came within one window.

### Pacing

| State | Code |
|---|---|
| `tokens`, `ago` | `TokenBucket`: its tokens, and how long ago it was refilled |
| `gap`, `served` | `BurstLimiter`: since its last request, and how many the session has had |
| `scanned` | the records of the reply being made, charged after the scan |

`Take` and `Reply` are a REGION: pacing before the scan, `region_budget_admit` after it. `Edit` and `Burn`
are an ACTION's charges: one token, or the price of a BURN before and what it set off beyond that
afterwards. A connection's buckets share nothing, so a behaviour follows one (`use`). `spent`, `ticks`
and `rest` are history: a meter that may be started at any moment, and how long nothing was charged.

LogFold and Pacing have no run: they are small, and what they claim is proved for every constant.

## 4. Runs

All with deadlock checking off: every model may really stop (an idle server; bounded requests).

| Run | Asks | Bounds |
|---|---|---|
| `region` | Cache exactness, filing order, exact and bounded pending records | 2 clients, 1 box, one column in it and one 4096 blocks away that shares its generation; 2 edits, 2 requests each, `--region-pending` 2 records |
| `region_lru` | LRU list, map and byte count agree | 1 client, 5 overlapping boxes, room for 4 small or fewer larger entries, world at its cell cap |
| `region_overtake` (violation) | "an edit can never overtake the bulk reply it belongs after" | 2 clients, 1 edit, 1 request each |
| `out_queue` | The client output's invariants and the two liveness properties | 1 client, hi budget 3, lo budget 2, replies of 0 or 3 records in frames of 2, 1 encoder slot contended by 1 other writer, 3 accepted entries |
| `persist_crash` | No partial file, one writer per temp file | 1 control thread, 2 changes, 1 failing call, 1 crash, 1 command, 1 reload, signal stop |
| `persist_stop` | Saves and stops leave the signs they found; a clean sign flag means saved; a saved list stays; departures are covered | 1 control thread, 2 changes, 1 failing call, control and idle stops, 2 departures, all three outcomes of a directory fsync, no reload |
| `persist_live` | What is dirty is written | as above, fair, no stop |
| `persist_world_race` (violation) | A clean world flag means the world is saved | 2 edits, autosave and one control save |
| `persist_reload` (violation) | A reload never takes the signs back | 2 sign changes, one reload |
| `session` | Unique names, a roster of live descriptors, exact and bounded counts, logins and guesses, evictions that take effect | 3 connections, 2 addresses, 2 descriptors, 2 connections per address, lockout after 1 wrong PIN, 1 order of the operator, names asked for with and without the suffix |
| `edits` | Zones hold against edits, chains, commands and undos; restores are covered; burns are bounded; undo finds what it left; signs coherent and removals logged | 2 players (one not logged in, one an operator), a corridor of 5x3x2 cells with a protected end, three sample worlds, room for 10 stored cells, 3 requests, 1 order, 6 pending restores, 3 cells of history, 2 signs |
| `matchmaker` | The registry implements Listing; rows are held by live handlers; dead rows go | one remote server that claims a foreign address and one started on demand, 1 start each, 2 connections, 1 crash, limits of 2 |

Why the bounds are enough: the hazards are of two actors over one object. Two clients give every
order of two scans, sends and filings and an edit in between; one box and one aliased column give
both ways an edit can touch a generation, and CacheExact itself is proved for all sizes. In
`out_queue` a reply of 3 records has a first and a last frame with a requeue of either, 3 entries
fill and exceed the budgets (a push is allowed while the backlog is *not over* 2), and the hi queue
of 3 with lines of 1 and 2 drops one or several old lines. In Persist, three threads that save and two
versions give every order of two snapshots and two writes, and one failure and one crash can fall
anywhere. In `session` three connections over two descriptors give an eviction whose evicted session
is still on its way out while a third takes its descriptor or its name; one order is enough because
each order races the sessions, not the other orders (the theorems hold for any number). In `edits` the
two worlds are made so that TNT and two expansion blocks carry a burn from outside into the zone, a
third block lies beside them, and the cap and the restore limit are reached; three requests are a
command, someone else's edit between its two halves, and an undo. `BurnBounded` is evaluated in every
reached step and, in the initial states, from every cell of the sample worlds under five budgets: none,
two blasts, three blasts, one link of expansion blocks and part of the next, two links and part of
the next. The sample worlds are a row of expansion blocks, whose chain is cut short; TNT that lights a
side variant and clears one of its corners, so that the ring meets a cell written before; and two side
variants in a world at its cell cap, whose corner cells are refused and read again each time they come
round: there a link that did not pay for the four faces of a corner cell would let one burn overrun. In `matchmaker` the claim that is not the
claimant's to make, a takeover and a displacement all need only two servers and two connections; one
crash reloads rows held by nobody, which the next registration or the sweep meets.

**Fairness.** Specifications are unfair except where a liveness property needs it. ClientOut:
every thread is scheduled (weak fairness on the writer, `dropTooSlow` once entered, the join); a
write completes only for a client that is leaving, where `SO_SNDTIMEO` and `SV_CLOSE_DRAIN_SEC`
end it, as the code does; a write to a client that stays depends on its peer and is not assumed;
a reader leaves by itself only when its socket was shut down. An encoder slot held by another
client is not assumed to come free: `SlotTimeout` is what keeps the writer moving. Persist: threads
with work run, the autosave thread wakes, and time passes (`WF` on `Clock`); nothing is assumed
about commands, changes, failures or stops. Matchmaker (`FairSpec`): the sweeper runs (it is a loop
with a sleep); a handler registers, enlists and orphans when it can, and leaves when its connection is
broken (its receive timeout, or the shutdown of `dropDisplaced`), never of itself; a row of an address
where nothing answers turns stale (time passes). Nothing is assumed about servers, PINGs, probes of a
server that is there, crashes or restarts of the matchmaker. `DeadRowsGo` then says that an address
which in the end is neither served nor registered by a live handler is in the end not listed.

## 5. Proofs

### RegionServeProofs

- `TypeCorrect`: `Spec => []TypeOK`.
- `CacheIsExact`: `Spec => []CacheExact` - a cached reply the next lookup would serve is what a
  scan would emit - for any clients, columns, points, radius and sizes.
- `FiledForward`: `Spec => NeverFiledBackwards`.
- `PendingIsExact`, `BacklogIsBounded`: `Spec => []PendingExact`, `[]BacklogBounded`.
- `CacheStaysBounded`: `Spec => []LruConsistent`.

Assumptions: the four named `ASSUME`s of RegionServe (columns are 24-bit, types and colours bytes,
limits natural numbers), evaluated by TLC in every run. `CacheExact` is not inductive: a reply that
is filed now was scanned earlier and travelled through a thread, a queue and a writer's hand while
edits landed. The invariant `RepliesExact` says of every reply anywhere on that way that *if* nothing
its box covers changed since its stamp, its records are a scan's, and that no stamp is ahead of the
edit counter (or the next edit could take the number of a scan that missed it). The one step that
can break it is an edit, and `EditKeepsExact` is the argument of `region_cache.h`: the column lies
outside the box, or its slot is one of those `newest_in` sweeps (`SlotCovered`, which also covers a
box wider than the generation table, where the sweep is clamped to one tile) and now exceeds every
stamp.

`PendInv` counts records by where they are: in a queue, in a writer's hand, or with a reader that has
added them to the counter. Each step moves a set of them from one place to another, adds or removes
one, and the counter with it. The bound needs a second count, of the records that have passed the guard:
the readers that have counted and not yet asked are what the guard sees beyond it, so that any number
of them may ask at once. `LruInv` is `Kept(cache)` - the order names each key once, the bytes are those
of the entries, and no entry is over the limit of one - and the limit; `evict_to` chooses how many of
the last to drop, and the proof needs that dropping all suffices.

### PersistProofs

- `PersistTypes`: `Spec => []TypeOK`.
- `TempFilesHaveOneWriter`: `Spec => []OneWriter`.
- `FilesAreWhole`: `Spec => []CrashSafe`.
- `CleanSignsAreSaved`: `MaxReloads = 0 => (Spec => []SignsCleanIsSaved)`.
- `SavedSignsStay`: `MaxReloads = 0 => (Spec => []SignsSavedStay)`.
- `SavesKeepSigns`: `MaxReloads = 0 => (Spec => []SaveKeepsSigns)`.
- `DeparturesAreTaken`: `MaxReloads = 0 => (Spec => []DeparturesCovered)`.

Assumptions: the three named `ASSUME`s of Persist (distinct threads, natural bounds, kinds of change
and of stop). The first three theorems share `WriterInv`: `CrashSafe` alone is not inductive, because
a rename publishes whatever the temp file holds. `OneWriter` says it is what the thread that holds
`g_saveMtx` put there, `RenameReady` that it is whole and synced by then, and `SnapsWhole` that what
any thread carries is a version and never a torn file, a reload's included.

The sign theorems rest on `SignInv`, the argument for `g_signSaveMtx` written out: exactly the thread
between snapshot and return holds it (`Serialised`), and what that thread carries is no older than the
file and is all there is unless the flag was set again since (`Carries`, stage by stage); everything
durable lies between the last list reported saved and the file. Where nobody holds the mutex, the
flag is set or the file equals the list.

`KeepInv` follows a save or a stop from the list it found (`since`): that was no newer than the list in
memory (`SinceBehind`), whoever writes the file while it is on its way writes at least that
(`WritesFound`), and once it is through the file has it or a failure is on record (`LeavesFound`).
`TakenInv` follows a departure: what was left by a player is numbered, the request for it is no newer
than its table, and a table whose flag is clear has been taken by a save (`TablesInv`); the autosave
thread's request is pending, or being served, or its stages still to come (`AutoInv`).

`MaxReloads = 0` is a real hypothesis. `signs reload` replaces the list with what the file held some
time ago, without either mutex (finding 3 below). With one reload the run `persist_reload` shows the
list going back; with two at once, even a clean flag can be left beside a file older than the list.
Any number of saves, failures, crashes, changes and departures is allowed.

### ClientOutProofs

- `IdleIsDrained`, `NothingBehindTheWriter`: `Spec => []DrainedMeansSent`, `[]ExitedHoldsNothing`.
- `AccountingIsExact`: `Spec => []AccountingExact`; `SlotsAreExact` and `JobsAreExact` are two of its
  counts, over every client.
- `StreamIsExact`, `FiledIsComplete`: `[]StreamExact`, `[]FiledComplete`.
- `TypesHold`: `[]TypeOK`.

Assumptions: the three named `ASSUME`s of ClientOut (natural limits and sizes, finitely many clients).
`WriterInv` says what each stage of the writer implies about its hand, about `writing` and about the
flags that let it stop. `SlotInv` adds to the slot count that the writers that are encoding are a
finite set, of which each way in or out changes one member. `JobsInv` is there for `requeue_front`: a
frame that waits for a slot is of the job at the head of the queue, or was that job's last, and in the
second case the count was within the limit when its place was free, so the job put back is the only
one over it. `CountInv` is the bytes of each queue: the sizes are sets of numbered bytes, so a push or
a pop adds or removes one block of them.

`StreamInv` has three parts for each client: what its stage says of its hand and flags (`Stage`); that
wire, hand and queue are in order and have nothing twice (`GoodAt`); and that together with what was
lost they are all that was accepted (`WholeAt`), or the client is on its way out and what it was sent
is a prefix (`Cut`). The hard step is the writer putting a frame back at the head of a queue that
producers have added to. `FillInv` says what the writer has collected for the cache: from the first
frame of that reply on, every frame of it on the wire, in order and none lost; a lost frame ends the
collection.

### SessionProofs

- `NamesAreUnique`, `RosterIsLive`, `EvictedStops`, `EvictedComesOut`: `Spec => []UniqueNames`,
  `[]RosterLive`, `[]EvictedActsOnce`, `[]EvictedIsWoken`.
- `PerAddress`, `GuessesAreBounded`: `[]PerAddressExact`, `[]GuessesBounded`.
- `LoginsAreCurrent`: `[]VerifiedIsCurrent`.
- `TypesHold`: `[]TypeOK`, with what the control thread and the roster hold (`Held`).

Assumptions: `SessionAssumption` - limits are numbers, names are sequences, a wanted name with any of
the suffixes up to the number of connections is a name. The first four rest on `Core`: what each
connection's stage says of its own fields (`SessionGood`), that a descriptor has one holder (`Apart`),
and that each entry of the roster is of that holder under its own name (`Roster`). None is inductive
alone: `UniqueNames` needs that `Taken` is every name in use, and that needs the entries to be of live
connections. That JOIN finds a free suffix at all is a pigeonhole argument (`FreeSuffix`: one suffix
more than there are names taken, all different) followed by the least one (`Least`, by well-founded
induction on initial segments of the numbers). `Limits` counts the guesses *under way* together with
those that failed; the bound `Threshold - 1 + PerIp` is what the check before the hash leaves
possible. `Logins` adds that names on the roster are names that can have a PIN: the suffix chosen is at
most the number of names taken plus one.

### WorldEditProofs

- `ProtectedStays`: `Spec => []ProtectedIntact`.
- `BurnsAreBounded`: `[]BurnBounded`.
- `RestoresWait`: `[]RestoresCovered`.
- `UndoAgrees`: `[]UndoTopMatches`.
- `TypesAreKept`: `[]TypeOK`.
- `SignsStayCoherent`, `RemovalsStayLogged`: `[]SignsCoherent`, `[]RemovalsLogged`.
- `SignsAreCoherent`, `RemovalsAreLogged`: the last two of `SignsSpec`, the sign list's own
  specification, where any thread may clear any set of blocks at any time.

`Spec` is WorldEdit's, the composition with Edits, Burn and Signs, for any players, levels, zones,
worlds, commands, radius, budget and limits. Assumptions: `BurnAssumption` (the sizes are positive; a
fill is no larger than the reach added for it), `TerrainAssumption`, `SignsAssumption`, `EditsAssumption`
(actions name a cell and a block or a colour, the core zone is enforced, the signs begun with are within
their limit, the threads are those that edit) and `WorldEditAssumption`. All are evaluated by TLC in the
run `edits`.

The invariant `Inv` has one part for each thing that can go wrong, and they need each other:

- `SignInv`. `Numbered` is the strengthening: a line carries the number of the edit it is about, smaller
  than the next one's, so lines are never confused.
- `Covered`: the pairs waiting are those of the jobs, no pair is in two jobs, and what is hurt waits.
  Without the second, taking one job would unmark a cell that another still has.
- `Handlers`: what a handler carries from the zones it read (`Sound`) still keeps it off the core zone. A
  player whom the zone stops who is about to write is not on one of its cells; about to burn, has every
  cell of it in reach in what it may not touch; about to commit, has all of it in `held`; about to hang a
  sign, has it elsewhere. `ReachIsHeld` is the argument for the box of `zoneCheckNear`: whatever a burn
  can write lies in it.
- `Guards`: the zone stands, and holds what it should. A step that writes either belongs to someone the
  zone does not stop or spares it (`Spared`), by `Handlers`.
- `Ledger`: each player's two stacks are accounts of the world (`Books`). `Told` says that there is a
  history of views, one a batch, each turned into the next by its batch and the last of them the world as
  WorldEdit reads it, all off the cells that others wrote; the redo stack, turned about, is told the same
  way. `UndoTopMatches` looks only at the top of each stack and is not inductive: after an undo the next
  batch down is the top, and only the history says that it agrees. A batch has one entry a cell, every
  cell it names is stored from then on, and a player with history is not in a world above its cap: so an
  undo or a redo is never refused for the cap, and what it takes off one stack it does write.
- `Promised`: a player who is about to commit an undo has one to take.

What a burn does is proved first, for any world, root, budget and set it may not touch (`BurnKeeps`):
`Burning` is what the record carried through the simulation keeps to - written only within reach and
outside what is held, only air where it says air, no more stored than the cap or what was there - and
each function of Burn maps it to itself, with what it adds to `visits`. The chain and the queue are
recursive functions over an interval, so their steps are induction over a number (`FromZeroOn`, from the
well-foundedness of finite sets); `Allowance` bounds the visits because a blast is bought before it goes
off and a link before it fires, the root apart. That the footprints stay within `Radius` and `Extent` of
their centre, and how many cells a fill looks at, are arithmetic about `Sphere` and `Box`; `LooksAtMost`
says that the ring of a side variant reads at most four faces for each corner sample, which is what
`expand_visits_per_fill` charges.

### MatchmakerProofs

- `RowsAreHeld`: `Spec => []RowsHeldByLive`.
- `RegistryAsPromised`: `Spec => ListsAsPromised`, the refinement: initial states map to initial
  states, and every step to a step of Listing or to none.

Assumption: `MatchmakerAssumption` (positive limits, distinct kinds of server, servers started here are
at home). The invariant says that there is one row an address, in memory and on disk (`OneRow`; the
mapping's CHOOSE is a function only then), that a held row's handler has registered that address
(`Held`), that only registered handlers are in the socket table, and that what a connection asks for
its peer may have (`RegOf`, by `advertise_policy`). The step lemmas pair each action with one of
Listing's: `Register` and `Reregister` with `Claim` (`ListAdded`), `Orphan` with `Release`, `SweepApply`
with `Drop`, `persistRegistry` with `Save`, `Crash` and `Restart` with `Crash` and `Reload`; all others
leave the list alone (`SameList`).

### LogFoldProofs

- `LogTypes`, `DenialsCounted`, `LinesApart`: `Spec => []TypeOK`, `[]DenialsAreCounted`,
  `[]OneLinePerWindow`.

Assumption: `LogFoldAssumption` (positive windows), a hypothesis of each theorem. `OneLinePerWindow` looks
at the history of lines, `NoteDenial` at the entry, so the invariant says that they agree (`SinceTold`):
an open window began with the last line, and a key with no entry has been quiet for a window. Without it
an entry that a flush forgot could be opened again too soon.

### PacingProofs

- `PacingTypes`, `BudgetIsKept`, `NobodyIsLockedOut`: `Spec => []TypeOK`, `[]BudgetHolds`,
  `[]NeverLockedOut`.

Assumption: `PacingAssumption` (positive capacity and rate; `LongRest` is the least number of ticks that
refills two bursts), a hypothesis of each theorem. `Paid` is the account: what was admitted and what is
left are no more than one burst and the refill since, and what is left may be a debt of one burst.
`Recovered` says that what is left is no less than the refill since the last charge minus that debt.

### Model-checked only

Liveness - `CloseTerminates`, `MissedUpdateEndsSession`, `ChangesReachDisk`, `DeadRowsGo` - is out of
the prover's reach: TLAPS has no reasoning about fairness or ENABLED. So is induction over data: the
provers cannot instantiate the library's induction over sequences and sets, so what a recursive
function computes is proved only as far as induction over a number and an invariant of its steps go.
What `preview_burn` finds, which decides whether a switch refuses a burn, is checked in the reached states only; the
theorems hold whatever it finds. Four theorems of Persist hold without a reload, and
the run `persist_reload` shows why they stop there.

## 6. Where the code and its documentation disagree

1. **An edit can overtake a reply** (`region_overtake`). `out_queue.h:31-33` and
   `server_posix.cpp:2384-2385` say one FIFO makes it impossible. The FIFO orders what is *pushed*;
   `serveRegion` scans under `g_worldMtx`, releases it and pushes later, so an edit in between is
   queued ahead of the reply that lacks it and the client applies the older records last. It heals
   when the client asks for the box again.
2. **The older of two world saves may be written last** (`persist_world_race`). `saveWorld` takes
   `g_saveMtx` after its snapshot; `saveSigns` takes its mutex before, for this reason. The dirty
   flag is clean then, so nothing rewrites the file until another edit. A clean stop has the same
   gap: it can find the flag consumed by an autosave that has not written yet, skip its own write
   and `_exit`. `savePlayerPos` has the same shape.
3. **`signs reload` can take the list back** (`persist_reload`). It is refused only while
   `g_signsDirty`, which `saveSigns` clears before the file is written.

Smaller observations, with no run of their own. Those about documentation: `durable_write.h` reports a
failure when the directory fsync fails after the rename, with the new file in place, while its comment
speaks of the old file being left as it was; the comment in `clientWriter`'s catch speaks of abandoning
the rest of the burst, while only the failed frame is dropped (the model drops one frame, as the code
does, and `StreamExact` holds of the rest).

Those about windows the models show and no comment promises to close (SP is `src/server_posix.cpp`):

- Hi lines are always served before lo frames: a client whose hi queue never empties receives no world
  state (`out_queue.h:302`).
- A kick shuts down whoever holds the descriptor after the notice, by then perhaps another connection
  (SP 2444; `KickShuts`).
- `expandEcho` is one slot: a second burn within the window takes the first one's place, and the first
  echo is then an ordinary MINE (SP 4907-4924; `Echo`).
- The switches are read again after the dry run, so its verdict may be about another pair of switches
  (SP 4891-4898; `Verdict`).
- A restore folded into one that waits already comes at that one's time (`zone_guard.h:183`), and a
  burn's restores are built under `g_worldMtx` and pushed after its release (SP 2558-2590; `Relay`).
- A redo batch over the budget is dropped without a word (`worldedit.h:629-635`; `trim`).
- A SIGNP whose block was mined while it was handled leaves a sign on air until the next start-up or
  reload prunes it (SP 4549-4562 against 599-601 and 1350; `handleSignWrite`). Another thread's drain
  may write a removal's audit line before the edit's own (SP 1314-1318).
- `EditLogFold::note` sets the count to 0 when the window before has closed (`log_fold.h:53`). A window
  lasts one second and the flush that sums it up comes with the autosave, so edits folded in between are
  mostly never told of, while `log_fold.h:5-8` speaks of one summary per closed window;
  `ZoneAuditAgg::note` adds the count to its line instead (`zone_guard.h:259`), which is what
  `DenialsAreCounted` proves. What is still folded when the server stops is written by neither.
- A lockout doubles only when the failures in the 60 s window reach the threshold again
  (`hardening.h:609`), not "on every further failure" (`docs/configuration.md:241`, `hardening.h:559-560`):
  the first lockout is as long as the window, and empties it.
- In a world loaded above its cap every WorldEdit batch is refused, an undo too, even over cells that are
  stored already (`weCapAllows`, SP 3662: the count alone is over), while the comment says that new cells
  are "the only ones the cap can refuse" (SP 3657-3658) and the start-up warning that "edits to existing
  cells still save" (SP 5907-5908). A
  player with history is never in such a world, which `Books` says and the proof of `UndoAgrees` needs.
- A REGION the budget or a full queue refuses restarts the gap and counts against the session's cap,
  while the comment at SP 2076-2078 says that only a served one does (`Take`). With an `--action-burst`
  below 64, the price of a BURN (SP 328), every BURN is refused: `NeverLockedOut` says so by its
  hypothesis.
- The sweeper's verdicts fall on whatever holds the address after its unlocked probes
  (`matchmaker.h:594-614`; `SweepApply`); `dropDisplaced` misses a handler that is not yet in
  the table (`edenmatch.cpp:392-403`; `Enlist`); two HOSTs may choose one port, and the child that binds
  second exits (`edenmatch.cpp:214-242`; `Bind`); a peer's reloaded rows have no peer and do not count
  against its limit (`matchmaker.h:509-534`; `PeerLimit`).

## 7. Not modelled

`components` in `PROJECT.json` has the status of each part. What the modelled parts leave out:

- **Time.** TTLs, grace periods and due times are events that may happen at any moment, and a request
  that a rate limit refuses is one that is not made; only LogFold and Pacing count ticks. Zero restore
  delays, the order of due restores, the connect limiter, the buckets of movement and chat, the pacing
  of SIGNQ and the HOST cool-down are left out.
- **LogFold and Pacing**: edits that are never folded (a BURN; a BUILD of TNT, lava or fireworks), a rate
  of zero, tokens that are not whole numbers.
- **Session**: the password itself (a refused JOIN), the lockout of passwords, relays of joins and
  departures, the idle stop (Persist has it), PIN changes by the player, names cut to make room for a
  suffix.
- **Edits, Burn**: relays and what screens show; a player leaving with restores queued; zone reload and
  `zone:set`; the cap on one burn's restores (`ZONE_BURN_RESTORE_MAX`) and restores outside the world;
  which cells are dropped past the queue's limit (the first in scan order are kept here); the chunk
  store as a container, and the reserved type 254.
- **WorldEdit**: selection, permissions, volume checks, teleports, progress messages. The verbs sphere,
  cyl, hcyl, walls and replace are modelled but no command of the run uses them.
- **Signs**: the order of the list and identical duplicate lines; a drain with nothing waiting is
  skipped.
- **Matchmaker**: LIST and its player counts, its rate limits, and the text of a row.
- **Persist**: the ban, op and PIN files, written once per control command through the same helper.

Not modelled at all: byte formats (SNAPZ, EDMB, the legacy text model), wording, logging and metrics;
the top map, spawn and message of the day; the importer and exporter, `edenctl`, the admin console and
the shell tooling. They are sequential conversions with no state shared with the server, or pure I/O.
