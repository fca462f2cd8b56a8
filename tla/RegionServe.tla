---------------------------- MODULE RegionServe ----------------------------
(***************************************************************************)
(* REGION requests against a world that other players keep editing.        *)
(*                                                                         *)
(* Covers the world model's write path (simAction / worldSet), the column  *)
(* generations and the encoded-region cache (region_cache.h), serveRegion, *)
(* the relay of an edit to every other client (broadcastWorld) and the     *)
(* part of clientWriter that files a sent reply in the cache.              *)
(*                                                                         *)
(* One reader thread and one writer thread per client.  Every critical     *)
(* section is one action; what a thread carries from one to the next is in *)
(* thr[c] (reader) and hand[c] (writer).  Height is dropped: a cell is a   *)
(* column <<x, z>>, because boxes, generations and replies only look at    *)
(* x and z.  A reply here is one frame; ClientOut has the frame stream.    *)
(***************************************************************************)
EXTENDS Integers, Sequences, FiniteSets

CONSTANTS
    Clients,          \* connected players
    Cells,            \* the columns <<x, z>> players edit
    Types,            \* block types a BUILD may place
    Colors,           \* colours a PAINT may carry
    Points,           \* the <<cx, cz>> points clients ask REGION for
    Radius,           \* --region-radius
    MaxWorldCells,    \* --max-world-cells
    CacheMax,         \* --region-cache, in encoded bytes; 0 disables the cache
    PendingMax,       \* --region-pending, in records; 0 is no limit
    MaxRegionJobs,    \* --client-region-queue
    EmptyFrame,       \* an empty box is answered with SNAPZ:0:
    SessionCap,       \* SV_MAX_REGIONS_PER_SESSION
    MaxEdits,         \* bound of the model: edits that land
    MaxBacklog        \* bound of the model: queued lines behind which no BUILD is refused

CoordMax == 16777215  \* REGION_COORD_MAX, 24 bits
CHUNK == 16           \* REGION_CHUNK
TILE == 256           \* ColumnGens::TILE

AIR == 0              \* CELL_AIR
PAINTED == 255        \* CELL_PAINTED_BASE: a natural block that was only painted
MAXPAINT == 54        \* CELL_MAX_PAINT

ASSUME CellsAssumption == Cells \subseteq ((0..CoordMax) \X (0..CoordMax))
ASSUME PointsAssumption == Points \subseteq (Int \X Int)
ASSUME ContentAssumption == Types \subseteq 1..253 /\ Colors \subseteq 0..255
ASSUME BoundAssumption ==
    /\ Radius \in Nat
    /\ MaxWorldCells \in Nat
    /\ CacheMax \in Nat
    /\ PendingMax \in Nat
    /\ MaxRegionJobs \in Nat
    /\ EmptyFrame \in BOOLEAN
    /\ SessionCap \in Nat
    /\ MaxEdits \in Nat
    /\ MaxBacklog \in Nat

VARIABLES
    world,     \* g_world: the edited columns, [t, c] each
    gen,       \* ColumnGens::gen_, on the slots some column folds onto
    now,       \* ColumnGens::now_
    cache,     \* g_regionCache: [map, order, bytes]; order is most recent first
    pending,   \* g_rgnPendingRecs
    served,    \* RegionLimiter::served per client
    thr,       \* what each reader thread is in the middle of
    lo,        \* each client's world-state FIFO (OutQueue::lo_)
    hand       \* what each writer has taken and not finished

vars == <<world, gen, now, cache, pending, served, thr, lo, hand>>

-----------------------------------------------------------------------------
(* Geometry. *)

\* snap_chunk: floor to the chunk edge, negative coordinates included.
snap_chunk(v) == (v \div CHUNK) * CHUNK

region_box(pt) ==
    [x0 |-> snap_chunk(pt[1] - Radius), x1 |-> snap_chunk(pt[1] + Radius) + CHUNK - 1,
     z0 |-> snap_chunk(pt[2] - Radius), z1 |-> snap_chunk(pt[2] + Radius) + CHUNK - 1]

region_point_valid(pt) == pt[1] \in 0..CoordMax /\ pt[2] \in 0..CoordMax

contains(b, p) == p[1] >= b.x0 /\ p[1] <= b.x1 /\ p[2] >= b.z0 /\ p[2] <= b.z1

-----------------------------------------------------------------------------
(* ColumnGens. *)

slot(cx, cz) == <<cx % TILE, cz % TILE>>
SlotOf(p) == slot(p[1] \div CHUNK, p[2] \div CHUNK)
Slots == {SlotOf(p) : p \in Cells}

clamp_span(n) == IF n < 0 THEN 0 ELSE IF n > TILE THEN TILE ELSE n

\* Chunk columns from block a to block b, past one tile edge capped there.
SpanExclusive(a, b) == clamp_span((b \div CHUNK) - (a \div CHUNK))   \* variant: off by one
Span(a, b) == clamp_span((b \div CHUNK) - (a \div CHUNK) + 1)

\* The slots newest_in() sweeps for box b.
SlotsIn(b) ==
    {slot((b.x0 \div CHUNK) + i, (b.z0 \div CHUNK) + j) :
        i \in 0..(Span(b.x0, b.x1) - 1), j \in 0..(Span(b.z0, b.z1) - 1)}

\* newest_in(b) <= stamp.  A slot no column folds onto is never bumped.
unchanged_since(g, b, stamp) == \A s \in Slots \cap SlotsIn(b) : g[s] <= stamp

-----------------------------------------------------------------------------
(* The world and what a scan of it emits. *)

paintable(v) == v.c # 0 /\ v.c <= MAXPAINT

\* emit_cell_records: a record pairs its column with <<flag, field 5>>.
Paint(v) == IF paintable(v) THEN {<<3, v.c>>} ELSE {}
emit_cell_records(p, v) ==
    {p} \X (IF v.t = AIR THEN {<<1, -1>>}
            ELSE IF v.t = PAINTED THEN Paint(v)
            ELSE {<<0, v.t>>} \cup Paint(v))

\* for_each_in_box + emit_cell_records.  Wire order is a function of the records.
Scan(w, b) ==
    UNION {emit_cell_records(p, w[p]) : p \in {q \in DOMAIN w : contains(b, q)}}

\* worldSet's refusal: a new cell past the cap.
Refused(p) == p \notin DOMAIN world /\ Cardinality(DOMAIN world) >= MaxWorldCells

\* worldSet past its guards: the store, then ColumnGens::bump.
worldSet(p, v) ==
    /\ world' = [q \in DOMAIN world \cup {p} |-> IF q = p THEN v ELSE world[q]]
    /\ now' = now + 1
    /\ gen' = [gen EXCEPT ![SlotOf(p)] = now + 1]

\* simAction's three single-cell modes: what BUILD, MINE and PAINT store at p.
Outcomes(p) ==
    {[t |-> ty, c |-> 0] : ty \in Types} \cup {[t |-> AIR, c |-> 0]}
        \cup {[t |-> IF p \in DOMAIN world THEN world[p].t ELSE PAINTED, c |-> co] :
                co \in Colors}

-----------------------------------------------------------------------------
(* RegionCache. *)

\* A key is the box; empty_frame, its other field, is fixed for a process.
max_entry_bytes == CacheMax \div 4
enabled == CacheMax > 0

\* The wire size of a reply: a header and something per record (deflate is not modelled).
EncodedBytes(recs) == 1 + Cardinality(recs)

\* The bytes the entries for ks weigh, each byte named by its entry and its place in it.
EntryBytes(ca, ks) == UNION {{k} \X (1..ca.map[k].bytes) : k \in ks}
CacheSlots(ca, ks) == Cardinality(EntryBytes(ca, ks))

Others(order, k) ==
    LET i == CHOOSE j \in DOMAIN order : order[j] = k
    IN  SubSeq(order, 1, i - 1) \o SubSeq(order, i + 1, Len(order))

EraseLeavesOrder(ca, ks, order) ==   \* variant: the LRU list keeps the erased key
    [map |-> [k \in DOMAIN ca.map \ ks |-> ca.map[k]],
     order |-> ca.order,
     bytes |-> ca.bytes - CacheSlots(ca, ks)]
EraseKeys(ca, ks, order) ==
    [map |-> [k \in DOMAIN ca.map \ ks |-> ca.map[k]],
     order |-> order,
     bytes |-> ca.bytes - CacheSlots(ca, ks)]

erase(ca, k) == EraseKeys(ca, {k}, Others(ca.order, k))

\* evict_to: erase from the least recent end until the bytes fit or nothing is left.
LastKeys(ca, n) == {ca.order[i] : i \in (Len(ca.order) - n + 1)..Len(ca.order)}
evict_to(ca, limit) ==
    LET enough(n) == n = Len(ca.order) \/ ca.bytes - CacheSlots(ca, LastKeys(ca, n)) <= limit
        n == CHOOSE m \in 0..Len(ca.order) : enough(m) /\ \A l \in 0..(m - 1) : ~enough(l)
    IN  EraseKeys(ca, LastKeys(ca, n), SubSeq(ca.order, 1, Len(ca.order) - n))

\* find's verdict and what it does to the cache: a stale entry goes, a hit moves up.
Hit(ca, k) == enabled /\ k \in DOMAIN ca.map /\ unchanged_since(gen, k, ca.map[k].stamp)
find(ca, k) ==
    CASE ~enabled \/ k \notin DOMAIN ca.map -> ca
      [] Hit(ca, k) ->
            [map |-> ca.map, bytes |-> ca.bytes, order |-> <<k>> \o Others(ca.order, k)]
      [] OTHER -> erase(ca, k)

\* A reply is not filed when the cache is off, it is too big, or the cache holds
\* one for its box scanned at least as recently.
UnwantedBySize(ca, k, e) == ~enabled \/ e.bytes > max_entry_bytes   \* variant: any scan wins
Unwanted(ca, k, e) ==
    \/ ~enabled
    \/ e.bytes > max_entry_bytes
    \/ k \in DOMAIN ca.map /\ ca.map[k].stamp >= e.stamp

insert(ca, k, e) ==
    IF Unwanted(ca, k, e) THEN ca
    ELSE LET freed == IF k \in DOMAIN ca.map THEN erase(ca, k) ELSE ca
             room == evict_to(freed, CacheMax - e.bytes)
         IN  [map |-> [j \in DOMAIN room.map \cup {k} |->
                          IF j = k THEN e ELSE room.map[j]],
              order |-> <<k>> \o room.order,
              bytes |-> room.bytes + e.bytes]

-----------------------------------------------------------------------------
(* What threads carry.  A reply's box doubles as its cache key. *)

Boxes == {region_box(pt) : pt \in Points}
Records == Cells \X ({0, 1, 3} \X (-1..255))
Replies == [box : Boxes, recs : SUBSET Records, stamp : Nat]

Idle == [pc |-> "idle"]
Nothing == [kind |-> "none"]
EditItem(p, g) == [kind |-> "edit", cell |-> p, at |-> g]
UndoItem(p) == [kind |-> "undo", cell |-> p]
ReplyItem(kind, r) == [kind |-> kind, reply |-> r]

\* region_jobs_: scanned jobs and cached replies in the queue.
region_jobs(q) == Cardinality({i \in DOMAIN q : q[i].kind \in {"job", "cached"}})

Init ==
    /\ world = << >>
    /\ gen = [s \in Slots |-> 0]
    /\ now = 0
    /\ cache = [map |-> << >>, order |-> << >>, bytes |-> 0]
    /\ pending = 0
    /\ served = [c \in Clients |-> 0]
    /\ thr = [c \in Clients |-> Idle]
    /\ lo = [c \in Clients |-> << >>]
    /\ hand = [c \in Clients |-> Nothing]

-----------------------------------------------------------------------------
(* The reader thread: an ACTION. *)

\* The edit lands under g_worldMtx; the relay's targets are everyone else.
Edit(c, p) ==
    /\ thr[c] = Idle
    /\ now < MaxEdits
    /\ ~Refused(p)
    /\ \E v \in Outcomes(p) : worldSet(p, v)
    /\ thr' = [thr EXCEPT ![c] =
                 [pc |-> "relay", item |-> EditItem(p, now + 1), todo |-> Clients \ {c}]]
    /\ UNCHANGED <<cache, pending, served, lo, hand>>

\* A BUILD refused by the cell cap is not relayed; the block is taken back out of the
\* sender's world.  (A refused MINE or PAINT changes nothing and queues nothing.)
EditRefused(c, p) ==
    /\ thr[c] = Idle
    /\ Refused(p)
    /\ Len(lo[c]) < MaxBacklog
    /\ lo' = [lo EXCEPT ![c] = Append(@, UndoItem(p))]
    /\ UNCHANGED <<world, gen, now, cache, pending, served, thr, hand>>

\* broadcastWorld: one pushWorld per target, each under that client's own lock.
RelayTo(c, d) ==
    /\ thr[c].pc = "relay"
    /\ d \in thr[c].todo
    /\ lo' = [lo EXCEPT ![d] = Append(@, thr[c].item)]
    /\ thr' = [thr EXCEPT ![c].todo = @ \ {d}]
    /\ UNCHANGED <<world, gen, now, cache, pending, served, hand>>

RelayDone(c) ==
    /\ thr[c].pc = "relay"
    /\ thr[c].todo = {}
    /\ thr' = [thr EXCEPT ![c] = Idle]
    /\ UNCHANGED <<world, gen, now, cache, pending, served, lo, hand>>

-----------------------------------------------------------------------------
(* The reader thread: a REGION request (serveRegion). *)

\* BurstLimiter::take: the session cap (the time gap between requests only delays them).
MayServeOneMore(c) == served[c] <= SessionCap   \* variant: one request past the cap
MayServe(c) == served[c] < SessionCap

\* Validation, pacing, and the critical section under g_worldMtx: the cache lookup
\* and, on a miss, the scan.  The lock is released with the result in thr[c].
RegionScan(c, pt) ==
    LET box == region_box(pt)
        fresh == [box |-> box, recs |-> Scan(world, box), stamp |-> now]
    IN  /\ thr[c] = Idle
        /\ region_point_valid(pt)
        /\ MayServe(c)
        /\ served' = [served EXCEPT ![c] = @ + 1]
        /\ cache' = find(cache, box)
        /\ thr' = [thr EXCEPT ![c] =
             IF Hit(cache, box)
             THEN [pc |-> "hit", reply |-> [box |-> box, recs |-> cache.map[box].recs,
                                            stamp |-> cache.map[box].stamp]]
             ELSE [pc |-> "scanned", reply |-> fresh]]
        /\ UNCHANGED <<world, gen, now, pending, lo, hand>>

\* region_budget_admit says no: the client's record bucket may be empty at any time.
BudgetRefuse(c) ==
    /\ thr[c].pc \in {"scanned", "hit"}
    /\ thr' = [thr EXCEPT ![c] = Idle]
    /\ UNCHANGED <<world, gen, now, cache, pending, served, lo, hand>>

\* makePendingRecs: the records count themselves before the guard is read.
CountPending(c) ==
    /\ thr[c].pc = "scanned"
    /\ pending' = pending + Cardinality(thr[c].reply.recs)
    /\ thr' = [thr EXCEPT ![c].pc = "counted"]
    /\ UNCHANGED <<world, gen, now, cache, served, lo, hand>>

overGlobalBeforeOwn(c) ==   \* variant: the guard is read before the records count themselves
    PendingMax > 0 /\ pending - Cardinality(thr[c].reply.recs) > PendingMax
overGlobal(c) == PendingMax > 0 /\ pending > PendingMax

\* The global guard: refused, the record vector dies; otherwise on to the queue.
GlobalGuard(c) ==
    /\ thr[c].pc = "counted"
    /\ IF overGlobal(c)
       THEN /\ pending' = pending - Cardinality(thr[c].reply.recs)
            /\ thr' = [thr EXCEPT ![c] = Idle]
       ELSE /\ thr' = [thr EXCEPT ![c].pc = "admitted"]
            /\ UNCHANGED pending
    /\ UNCHANGED <<world, gen, now, cache, served, lo, hand>>

\* pushRegion: refused when the client's region queue is full, silent when there
\* is nothing to say.
PushRegion(c) ==
    LET r == thr[c].reply
        dropped == region_jobs(lo[c]) >= MaxRegionJobs \/ (r.recs = {} /\ ~EmptyFrame)
    IN  /\ thr[c].pc = "admitted"
        /\ IF dropped
           THEN pending' = pending - Cardinality(r.recs) /\ UNCHANGED lo
           ELSE lo' = [lo EXCEPT ![c] = Append(@, ReplyItem("job", r))] /\ UNCHANGED pending
        /\ thr' = [thr EXCEPT ![c] = Idle]
        /\ UNCHANGED <<world, gen, now, cache, served, hand>>

\* pushCachedRegion: the same admission, and nothing counted as pending.
PushCached(c) ==
    /\ thr[c].pc = "hit"
    /\ lo' = IF region_jobs(lo[c]) >= MaxRegionJobs THEN lo
             ELSE [lo EXCEPT ![c] = Append(@, ReplyItem("cached", thr[c].reply))]
    /\ thr' = [thr EXCEPT ![c] = Idle]
    /\ UNCHANGED <<world, gen, now, cache, pending, served, hand>>

-----------------------------------------------------------------------------
(* The writer thread. *)

WriterTake(c) ==
    /\ hand[c] = Nothing
    /\ lo[c] # << >>
    /\ hand' = [hand EXCEPT ![c] = Head(lo[c])]
    /\ lo' = [lo EXCEPT ![c] = Tail(@)]
    /\ UNCHANGED <<world, gen, now, cache, pending, served, thr>>

\* An edit line or a cached frame goes out as it is.
WriterSend(c) ==
    /\ hand[c].kind \in {"edit", "undo", "cached"}
    /\ hand' = [hand EXCEPT ![c] = Nothing]
    /\ UNCHANGED <<world, gen, now, cache, pending, served, thr, lo>>

\* A scanned reply is encoded, sent, and filed - with no world lock.
WriterFile(c) ==
    LET r == hand[c].reply
        e == [recs |-> r.recs, stamp |-> r.stamp, bytes |-> EncodedBytes(r.recs)]
    IN  /\ hand[c].kind = "job"
        /\ cache' = insert(cache, r.box, e)
        /\ pending' = pending - Cardinality(r.recs)
        /\ hand' = [hand EXCEPT ![c] = Nothing]
        /\ UNCHANGED <<world, gen, now, served, thr, lo>>

AbandonLeaks(c) ==   \* variant: an abandoned reply stays counted
    /\ hand[c].kind = "job"
    /\ hand' = [hand EXCEPT ![c] = Nothing]
    /\ UNCHANGED <<world, gen, now, cache, pending, served, thr, lo>>

\* The encode threw, or the write failed after it: nothing is filed.
WriterAbandon(c) ==
    /\ hand[c].kind = "job"
    /\ pending' = pending - Cardinality(hand[c].reply.recs)
    /\ hand' = [hand EXCEPT ![c] = Nothing]
    /\ UNCHANGED <<world, gen, now, cache, served, thr, lo>>

Next ==
    \E c \in Clients :
        \/ \E p \in Cells : Edit(c, p)
        \/ \E p \in Cells : EditRefused(c, p)
        \/ \E d \in Clients : RelayTo(c, d)
        \/ RelayDone(c)
        \/ \E pt \in Points : RegionScan(c, pt)
        \/ BudgetRefuse(c)
        \/ CountPending(c)
        \/ GlobalGuard(c)
        \/ PushRegion(c)
        \/ PushCached(c)
        \/ WriterTake(c)
        \/ WriterSend(c)
        \/ WriterFile(c)
        \/ WriterAbandon(c)

Spec == Init /\ [][Next]_vars

-----------------------------------------------------------------------------
(* Properties. *)

Contents == [t : 0..255, c : 0..255]
EditItems == [kind : {"edit"}, cell : Cells, at : Nat]
Items == EditItems
            \cup [kind : {"undo"}, cell : Cells]
            \cup [kind : {"job", "cached"}, reply : Replies]
ReplyPcs == {"hit", "scanned", "counted", "admitted"}
ThreadStates == {Idle}
            \cup [pc : {"relay"}, item : EditItems, todo : SUBSET Clients]
            \cup [pc : ReplyPcs, reply : Replies]
Entries == [recs : SUBSET Records, stamp : Nat, bytes : Nat]

\* Types of every variable.  (cache.bytes is LruConsistent's subject.)
TypeOK ==
    /\ now \in Nat /\ gen \in [Slots -> 0..now]
    /\ DOMAIN world \subseteq Cells /\ world \in [DOMAIN world -> Contents]
    /\ DOMAIN cache.map \subseteq Boxes /\ cache.map \in [DOMAIN cache.map -> Entries]
    /\ pending \in Int
    /\ served \in [Clients -> 0..SessionCap]
    /\ thr \in [Clients -> ThreadStates]
    /\ lo \in [Clients -> Seq(Items)]
    /\ hand \in [Clients -> Items \cup {Nothing}]

\* "Why a hit is exactly a fresh reply" (region_cache.h): every entry the next lookup
\* would serve - its box unchanged since its stamp - is what a scan of the world, as it
\* is now, would emit.  An edit may land between the scan, the push, the send and the
\* filing of the reply, and columns 4096 blocks apart share a generation.
CacheExact ==
    \A k \in DOMAIN cache.map :
        unchanged_since(gen, k, cache.map[k].stamp) => cache.map[k].recs = Scan(world, k)

\* RegionCache's bookkeeping: the LRU list names each entry once, the byte count is what
\* the entries weigh, the bound holds, and no entry is over a quarter of it - through
\* hits, stale drops, replacements and evictions by concurrent writers.
LruConsistent ==
    /\ Len(cache.order) = Cardinality(DOMAIN cache.map)
    /\ {cache.order[i] : i \in DOMAIN cache.order} = DOMAIN cache.map
    /\ cache.bytes = CacheSlots(cache, DOMAIN cache.map)
    /\ cache.bytes <= CacheMax
    /\ \A k \in DOMAIN cache.map : cache.map[k].bytes <= max_entry_bytes

\* Two writers may finish replies to one box in either order: the entry kept for a box is
\* never replaced by one scanned earlier (RegionCache::insert).
NeverFiledBackwards ==
    [][\A k \in DOMAIN cache.map \cap DOMAIN cache'.map :
          cache'.map[k].stamp >= cache.map[k].stamp]_vars

\* The records of scanned replies, each with the client and the place its reply is at: a
\* position in the queue, 0 in the writer's hand, -1 still with the reader.
RecordsOf(it) == IF it.kind = "job" THEN it.reply.recs ELSE {}
QueuedRecs ==
    (UNION {{<<c, 0>>} \X RecordsOf(hand[c]) : c \in Clients}) \cup
    (UNION {UNION {{<<c, i>>} \X RecordsOf(lo[c][i]) : i \in DOMAIN lo[c]} : c \in Clients})
HeldRecs(pcs) ==
    UNION {{<<c, -1>>} \X thr[c].reply.recs : c \in {d \in Clients : thr[d].pc \in pcs}}

\* The record counter is exactly the records alive - mid-hand-off, queued or being sent -
\* on every way a reply can end (makePendingRecs' deleter).
PendingExact == pending = Cardinality(QueuedRecs \cup HeldRecs({"counted", "admitted"}))

\* The global memory guard bounds what is queued: the guard is read without a lock, by
\* several readers at once, and the records admitted still never exceed --region-pending.
BacklogBounded == PendingMax > 0 => Cardinality(QueuedRecs) <= PendingMax

\* "a block edit can never overtake the bulk reply it belongs after" (out_queue.h, and
\* broadcastWorld): in no client's queue is an edit ahead of a reply that was scanned
\* before the edit and covers it.
EditNeverOvertakesReply ==
    \A c \in Clients : \A i, j \in DOMAIN lo[c] :
        (i < j /\ lo[c][i].kind = "edit" /\ lo[c][j].kind \in {"job", "cached"}
               /\ contains(lo[c][j].reply.box, lo[c][i].cell))
            => lo[c][j].reply.stamp >= lo[c][i].at
=============================================================================
