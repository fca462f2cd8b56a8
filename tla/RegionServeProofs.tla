------------------------- MODULE RegionServeProofs -------------------------
(***************************************************************************)
(* Proofs about RegionServe, for any number of clients, any columns, any   *)
(* radius, any cache size and any number of edits.                         *)
(***************************************************************************)
EXTENDS RegionServe, FiniteSetTheorems, SequenceTheorems, WellFoundedInduction, TLAPS

(* Geometry and generations. *)

\* A column a box contains is one of the columns newest_in() sweeps - even when the box
\* is wider than the generation table and the sweep is clamped to one tile edge.
LEMMA SlotCovered ==
    ASSUME NEW b \in [x0 : Int, x1 : Int, z0 : Int, z1 : Int],
           NEW p \in Int \X Int, contains(b, p)
    PROVE  SlotOf(p) \in SlotsIn(b)
<1> DEFINE cx0 == b.x0 \div CHUNK
           cz0 == b.z0 \div CHUNK
           i == ((p[1] \div CHUNK) - cx0) % TILE
           j == ((p[2] \div CHUNK) - cz0) % TILE
           nx == Span(b.x0, b.x1)
           nz == Span(b.z0, b.z1)
<1>1. p[1] \in Int /\ p[2] \in Int /\ b.x0 \in Int /\ b.x1 \in Int /\ b.z0 \in Int /\ b.z1 \in Int
  OBVIOUS
<1>2. i \in 0..(nx - 1) /\ slot(cx0 + i, 0)[1] = (p[1] \div CHUNK) % TILE
  BY <1>1 DEF contains, slot, Span, clamp_span, CHUNK, TILE
<1>3. j \in 0..(nz - 1) /\ slot(0, cz0 + j)[2] = (p[2] \div CHUNK) % TILE
  BY <1>1 DEF contains, slot, Span, clamp_span, CHUNK, TILE
<1>4. SlotOf(p) = slot(cx0 + i, cz0 + j)
  BY <1>2, <1>3 DEF SlotOf, slot
<1> HIDE DEF i, j
<1>5. QED
  BY <1>2, <1>3, <1>4 DEF SlotsIn

\* Every box is a box of integers, and every column a pair of integers.
LEMMA BoxesAreBoxes == Boxes \subseteq [x0 : Int, x1 : Int, z0 : Int, z1 : Int]
  BY PointsAssumption, BoundAssumption DEF Boxes, region_box, snap_chunk, CHUNK

LEMMA CellsAreInts == Cells \subseteq Int \X Int
<1>1. CoordMax \in Int
  BY SMT DEF CoordMax
<1>2. QED
  BY <1>1, CellsAssumption

(***************************************************************************)
(* The invariant.  A reply is exact when, if nothing in its box changed    *)
(* since its stamp, its records are what a scan would emit now.  CacheExact*)
(* says so of the entries; to be kept by the writer that files an entry,   *)
(* it must hold of every reply still on its way: just scanned, queued, or  *)
(* in a writer's hand.  A stamp is never later than the counter, or the    *)
(* next edit could carry the stamp of a scan that missed it.               *)
(***************************************************************************)
Exact(g, w, n, b, recs, stamp) ==
    /\ stamp <= n
    /\ unchanged_since(g, b, stamp) => recs = Scan(w, b)
ReplyExact(r) == Exact(gen, world, now, r.box, r.recs, r.stamp)

IsReply(it) == it.kind \in {"job", "cached"}

EntriesExact ==
    \A k \in DOMAIN cache.map :
        Exact(gen, world, now, k, cache.map[k].recs, cache.map[k].stamp)
ThreadsExact == \A c \in Clients : thr[c].pc \in ReplyPcs => ReplyExact(thr[c].reply)
QueuesExact ==
    \A c \in Clients : \A i \in 1..Len(lo[c]) : IsReply(lo[c][i]) => ReplyExact(lo[c][i].reply)
HandsExact == \A c \in Clients : IsReply(hand[c]) => ReplyExact(hand[c].reply)

RepliesExact == EntriesExact /\ ThreadsExact /\ QueuesExact /\ HandsExact

\* The step that could break it: an edit.  It either lies outside the box, and the scan is
\* the same, or bumps a column the box covers past every stamp.
LEMMA EditKeepsExact ==
    ASSUME TypeOK, NEW p \in Cells, NEW v, worldSet(p, v),
           NEW b \in Boxes, NEW recs, NEW stamp \in Nat,
           Exact(gen, world, now, b, recs, stamp)
    PROVE  Exact(gen', world', now', b, recs, stamp)
<1>1. now' = now + 1 /\ now \in Nat /\ SlotOf(p) \in Slots /\ stamp <= now /\ stamp <= now'
  BY DEF worldSet, TypeOK, Slots, Exact
<1>2. SUFFICES ASSUME unchanged_since(gen', b, stamp)
               PROVE  recs = Scan(world', b)
  BY <1>1 DEF Exact
<1>3. gen' = [gen EXCEPT ![SlotOf(p)] = now + 1] /\ gen \in [Slots -> 0..now]
  BY DEF worldSet, TypeOK
<1>4. unchanged_since(gen, b, stamp)
  BY <1>1, <1>2, <1>3 DEF unchanged_since
<1>5. ~contains(b, p)
  <2>1. SUFFICES ASSUME contains(b, p) PROVE FALSE
    OBVIOUS
  <2>2. SlotOf(p) \in Slots \cap SlotsIn(b)
    BY <1>1, <2>1, SlotCovered, BoxesAreBoxes, CellsAreInts
  <2>3. now + 1 <= stamp
    BY <1>2, <1>3, <2>2 DEF unchanged_since
  <2>4. QED
    BY <1>1, <2>3
<1>6. {q \in DOMAIN world' : contains(b, q)} = {q \in DOMAIN world : contains(b, q)}
  BY <1>5 DEF worldSet
<1>7. \A q \in {r \in DOMAIN world : contains(b, r)} : world'[q] = world[q]
  BY <1>5 DEF worldSet
<1>8. Scan(world', b) = Scan(world, b)
  BY <1>6, <1>7 DEF Scan
<1>9. QED
  BY <1>4, <1>8 DEF Exact

(***************************************************************************)
(* What the cache operations do to the entries: a lookup and an eviction   *)
(* only take entries away; filing adds at most the one, and never in place *)
(* of one scanned as recently.                                             *)
(***************************************************************************)
LEMMA EvictErases ==
    ASSUME NEW ca, NEW limit
    PROVE  \E ks, order : evict_to(ca, limit) = EraseKeys(ca, ks, order)
  BY DEF evict_to

LEMMA FindShrinks ==
    ASSUME NEW k, NEW j \in DOMAIN find(cache, k).map
    PROVE  j \in DOMAIN cache.map /\ find(cache, k).map[j] = cache.map[j]
<1>1. CASE ~enabled \/ k \notin DOMAIN cache.map
  BY <1>1 DEF find
<1>2. CASE ~(~enabled \/ k \notin DOMAIN cache.map) /\ Hit(cache, k)
  BY <1>2 DEF find
<1>3. CASE ~(~enabled \/ k \notin DOMAIN cache.map) /\ ~Hit(cache, k)
  <2>1. find(cache, k) = EraseKeys(cache, {k}, Others(cache.order, k))
    BY <1>3 DEF find, erase
  <2>2. find(cache, k).map = [i \in DOMAIN cache.map \ {k} |-> cache.map[i]]
    BY <2>1 DEF EraseKeys
  <2>3. QED
    BY <2>2
<1>4. QED
  BY <1>1, <1>2, <1>3

LEMMA InsertFiles ==
    ASSUME NEW k, NEW e, NEW j \in DOMAIN insert(cache, k, e).map
    PROVE  \/ j \in DOMAIN cache.map /\ insert(cache, k, e).map[j] = cache.map[j]
           \/ /\ j = k /\ insert(cache, k, e).map[j] = e
              /\ ~Unwanted(cache, k, e)
<1>1. CASE Unwanted(cache, k, e)
  BY <1>1 DEF insert
<1>2. CASE ~Unwanted(cache, k, e)
  <2> DEFINE freed == IF k \in DOMAIN cache.map THEN erase(cache, k) ELSE cache
             room == evict_to(freed, CacheMax - e.bytes)
  <2>1. \A i \in DOMAIN freed.map : i \in DOMAIN cache.map /\ freed.map[i] = cache.map[i]
    <3>1. erase(cache, k).map = [i \in DOMAIN cache.map \ {k} |-> cache.map[i]]
      BY DEF erase, EraseKeys
    <3>2. QED
      BY <3>1
  <2>2. \A i \in DOMAIN room.map : i \in DOMAIN freed.map /\ room.map[i] = freed.map[i]
    <3> HIDE DEF freed
    <3>1. PICK ks, order : room = EraseKeys(freed, ks, order)
      BY EvictErases
    <3>2. room.map = [i \in DOMAIN freed.map \ ks |-> freed.map[i]]
      BY <3>1 DEF EraseKeys
    <3>3. QED
      BY <3>2
  <2>3. insert(cache, k, e).map =
          [i \in DOMAIN room.map \cup {k} |-> IF i = k THEN e ELSE room.map[i]]
    BY <1>2 DEF insert
  <2> HIDE DEF freed, room
  <2>4. QED
    BY <1>2, <2>1, <2>2, <2>3
<1>3. QED
  BY <1>1, <1>2

-----------------------------------------------------------------------------
(* Type correctness. *)

LEMMA RecordsFinite ==
    \A recs \in SUBSET Records : IsFiniteSet(recs) /\ Cardinality(recs) \in Nat
<1> DEFINE finite(a, b) == IsFiniteSet(a..b)
<1>1. CoordMax \in Int /\ 0 \in Int /\ 3 \in Int /\ -1 \in Int /\ 255 \in Int
  BY SMT DEF CoordMax
<1>2. \A a, b \in Int : finite(a, b)
  BY FS_Interval
<1> HIDE DEF finite
<1>3. finite(0, CoordMax) /\ finite(0, 3) /\ finite(-1, 255)
  BY <1>1, <1>2
<1>4. IsFiniteSet(Cells)
  <2>1. IsFiniteSet((0..CoordMax) \X (0..CoordMax))
    BY <1>3, FS_Product DEF finite
  <2>2. QED
    BY <2>1, CellsAssumption, FS_Subset
<1>5. IsFiniteSet({0, 1, 3} \X (-1..255))
  <2>1. IsFiniteSet(0..3) /\ {0, 1, 3} \subseteq 0..3 /\ IsFiniteSet(-1..255)
    BY <1>3 DEF finite
  <2>2. IsFiniteSet({0, 1, 3})
    BY <2>1, FS_Subset
  <2>3. QED
    BY <2>1, <2>2, FS_Product
<1>6. IsFiniteSet(Records)
  BY <1>4, <1>5, FS_Product DEF Records
<1>7. QED
  <2>1. TAKE recs \in SUBSET Records
  <2>2. IsFiniteSet(recs)
    BY <1>6, FS_Subset
  <2>3. QED
    BY <2>2, FS_CardinalityType

LEMMA ScanTyped ==
    ASSUME TypeOK, NEW b
    PROVE  Scan(world, b) \in SUBSET Records
<1>1. \A p \in DOMAIN world : emit_cell_records(p, world[p]) \subseteq Records
  <2>1. TAKE p \in DOMAIN world
  <2>2. p \in Cells /\ world[p] \in Contents
    BY DEF TypeOK
  <2>3. world[p].t \in 0..255 /\ world[p].c \in 0..255
    BY <2>2 DEF Contents
  <2>4. QED
    BY <2>2, <2>3 DEF emit_cell_records, Paint, Records
<1>2. QED
  BY <1>1 DEF Scan

\* What a reader or a writer holds of a reply is a reply.
LEMMA HeldTyped ==
    ASSUME TypeOK, NEW c \in Clients
    PROVE  /\ thr[c].pc \in ReplyPcs => thr[c].reply \in Replies
           /\ thr[c].pc = "relay" => thr[c].item \in EditItems /\ thr[c].todo \subseteq Clients
           /\ IsReply(hand[c]) => hand[c].reply \in Replies
           /\ lo[c] \in Seq(Items)
<1>1. thr[c] \in ThreadStates /\ hand[c] \in Items \cup {Nothing} /\ lo[c] \in Seq(Items)
  BY DEF TypeOK
<1>2. QED
  BY <1>1 DEF ThreadStates, Items, EditItems, Nothing, Idle, ReplyPcs, IsReply
\* Filing a reply keeps the cache's entries typed.
LEMMA InsertTyped ==
    ASSUME TypeOK, NEW r \in Replies
    PROVE  LET m == insert(cache, r.box, [recs |-> r.recs, stamp |-> r.stamp,
                                          bytes |-> EncodedBytes(r.recs)]).map
           IN  \A k \in DOMAIN m : k \in Boxes /\ m[k] \in Entries
<1> DEFINE e == [recs |-> r.recs, stamp |-> r.stamp, bytes |-> EncodedBytes(r.recs)]
<1>1. e \in Entries
  BY RecordsFinite DEF Entries, Replies, EncodedBytes
<1>2. r.box \in Boxes
  BY DEF Replies
<1>3. \A k \in DOMAIN cache.map : k \in Boxes /\ cache.map[k] \in Entries
  BY DEF TypeOK
<1> HIDE DEF e
<1>4. \A k \in DOMAIN insert(cache, r.box, e).map :
          k \in Boxes /\ insert(cache, r.box, e).map[k] \in Entries
  BY <1>1, <1>2, <1>3, InsertFiles
<1>5. QED
  BY <1>4 DEF e

IsFun(m) == m = [k \in DOMAIN m |-> m[k]]

LEMMA FindIsFun ==
    ASSUME NEW k, IsFun(cache.map)
    PROVE  IsFun(find(cache, k).map)
<1>1. CASE ~enabled \/ k \notin DOMAIN cache.map
  BY <1>1 DEF find
<1>2. CASE ~(~enabled \/ k \notin DOMAIN cache.map) /\ Hit(cache, k)
  BY <1>2 DEF find
<1>3. CASE ~(~enabled \/ k \notin DOMAIN cache.map) /\ ~Hit(cache, k)
  <2>1. find(cache, k) = EraseKeys(cache, {k}, Others(cache.order, k))
    BY <1>3 DEF find, erase
  <2>2. find(cache, k).map = [i \in DOMAIN cache.map \ {k} |-> cache.map[i]]
    BY <2>1 DEF EraseKeys
  <2>3. QED
    BY <2>2 DEF IsFun
<1>4. QED
  BY <1>1, <1>2, <1>3

LEMMA InsertIsFun ==
    ASSUME NEW k, NEW e, IsFun(cache.map)
    PROVE  IsFun(insert(cache, k, e).map)
<1>1. CASE Unwanted(cache, k, e)
  BY <1>1 DEF insert
<1>2. CASE ~Unwanted(cache, k, e)
  <2> DEFINE freed == IF k \in DOMAIN cache.map THEN erase(cache, k) ELSE cache
             room == evict_to(freed, CacheMax - e.bytes)
  <2>1. insert(cache, k, e).map =
          [i \in DOMAIN room.map \cup {k} |-> IF i = k THEN e ELSE room.map[i]]
    BY <1>2 DEF insert
  <2> HIDE DEF freed, room
  <2>2. QED
    BY <2>1 DEF IsFun
<1>3. QED
  BY <1>1, <1>2

LEMMA TypeInit == Init => TypeOK
<1> SUFFICES ASSUME Init PROVE TypeOK
  OBVIOUS
<1>1. DOMAIN << >> = {} /\ << >> \in [{} -> Contents] /\ << >> \in [{} -> Entries]
  OBVIOUS
<1>2. DOMAIN world \subseteq Cells /\ world \in [DOMAIN world -> Contents]
  BY <1>1 DEF Init
<1>3. DOMAIN cache.map \subseteq Boxes /\ cache.map \in [DOMAIN cache.map -> Entries]
  BY <1>1 DEF Init
<1>4. now \in Nat /\ gen \in [Slots -> 0..now] /\ pending \in Int
  BY DEF Init
<1>5. served \in [Clients -> 0..SessionCap]
  BY BoundAssumption DEF Init
<1>6. thr \in [Clients -> ThreadStates] /\ lo \in [Clients -> Seq(Items)]
        /\ hand \in [Clients -> Items \cup {Nothing}]
  BY DEF Init, ThreadStates
<1>7. QED
  BY <1>2, <1>3, <1>4, <1>5, <1>6 DEF TypeOK

LEMMA TypeStep == TypeOK /\ [Next]_vars => TypeOK'
<1> SUFFICES ASSUME TypeOK, [Next]_vars PROVE TypeOK'
  OBVIOUS
<1>1. CASE UNCHANGED vars
  BY <1>1 DEF vars, TypeOK
<1>2. ASSUME NEW c \in Clients, NEW p \in Cells, Edit(c, p) PROVE TypeOK'
  <2>1. PICK v \in Outcomes(p) : worldSet(p, v)
    BY <1>2 DEF Edit
  <2>2. v \in Contents
    <3>1. (IF p \in DOMAIN world THEN world[p].t ELSE PAINTED) \in 0..255
      BY DEF TypeOK, Contents, PAINTED
    <3>2. CASE v \in {[t |-> ty, c |-> 0] : ty \in Types}
      BY <3>2, ContentAssumption DEF Contents
    <3>3. CASE v = [t |-> AIR, c |-> 0]
      BY <3>3 DEF Contents, AIR
    <3>4. CASE v \in {[t |-> IF p \in DOMAIN world THEN world[p].t ELSE PAINTED, c |-> co] :
                         co \in Colors}
      BY <3>1, <3>4, ContentAssumption DEF Contents
    <3>5. QED
      BY <2>1, <3>2, <3>3, <3>4 DEF Outcomes
  <2>3. DOMAIN world' \subseteq Cells /\ world' \in [DOMAIN world' -> Contents]
    BY <2>1, <2>2 DEF worldSet, TypeOK
  <2>4. now' \in Nat /\ gen' \in [Slots -> 0..now']
    <3>1. now' = now + 1 /\ gen' = [gen EXCEPT ![SlotOf(p)] = now + 1]
      BY <2>1 DEF worldSet
    <3>2. now \in Nat /\ gen \in [Slots -> 0..now]
      BY DEF TypeOK
    <3>3. \A n \in 0..now : n \in 0..(now + 1)
      BY <3>2
    <3>4. now + 1 \in 0..(now + 1) /\ now + 1 \in Nat
      BY <3>2
    <3>5. QED
      BY <3>1, <3>2, <3>3, <3>4
  <2>5. thr' \in [Clients -> ThreadStates]
    <3>1. [pc |-> "relay", item |-> EditItem(p, now + 1), todo |-> Clients \ {c}] \in ThreadStates
      BY DEF ThreadStates, EditItem, EditItems, TypeOK
    <3>2. QED
      BY <1>2, <3>1 DEF Edit, TypeOK
  <2>6. QED
    BY <1>2, <2>3, <2>4, <2>5 DEF Edit, TypeOK
<1>3. ASSUME NEW c \in Clients, NEW p \in Cells, EditRefused(c, p) PROVE TypeOK'
  <2>1. UndoItem(p) \in Items
    BY DEF UndoItem, Items
  <2>2. QED
    BY <1>3, <2>1 DEF EditRefused, TypeOK
<1>4. ASSUME NEW c \in Clients, NEW d \in Clients, RelayTo(c, d) PROVE TypeOK'
  <2>1. thr[c] \in [pc : {"relay"}, item : EditItems, todo : SUBSET Clients]
    <3>1. thr[c] \in ThreadStates /\ thr[c].pc = "relay"
      BY <1>4 DEF RelayTo, TypeOK
    <3>2. thr[c] # Idle /\ thr[c] \notin [pc : ReplyPcs, reply : Replies]
      BY <3>1 DEF Idle, ReplyPcs
    <3>3. QED
      BY <3>1, <3>2 DEF ThreadStates
  <2>2. [thr[c] EXCEPT !.todo = @ \ {d}] \in ThreadStates
    BY <2>1 DEF ThreadStates
  <2>3. thr[c].item \in Items
    BY <2>1 DEF Items
  <2>4. QED
    BY <1>4, <2>1, <2>2, <2>3 DEF RelayTo, TypeOK
<1>5. ASSUME NEW c \in Clients, RelayDone(c) PROVE TypeOK'
  BY <1>5 DEF RelayDone, TypeOK, ThreadStates
<1>6. ASSUME NEW c \in Clients, NEW pt \in Points, RegionScan(c, pt) PROVE TypeOK'
  <2> DEFINE box == region_box(pt)
             fresh == [box |-> box, recs |-> Scan(world, box), stamp |-> now]
             old == [box |-> box, recs |-> cache.map[box].recs, stamp |-> cache.map[box].stamp]
  <2>1. box \in Boxes
    BY DEF Boxes
  <2>2. fresh \in Replies
    BY <2>1, ScanTyped DEF Replies, TypeOK
  <2>3. Hit(cache, box) => old \in Replies
    BY <2>1 DEF Hit, Replies, TypeOK, Entries
  <2>4. thr' \in [Clients -> ThreadStates]
    BY <1>6, <2>2, <2>3 DEF RegionScan, TypeOK, ThreadStates, ReplyPcs
  <2>5. DOMAIN cache'.map \subseteq Boxes /\ cache'.map \in [DOMAIN cache'.map -> Entries]
    <3>1. cache' = find(cache, box)
      BY <1>6 DEF RegionScan
    <3>2. IsFun(cache.map)
      BY DEF TypeOK, IsFun
    <3>3. \A k \in DOMAIN cache'.map : k \in DOMAIN cache.map /\ cache'.map[k] = cache.map[k]
      BY <3>1, FindShrinks
    <3>4. IsFun(cache'.map)
      BY <3>1, <3>2, FindIsFun
    <3>5. QED
      BY <3>3, <3>4 DEF IsFun, TypeOK
  <2>6. served' \in [Clients -> 0..SessionCap]
    BY <1>6, BoundAssumption DEF RegionScan, MayServe, TypeOK
  <2> HIDE DEF box
  <2>7. QED
    BY <1>6, <2>4, <2>5, <2>6 DEF RegionScan, TypeOK
<1>7. ASSUME NEW c \in Clients, BudgetRefuse(c) PROVE TypeOK'
  BY <1>7 DEF BudgetRefuse, TypeOK, ThreadStates
<1>8. ASSUME NEW c \in Clients, CountPending(c) PROVE TypeOK'
  <2>1. thr[c] \in [pc : ReplyPcs, reply : Replies]
    BY <1>8 DEF CountPending, TypeOK, ThreadStates, Idle
  <2>2. [thr[c] EXCEPT !.pc = "counted"] \in ThreadStates
    BY <2>1 DEF ThreadStates, ReplyPcs
  <2>3. Cardinality(thr[c].reply.recs) \in Nat
    BY <2>1, RecordsFinite DEF Replies
  <2>4. QED
    BY <1>8, <2>2, <2>3 DEF CountPending, TypeOK
<1>9. ASSUME NEW c \in Clients, GlobalGuard(c) PROVE TypeOK'
  <2>1. thr[c] \in [pc : ReplyPcs, reply : Replies]
    BY <1>9 DEF GlobalGuard, TypeOK, ThreadStates, Idle
  <2>2. [thr[c] EXCEPT !.pc = "admitted"] \in ThreadStates /\ Idle \in ThreadStates
    BY <2>1 DEF ThreadStates, ReplyPcs
  <2>3. Cardinality(thr[c].reply.recs) \in Nat
    BY <2>1, RecordsFinite DEF Replies
  <2>4. pending' \in Int
    BY <1>9, <2>3 DEF GlobalGuard, TypeOK
  <2>5. thr' \in [Clients -> ThreadStates]
    BY <1>9, <2>2 DEF GlobalGuard, TypeOK
  <2>6. QED
    BY <1>9, <2>4, <2>5 DEF GlobalGuard, TypeOK
<1>10. ASSUME NEW c \in Clients, PushRegion(c) PROVE TypeOK'
  <2>1. thr[c].reply \in Replies
    BY <1>10, HeldTyped DEF PushRegion, ReplyPcs
  <2>2. ReplyItem("job", thr[c].reply) \in Items /\ Idle \in ThreadStates
    BY <2>1 DEF ReplyItem, Items, ThreadStates
  <2>3. Cardinality(thr[c].reply.recs) \in Nat
    BY <2>1, RecordsFinite DEF Replies
  <2>4. pending' \in Int
    BY <1>10, <2>3 DEF PushRegion, TypeOK
  <2>5. lo' \in [Clients -> Seq(Items)]
    <3>1. \/ lo' = lo
          \/ lo' = [lo EXCEPT ![c] = Append(lo[c], ReplyItem("job", thr[c].reply))]
      BY <1>10 DEF PushRegion
    <3>2. Append(lo[c], ReplyItem("job", thr[c].reply)) \in Seq(Items)
      BY <2>2 DEF TypeOK
    <3>3. QED
      BY <3>1, <3>2 DEF TypeOK
  <2>6. thr' \in [Clients -> ThreadStates]
    BY <1>10, <2>2 DEF PushRegion, TypeOK
  <2>7. QED
    BY <1>10, <2>4, <2>5, <2>6 DEF PushRegion, TypeOK
<1>11. ASSUME NEW c \in Clients, PushCached(c) PROVE TypeOK'
  <2>1. thr[c].reply \in Replies
    BY <1>11, HeldTyped DEF PushCached, ReplyPcs
  <2>2. ReplyItem("cached", thr[c].reply) \in Items /\ Idle \in ThreadStates
    BY <2>1 DEF ReplyItem, Items, ThreadStates
  <2>3. QED
    BY <1>11, <2>2 DEF PushCached, TypeOK
<1>12. ASSUME NEW c \in Clients, WriterTake(c) PROVE TypeOK'
  <2>1. Head(lo[c]) \in Items /\ Tail(lo[c]) \in Seq(Items)
    BY <1>12 DEF WriterTake, TypeOK
  <2>2. QED
    BY <1>12, <2>1 DEF WriterTake, TypeOK
<1>13. ASSUME NEW c \in Clients, WriterSend(c) PROVE TypeOK'
  BY <1>13 DEF WriterSend, TypeOK
<1>14. ASSUME NEW c \in Clients, WriterFile(c) PROVE TypeOK'
  <2>1. hand[c].reply \in Replies
    BY <1>14, HeldTyped DEF WriterFile, IsReply
  <2>2. Cardinality(hand[c].reply.recs) \in Nat
    BY <2>1, RecordsFinite DEF Replies
  <2>3. DOMAIN cache'.map \subseteq Boxes /\ cache'.map \in [DOMAIN cache'.map -> Entries]
    <3>1. cache' = insert(cache, hand[c].reply.box,
                          [recs |-> hand[c].reply.recs, stamp |-> hand[c].reply.stamp,
                           bytes |-> EncodedBytes(hand[c].reply.recs)])
      BY <1>14 DEF WriterFile
    <3>2. IsFun(cache.map)
      BY DEF TypeOK, IsFun
    <3>3. IsFun(cache'.map)
      BY <3>1, <3>2, InsertIsFun
    <3>4. \A k \in DOMAIN cache'.map : k \in Boxes /\ cache'.map[k] \in Entries
      BY <2>1, <3>1, InsertTyped
    <3>5. QED
      BY <3>3, <3>4 DEF IsFun
  <2>4. hand' \in [Clients -> Items \cup {Nothing}]
    BY <1>14 DEF WriterFile, TypeOK
  <2>5. pending' \in Int
    BY <1>14, <2>2 DEF WriterFile, TypeOK
  <2>6. QED
    BY <1>14, <2>3, <2>4, <2>5 DEF WriterFile, TypeOK
<1>15. ASSUME NEW c \in Clients, WriterAbandon(c) PROVE TypeOK'
  <2>1. hand[c].reply \in Replies
    BY <1>15, HeldTyped DEF WriterAbandon, IsReply
  <2>2. Cardinality(hand[c].reply.recs) \in Nat
    BY <2>1, RecordsFinite DEF Replies
  <2>3. QED
    BY <1>15, <2>2 DEF WriterAbandon, TypeOK
<1>16. QED
  BY <1>1, <1>2, <1>3, <1>4, <1>5, <1>6, <1>7, <1>8, <1>9, <1>10, <1>11, <1>12, <1>13,
     <1>14, <1>15 DEF Next

\* Every variable keeps its type.
THEOREM TypeCorrect == Spec => []TypeOK
  BY TypeInit, TypeStep, PTL DEF Spec
-----------------------------------------------------------------------------
(* Exactness. *)

LEMMA QueueGrows ==
    ASSUME NEW q \in Seq(Items), NEW it \in Items, NEW i \in 1..Len(Append(q, it))
    PROVE  Append(q, it)[i] = it \/ (i \in 1..Len(q) /\ Append(q, it)[i] = q[i])
  OBVIOUS

LEMMA ExactInit == Init => RepliesExact
<1> SUFFICES ASSUME Init PROVE RepliesExact
  OBVIOUS
<1>1. EntriesExact
  <2>1. DOMAIN << >> = {}
    OBVIOUS
  <2>2. QED
    BY <2>1 DEF Init, EntriesExact
<1>2. ThreadsExact
  BY DEF Init, ThreadsExact, Idle, ReplyPcs
<1>3. QueuesExact /\ HandsExact
  BY DEF Init, QueuesExact, HandsExact, Nothing, IsReply
<1>4. QED
  BY <1>1, <1>2, <1>3 DEF RepliesExact

LEMMA ExactStep == TypeOK /\ RepliesExact /\ [Next]_vars => RepliesExact'
<1> SUFFICES ASSUME TypeOK, RepliesExact, [Next]_vars PROVE RepliesExact'
  OBVIOUS
<1> USE DEF RepliesExact
<1>1. CASE UNCHANGED vars
  BY <1>1 DEF vars, EntriesExact, ThreadsExact, QueuesExact, HandsExact, ReplyExact
<1>2. ASSUME NEW c \in Clients, NEW p \in Cells, Edit(c, p) PROVE RepliesExact'
  <2>1. PICK v \in Outcomes(p) : worldSet(p, v)
    BY <1>2 DEF Edit
  <2>2. \A r \in Replies : ReplyExact(r) => Exact(gen', world', now', r.box, r.recs, r.stamp)
    BY <2>1, EditKeepsExact DEF ReplyExact, Replies
  <2>3. EntriesExact'
    <3>1. \A k \in DOMAIN cache.map : k \in Boxes /\ cache.map[k].stamp \in Nat
      BY DEF TypeOK, Entries
    <3>2. \A k \in DOMAIN cache.map :
            Exact(gen', world', now', k, cache.map[k].recs, cache.map[k].stamp)
      BY <2>1, <3>1, EditKeepsExact DEF EntriesExact
    <3>3. QED
      BY <1>2, <3>2 DEF Edit, EntriesExact
  <2>4. ThreadsExact'
    BY <1>2, <2>2, HeldTyped DEF Edit, TypeOK, ThreadsExact, ReplyExact, ReplyPcs
  <2>5. QueuesExact'
    <3>1. \A d \in Clients : \A i \in 1..Len(lo[d]) :
            IsReply(lo[d][i]) => lo[d][i].reply \in Replies
      BY DEF TypeOK, Items, EditItems, IsReply
    <3>2. QED
      BY <1>2, <2>2, <3>1 DEF Edit, QueuesExact, ReplyExact
  <2>6. HandsExact'
    BY <1>2, <2>2, HeldTyped DEF Edit, HandsExact, ReplyExact
  <2>7. QED
    BY <2>3, <2>4, <2>5, <2>6
<1>3. ASSUME NEW c \in Clients, NEW p \in Cells, EditRefused(c, p) PROVE RepliesExact'
  <2>1. UndoItem(p) \in Items /\ ~IsReply(UndoItem(p))
    BY DEF UndoItem, Items, IsReply
  <2>2. QueuesExact'
    BY <1>3, <2>1, QueueGrows DEF EditRefused, QueuesExact, ReplyExact, TypeOK
  <2>3. QED
    BY <1>3, <2>2 DEF EditRefused, EntriesExact, ThreadsExact, HandsExact, ReplyExact
<1>4. ASSUME NEW c \in Clients, NEW d \in Clients, RelayTo(c, d) PROVE RepliesExact'
  <2>1. thr[c].item \in Items /\ ~IsReply(thr[c].item)
    BY <1>4, HeldTyped DEF RelayTo, EditItems, Items, IsReply
  <2>2. QueuesExact'
    BY <1>4, <2>1, QueueGrows DEF RelayTo, QueuesExact, ReplyExact, TypeOK
  <2>3. ThreadsExact'
    <3>1. thr[c].pc \notin ReplyPcs
      BY <1>4 DEF RelayTo, ReplyPcs
    <3>2. \A e \in Clients : thr'[e].pc = thr[e].pc /\ (e # c => thr'[e] = thr[e])
      BY <1>4 DEF RelayTo, TypeOK
    <3>3. QED
      BY <1>4, <3>1, <3>2 DEF RelayTo, ThreadsExact, ReplyExact
  <2>4. QED
    BY <1>4, <2>2, <2>3 DEF RelayTo, EntriesExact, HandsExact, ReplyExact
<1>5. ASSUME NEW c \in Clients, RelayDone(c) PROVE RepliesExact'
  BY <1>5 DEF RelayDone, TypeOK, EntriesExact, ThreadsExact, QueuesExact, HandsExact,
              ReplyExact, Idle, ReplyPcs
<1>6. ASSUME NEW c \in Clients, NEW pt \in Points, RegionScan(c, pt) PROVE RepliesExact'
  <2> DEFINE box == region_box(pt)
             fresh == [box |-> box, recs |-> Scan(world, box), stamp |-> now]
             old == [box |-> box, recs |-> cache.map[box].recs, stamp |-> cache.map[box].stamp]
  <2>1. EntriesExact'
    BY <1>6, FindShrinks DEF RegionScan, EntriesExact
  <2>2. ReplyExact(fresh)
    BY DEF ReplyExact, Exact, TypeOK
  <2>3. Hit(cache, box) => ReplyExact(old)
    BY DEF Hit, ReplyExact, EntriesExact
  <2>4. ThreadsExact'
    <3> HIDE DEF fresh, old
    <3>1. \/ thr' = [thr EXCEPT ![c] = [pc |-> "hit", reply |-> old]] /\ Hit(cache, box)
          \/ thr' = [thr EXCEPT ![c] = [pc |-> "scanned", reply |-> fresh]]
      BY <1>6 DEF RegionScan, old, fresh
    <3>2. QED
      BY <1>6, <2>2, <2>3, <3>1 DEF RegionScan, TypeOK, ThreadsExact, ReplyExact
  <2>5. QED
    BY <1>6, <2>1, <2>4 DEF RegionScan, QueuesExact, HandsExact, ReplyExact
<1>7. ASSUME NEW c \in Clients, BudgetRefuse(c) PROVE RepliesExact'
  BY <1>7 DEF BudgetRefuse, TypeOK, EntriesExact, ThreadsExact, QueuesExact, HandsExact,
              ReplyExact, Idle, ReplyPcs
<1>8. ASSUME NEW c \in Clients, CountPending(c) PROVE RepliesExact'
  <2>1. thr[c] \in [pc : ReplyPcs, reply : Replies]
    BY <1>8 DEF CountPending, TypeOK, ThreadStates, Idle
  <2>2. thr' = [thr EXCEPT ![c] = [thr[c] EXCEPT !.pc = "counted"]]
    BY <1>8 DEF CountPending
  <2>3. ThreadsExact'
    BY <1>8, <2>1, <2>2 DEF CountPending, TypeOK, ThreadsExact, ReplyExact
  <2>4. QED
    BY <1>8, <2>3 DEF CountPending, EntriesExact, QueuesExact, HandsExact, ReplyExact
<1>9. ASSUME NEW c \in Clients, GlobalGuard(c) PROVE RepliesExact'
  <2>1. thr[c] \in [pc : ReplyPcs, reply : Replies]
    BY <1>9 DEF GlobalGuard, TypeOK, ThreadStates, Idle
  <2>2. \/ thr' = [thr EXCEPT ![c] = [thr[c] EXCEPT !.pc = "admitted"]]
        \/ thr' = [thr EXCEPT ![c] = Idle]
    BY <1>9 DEF GlobalGuard
  <2>3. ThreadsExact'
    <3>1. ReplyExact(thr[c].reply)
      BY <2>1 DEF ThreadsExact
    <3>2. thr'[c] = Idle \/ thr'[c].reply = thr[c].reply
      BY <2>1, <2>2 DEF TypeOK
    <3>3. \A d \in Clients : d # c => thr'[d] = thr[d]
      BY <2>2 DEF TypeOK
    <3>4. UNCHANGED <<world, gen, now>>
      BY <1>9 DEF GlobalGuard
    <3>5. QED
      BY <3>1, <3>2, <3>3, <3>4 DEF ThreadsExact, ReplyExact, Idle, ReplyPcs
  <2>4. QED
    BY <1>9, <2>3 DEF GlobalGuard, EntriesExact, QueuesExact, HandsExact, ReplyExact
<1>10. ASSUME NEW c \in Clients, PushRegion(c) PROVE RepliesExact'
  <2> DEFINE it == ReplyItem("job", thr[c].reply)
  <2>1. it \in Items /\ it.reply = thr[c].reply /\ ReplyExact(thr[c].reply)
    BY <1>10, HeldTyped DEF PushRegion, ReplyPcs, ReplyItem, Items, ThreadsExact
  <2>2. lo' = lo \/ lo' = [lo EXCEPT ![c] = Append(lo[c], it)]
    BY <1>10 DEF PushRegion
  <2> HIDE DEF it
  <2>3. QueuesExact'
    <3>1. UNCHANGED <<world, gen, now>>
      BY <1>10 DEF PushRegion
    <3>2. CASE lo' = lo
      BY <3>1, <3>2 DEF QueuesExact, ReplyExact
    <3>3. CASE lo' = [lo EXCEPT ![c] = Append(lo[c], it)]
      BY <2>1, <3>1, <3>3, QueueGrows DEF QueuesExact, ReplyExact, TypeOK
    <3>4. QED
      BY <2>2, <3>2, <3>3
  <2>4. ThreadsExact'
    BY <1>10 DEF PushRegion, TypeOK, ThreadsExact, ReplyExact, Idle, ReplyPcs
  <2>5. QED
    BY <1>10, <2>3, <2>4 DEF PushRegion, EntriesExact, HandsExact, ReplyExact
<1>11. ASSUME NEW c \in Clients, PushCached(c) PROVE RepliesExact'
  <2> DEFINE it == ReplyItem("cached", thr[c].reply)
  <2>1. it \in Items /\ it.reply = thr[c].reply /\ ReplyExact(thr[c].reply)
    BY <1>11, HeldTyped DEF PushCached, ReplyPcs, ReplyItem, Items, ThreadsExact
  <2>2. lo' = lo \/ lo' = [lo EXCEPT ![c] = Append(lo[c], it)]
    BY <1>11 DEF PushCached
  <2> HIDE DEF it
  <2>3. QueuesExact'
    <3>1. UNCHANGED <<world, gen, now>>
      BY <1>11 DEF PushCached
    <3>2. CASE lo' = lo
      BY <3>1, <3>2 DEF QueuesExact, ReplyExact
    <3>3. CASE lo' = [lo EXCEPT ![c] = Append(lo[c], it)]
      BY <2>1, <3>1, <3>3, QueueGrows DEF QueuesExact, ReplyExact, TypeOK
    <3>4. QED
      BY <2>2, <3>2, <3>3
  <2>4. ThreadsExact'
    BY <1>11 DEF PushCached, TypeOK, ThreadsExact, ReplyExact, Idle, ReplyPcs
  <2>5. QED
    BY <1>11, <2>3, <2>4 DEF PushCached, EntriesExact, HandsExact, ReplyExact
<1>12. ASSUME NEW c \in Clients, WriterTake(c) PROVE RepliesExact'
  <2>1. lo[c] \in Seq(Items) /\ lo[c] # << >>
    BY <1>12 DEF WriterTake, TypeOK
  <2>2. IsReply(Head(lo[c])) => ReplyExact(Head(lo[c]).reply)
    BY <2>1 DEF QueuesExact
  <2>3. HandsExact'
    BY <1>12, <2>2 DEF WriterTake, HandsExact, ReplyExact, TypeOK
  <2>4. \A i \in 1..Len(Tail(lo[c])) : i + 1 \in 1..Len(lo[c]) /\ Tail(lo[c])[i] = lo[c][i + 1]
    BY <2>1
  <2>5. QueuesExact'
    BY <1>12, <2>4 DEF WriterTake, QueuesExact, ReplyExact, TypeOK
  <2>6. QED
    BY <1>12, <2>3, <2>5 DEF WriterTake, EntriesExact, ThreadsExact, ReplyExact
<1>13. ASSUME NEW c \in Clients, WriterSend(c) PROVE RepliesExact'
  BY <1>13 DEF WriterSend, TypeOK, EntriesExact, ThreadsExact, QueuesExact, HandsExact,
               ReplyExact, Nothing, IsReply
<1>14. ASSUME NEW c \in Clients, WriterFile(c) PROVE RepliesExact'
  <2> DEFINE r == hand[c].reply
             e == [recs |-> r.recs, stamp |-> r.stamp, bytes |-> EncodedBytes(r.recs)]
  <2>1. ReplyExact(r)
    BY <1>14 DEF WriterFile, HandsExact, IsReply
  <2>2. cache' = insert(cache, r.box, e)
    BY <1>14 DEF WriterFile
  <2>3. e.recs = r.recs /\ e.stamp = r.stamp
    OBVIOUS
  <2> HIDE DEF e
  <2>4. \A k \in DOMAIN cache'.map :
            \/ k \in DOMAIN cache.map /\ cache'.map[k] = cache.map[k]
            \/ k = r.box /\ cache'.map[k] = e
    BY <2>2, InsertFiles
  <2>5. EntriesExact'
    BY <1>14, <2>1, <2>3, <2>4 DEF WriterFile, EntriesExact, ReplyExact
  <2>6. HandsExact'
    BY <1>14 DEF WriterFile, HandsExact, ReplyExact, TypeOK, Nothing, IsReply
  <2>7. QED
    BY <1>14, <2>5, <2>6 DEF WriterFile, ThreadsExact, QueuesExact, ReplyExact
<1>15. ASSUME NEW c \in Clients, WriterAbandon(c) PROVE RepliesExact'
  BY <1>15 DEF WriterAbandon, TypeOK, EntriesExact, ThreadsExact, QueuesExact, HandsExact,
               ReplyExact, Nothing, IsReply
<1>16. QED
  BY <1>1, <1>2, <1>3, <1>4, <1>5, <1>6, <1>7, <1>8, <1>9, <1>10, <1>11, <1>12, <1>13,
     <1>14, <1>15 DEF Next

\* "a stale reply cannot be served": every entry a lookup would serve equals a fresh scan,
\* whatever the interleaving of edits, scans, sends and filings.
THEOREM CacheIsExact == Spec => []CacheExact
<1>1. RepliesExact => CacheExact
  BY DEF RepliesExact, EntriesExact, Exact, CacheExact
<1>2. QED
  BY <1>1, TypeInit, TypeStep, ExactInit, ExactStep, PTL DEF Spec

\* RegionCache::insert never puts an older scan in place of a newer one; no other step
\* changes an entry it keeps.
THEOREM FiledForward == Spec => NeverFiledBackwards
<1> DEFINE Forward == \A k \in DOMAIN cache.map \cap DOMAIN cache'.map :
                          cache'.map[k].stamp >= cache.map[k].stamp
<1>1. TypeOK /\ [Next]_vars => [Forward]_vars
  <2> SUFFICES ASSUME TypeOK, Next PROVE Forward
    BY DEF vars
  <2>1. \A k \in DOMAIN cache.map : cache.map[k].stamp \in Nat
    BY DEF TypeOK, Entries
  <2>2. ASSUME NEW c \in Clients, NEW pt \in Points, RegionScan(c, pt) PROVE Forward
    BY <2>1, <2>2, FindShrinks DEF RegionScan
  <2>3. ASSUME NEW c \in Clients, WriterFile(c) PROVE Forward
    <3> DEFINE r == hand[c].reply
               e == [recs |-> r.recs, stamp |-> r.stamp, bytes |-> EncodedBytes(r.recs)]
    <3>1. cache' = insert(cache, r.box, e)
      BY <2>3 DEF WriterFile
    <3>2. r \in Replies
      BY <2>3, HeldTyped DEF WriterFile, IsReply
    <3>3. e.stamp \in Nat /\ (~Unwanted(cache, r.box, e) =>
                                r.box \notin DOMAIN cache.map \/ ~(cache.map[r.box].stamp >= e.stamp))
      BY <3>2 DEF Unwanted, Replies
    <3> HIDE DEF e
    <3>4. QED
      BY <2>1, <3>1, <3>3, InsertFiles
  <2>4. CASE UNCHANGED cache
    BY <2>1, <2>4
  <2>5. QED
    BY <2>2, <2>3, <2>4 DEF Next, Edit, EditRefused, RelayTo, RelayDone, BudgetRefuse,
       CountPending, GlobalGuard, PushRegion, PushCached, WriterTake, WriterSend, WriterAbandon
<1>2. QED
  BY <1>1, TypeInit, TypeStep, PTL DEF Spec, NeverFiledBackwards

-----------------------------------------------------------------------------
(***************************************************************************)
(* The record counter.  Records are counted by where their reply is, so    *)
(* that a reply which moves on - to the queue, to the writer - keeps its   *)
(* records, and one that ends takes exactly its own away.                  *)
(***************************************************************************)
Places == Clients \X ({-1} \cup Nat)
Tokens(f) == {tk \in Places \X Records : tk[2] \in f[tk[1]]}
Placing == [Places -> SUBSET Records]

LEMMA TaggedCount ==
    ASSUME NEW x, NEW R \in SUBSET Records
    PROVE  IsFiniteSet({x} \X R) /\ Cardinality({x} \X R) = Cardinality(R) /\ Cardinality(R) \in Nat
<1>1. IsFiniteSet(R) /\ Cardinality(R) \in Nat
  BY RecordsFinite
<1>2. IsFiniteSet({x}) /\ Cardinality({x}) = 1
  BY FS_Singleton
<1>3. IsFiniteSet({x} \X R) /\ Cardinality({x} \X R) = Cardinality({x}) * Cardinality(R)
  BY <1>1, <1>2, FS_Product
<1>4. QED
  BY <1>1, <1>2, <1>3

\* Records appear at a place that had none.
LEMMA TokensAppear ==
    ASSUME NEW f \in Placing, NEW g \in Placing, IsFiniteSet(Tokens(f)),
           NEW x \in Places, f[x] = {}, \A y \in Places : y # x => g[y] = f[y]
    PROVE  /\ IsFiniteSet(Tokens(g)) /\ Cardinality(Tokens(f)) \in Nat
           /\ Cardinality(Tokens(g)) = Cardinality(Tokens(f)) + Cardinality(g[x])
<1> DEFINE T == {x} \X g[x]
<1>1. g[x] \in SUBSET Records
  BY DEF Placing
<1>2. Tokens(g) = Tokens(f) \cup T
  BY <1>1 DEF Tokens
<1>3. Tokens(f) \cap T = {}
  BY DEF Tokens
<1>4. IsFiniteSet(T) /\ Cardinality(T) = Cardinality(g[x]) /\ Cardinality(g[x]) \in Nat
  BY <1>1, TaggedCount
<1> HIDE DEF T
<1>5. Cardinality(Tokens(f) \cap T) = 0
  BY <1>3, FS_EmptySet
<1>6. Cardinality(Tokens(f)) \in Nat
  BY FS_CardinalityType
<1>7. /\ IsFiniteSet(Tokens(f) \cup T)
      /\ Cardinality(Tokens(f) \cup T) =
           Cardinality(Tokens(f)) + Cardinality(T) - Cardinality(Tokens(f) \cap T)
  BY <1>4, FS_Union
<1>8. QED
  BY <1>2, <1>4, <1>5, <1>6, <1>7

\* The records of one place go.
LEMMA TokensGo ==
    ASSUME NEW f \in Placing, NEW g \in Placing, IsFiniteSet(Tokens(f)),
           NEW x \in Places, g[x] = {}, \A y \in Places : y # x => g[y] = f[y]
    PROVE  /\ IsFiniteSet(Tokens(g)) /\ Cardinality(Tokens(g)) \in Nat
           /\ Cardinality(Tokens(g)) = Cardinality(Tokens(f)) - Cardinality(f[x])
<1>1. Tokens(g) \in SUBSET Tokens(f)
  BY DEF Tokens
<1>2. IsFiniteSet(Tokens(g))
  BY <1>1, FS_Subset
<1>3. /\ Cardinality(Tokens(f)) = Cardinality(Tokens(g)) + Cardinality(f[x])
      /\ Cardinality(Tokens(g)) \in Nat
  BY <1>2, TokensAppear
<1>4. Cardinality(f[x]) \in Nat
  BY RecordsFinite DEF Placing
<1>5. QED
  BY <1>2, <1>3, <1>4

\* A reply moves to a place that had none.
LEMMA TokensMove ==
    ASSUME NEW f \in Placing, NEW g \in Placing, IsFiniteSet(Tokens(f)),
           NEW x \in Places, NEW y \in Places, x # y, f[y] = {}, g[x] = {}, g[y] = f[x],
           \A z \in Places : z # x /\ z # y => g[z] = f[z]
    PROVE  IsFiniteSet(Tokens(g)) /\ Cardinality(Tokens(g)) = Cardinality(Tokens(f))
<1> DEFINE h == [f EXCEPT ![x] = {}]
<1>1. h \in Placing /\ h[x] = {} /\ \A z \in Places : z # x => h[z] = f[z]
  BY DEF Placing
<1> HIDE DEF h
<1>2. /\ IsFiniteSet(Tokens(h)) /\ Cardinality(Tokens(h)) \in Nat
      /\ Cardinality(Tokens(h)) = Cardinality(Tokens(f)) - Cardinality(f[x])
  BY <1>1, TokensGo
<1>3. h[y] = {} /\ \A z \in Places : z # y => g[z] = h[z]
  BY <1>1
<1>4. Cardinality(f[x]) \in Nat /\ Cardinality(Tokens(f)) \in Nat
  BY RecordsFinite, FS_CardinalityType DEF Placing
<1>5. IsFiniteSet(Tokens(g)) /\ Cardinality(Tokens(g)) = Cardinality(Tokens(h)) + Cardinality(g[y])
  BY <1>1, <1>2, <1>3, TokensAppear
<1>6. QED
  BY <1>2, <1>4, <1>5

\* The writer takes the head of client c's queue: every place of c moves up by one.
LEMMA TokensShift ==
    ASSUME NEW f \in Placing, IsFiniteSet(Tokens(f)), NEW c \in Clients, f[<<c, 0>>] = {},
           NEW g \in Placing,
           \A x \in Places : g[x] = IF x[1] = c /\ x[2] # -1 THEN f[<<c, x[2] + 1>>] ELSE f[x]
    PROVE  IsFiniteSet(Tokens(g)) /\ Cardinality(Tokens(g)) = Cardinality(Tokens(f))
<1> DEFINE up(x) == IF x[1] = c /\ x[2] # -1 THEN <<c, x[2] + 1>> ELSE x
           m == [tk \in Tokens(g) |-> <<up(tk[1]), tk[2]>>]
<1>1. \A x \in Places : up(x) \in Places /\ g[x] = f[up(x)]
  BY DEF Places
<1>2. \A x, y \in Places : up(x) = up(y) => x = y
  BY DEF Places
<1>3. \A y \in Places : y # <<c, 0>> => \E x \in Places : up(x) = y
  <2> SUFFICES ASSUME NEW y \in Places, y # <<c, 0>> PROVE \E x \in Places : up(x) = y
    OBVIOUS
  <2>1. CASE y[1] = c /\ y[2] # -1
    <3>1. y[2] - 1 \in Nat /\ y = <<c, y[2]>>
      BY <2>1 DEF Places
    <3>2. <<c, y[2] - 1>> \in Places /\ up(<<c, y[2] - 1>>) = y
      BY <3>1 DEF Places
    <3>3. QED
      BY <3>2
  <2>2. CASE ~(y[1] = c /\ y[2] # -1)
    BY <2>2
  <2>3. QED
    BY <2>1, <2>2
<1> HIDE DEF up
<1>4. m \in [Tokens(g) -> Tokens(f)]
  BY <1>1 DEF Tokens
<1>5. \A a, b \in Tokens(g) : m[a] = m[b] => a = b
  BY <1>2 DEF Tokens
<1>6. \A t \in Tokens(f) : \E a \in Tokens(g) : m[a] = t
  <2> SUFFICES ASSUME NEW t \in Tokens(f) PROVE \E a \in Tokens(g) : m[a] = t
    OBVIOUS
  <2>1. t[1] \in Places /\ t[1] # <<c, 0>> /\ t[2] \in Records /\ t = <<t[1], t[2]>> /\ t[2] \in f[t[1]]
    BY DEF Tokens
  <2>2. PICK x \in Places : up(x) = t[1]
    BY <1>3, <2>1
  <2>3. <<x, t[2]>> \in Tokens(g)
    BY <1>1, <2>1, <2>2 DEF Tokens
  <2>4. QED
    BY <2>1, <2>2, <2>3
<1>7. m \in Injection(Tokens(g), Tokens(f)) /\ m \in Surjection(Tokens(g), Tokens(f))
  <2> HIDE DEF m
  <2> QED
    BY <1>4, <1>5, <1>6 DEF Injection, Surjection, IsInjective
<1>8. QED
  BY <1>7, FS_Injection

\* Where the records of replies are: those of the readers at the stages pcs, and the queued.
RecsAt(c, i, pcs) ==
    IF i = -1 THEN IF thr[c].pc \in pcs THEN thr[c].reply.recs ELSE {}
    ELSE IF i = 0 THEN RecordsOf(hand[c])
    ELSE IF i <= Len(lo[c]) THEN RecordsOf(lo[c][i]) ELSE {}
Live(pcs) == [x \in Places |-> RecsAt(x[1], x[2], pcs)]

Counted == {"counted", "admitted"}
Admitted == {"admitted"}

LEMMA RecordsTyped ==
    ASSUME TypeOK, NEW c \in Clients
    PROVE  /\ thr[c].pc \in ReplyPcs => thr[c].reply.recs \in SUBSET Records
           /\ RecordsOf(hand[c]) \in SUBSET Records
           /\ lo[c] \in Seq(Items) /\ Len(lo[c]) \in Nat
           /\ \A i \in 1..Len(lo[c]) : RecordsOf(lo[c][i]) \in SUBSET Records
<1>1. \A it \in Items \cup {Nothing} : RecordsOf(it) \in SUBSET Records
  BY DEF RecordsOf, Items, EditItems, Nothing, Replies
<1>2. lo[c] \in Seq(Items) /\ hand[c] \in Items \cup {Nothing}
  BY DEF TypeOK
<1>3. thr[c].pc \in ReplyPcs => thr[c].reply.recs \in SUBSET Records
  BY HeldTyped DEF Replies
<1>4. QED
  BY <1>1, <1>2, <1>3

LEMMA LivePlaces ==
    ASSUME TypeOK, NEW pcs \in SUBSET Counted
    PROVE  /\ Live(pcs) \in Placing
           /\ \A c \in Clients : \A i \in {-1} \cup Nat :
                <<c, i>> \in Places /\ Live(pcs)[<<c, i>>] = RecsAt(c, i, pcs)
<1>1. ASSUME NEW c \in Clients, NEW i \in {-1} \cup Nat
      PROVE  RecsAt(c, i, pcs) \in SUBSET Records
  <2>1. i # -1 /\ i # 0 => i \in Nat \ {0}
    OBVIOUS
  <2>2. pcs \subseteq ReplyPcs
    BY DEF Counted, ReplyPcs
  <2>3. QED
    BY <2>1, <2>2, RecordsTyped DEF RecsAt
<1>2. QED
  BY <1>1 DEF Live, Places, Placing

LiveShape ==
    \A pcs \in SUBSET Counted :
        /\ Live(pcs) \in Placing
        /\ \A c \in Clients : \A i \in {-1} \cup Nat :
             <<c, i>> \in Places /\ Live(pcs)[<<c, i>>] = RecsAt(c, i, pcs)

LEMMA LiveHasShape == TypeOK => LiveShape
  BY LivePlaces DEF LiveShape

LEMMA LiveKeepsShape == TypeOK' => LiveShape'
  BY LiveHasShape, PTL

\* What the properties count is what is at the places.
LEMMA LiveTokens ==
    ASSUME TypeOK, NEW pcs \in SUBSET Counted
    PROVE  QueuedRecs \cup HeldRecs(pcs) = Tokens(Live(pcs))
<1>1. ASSUME NEW tk \in QueuedRecs \cup HeldRecs(pcs) PROVE tk \in Tokens(Live(pcs))
  <2>1. PICK c \in Clients, i \in {-1} \cup Nat : tk \in {<<c, i>>} \X RecsAt(c, i, pcs)
    <3>1. CASE tk \in HeldRecs(pcs)
      BY <3>1 DEF HeldRecs, RecsAt
    <3>2. CASE \E c \in Clients : tk \in {<<c, 0>>} \X RecordsOf(hand[c])
      BY <3>2 DEF RecsAt
    <3>3. CASE \E c \in Clients : \E i \in DOMAIN lo[c] : tk \in {<<c, i>>} \X RecordsOf(lo[c][i])
      <4>1. PICK c \in Clients : \E i \in DOMAIN lo[c] : tk \in {<<c, i>>} \X RecordsOf(lo[c][i])
        BY <3>3
      <4>2. PICK i \in DOMAIN lo[c] : tk \in {<<c, i>>} \X RecordsOf(lo[c][i])
        BY <4>1
      <4>3. i \in Nat /\ i # 0 /\ i # -1 /\ i <= Len(lo[c])
        BY RecordsTyped
      <4>4. QED
        BY <4>2, <4>3 DEF RecsAt
    <3>4. QED
      BY <1>1, <3>1, <3>2, <3>3 DEF QueuedRecs
  <2>2. <<c, i>> \in Places /\ Live(pcs)[<<c, i>>] = RecsAt(c, i, pcs) /\ Live(pcs) \in Placing
    BY LivePlaces
  <2>3. QED
    BY <2>1, <2>2 DEF Tokens, Placing
<1>2. ASSUME NEW tk \in Tokens(Live(pcs)) PROVE tk \in QueuedRecs \cup HeldRecs(pcs)
  <2>1. PICK c \in Clients, i \in {-1} \cup Nat : tk \in {<<c, i>>} \X RecsAt(c, i, pcs)
    BY LivePlaces DEF Tokens, Places
  <2>2. CASE i = -1
    BY <2>1, <2>2 DEF RecsAt, HeldRecs
  <2>3. CASE i = 0
    BY <2>1, <2>3 DEF RecsAt, QueuedRecs
  <2>4. CASE i # -1 /\ i # 0
    <3>1. i \in 1..Len(lo[c]) /\ RecsAt(c, i, pcs) = RecordsOf(lo[c][i]) /\ lo[c] \in Seq(Items)
      BY <2>1, <2>4, RecordsTyped DEF RecsAt
    <3>2. i \in DOMAIN lo[c]
      BY <3>1
    <3>3. tk \in UNION {{<<c, j>>} \X RecordsOf(lo[c][j]) : j \in DOMAIN lo[c]}
      BY <2>1, <3>1, <3>2
    <3>4. QED
      BY <3>3 DEF QueuedRecs
  <2>5. QED
    BY <2>2, <2>3, <2>4
<1>3. QED
  BY <1>1, <1>2

(***************************************************************************)
(* BacklogBounded is not inductive: a reader past the guard is about to    *)
(* add to the queue.  Counted with the queue it is, because the guard read *)
(* a count that already held its records.                                  *)
(***************************************************************************)
PendInv ==
    /\ IsFiniteSet(Tokens(Live(Counted)))
    /\ pending = Cardinality(Tokens(Live(Counted)))
    /\ PendingMax > 0 => Cardinality(Tokens(Live(Admitted))) <= PendingMax

LEMMA PcsAreCounted == Counted \in SUBSET Counted /\ Admitted \in SUBSET Counted /\ {} \in SUBSET Counted
  BY DEF Counted, Admitted

LEMMA FewerTokens ==
    ASSUME TypeOK, IsFiniteSet(Tokens(Live(Counted))), NEW pcs \in SUBSET Counted,
           NEW qcs \in SUBSET pcs
    PROVE  /\ IsFiniteSet(Tokens(Live(pcs)))
           /\ Cardinality(Tokens(Live(pcs))) \in Nat /\ Cardinality(Tokens(Live(qcs))) \in Nat
           /\ Cardinality(Tokens(Live(qcs))) <= Cardinality(Tokens(Live(pcs)))
<1>1. ASSUME NEW ps \in SUBSET Counted, NEW qs \in SUBSET ps
      PROVE  Tokens(Live(qs)) \in SUBSET Tokens(Live(ps))
  <2>1. \A c, i : RecsAt(c, i, qs) \subseteq RecsAt(c, i, ps)
    BY DEF RecsAt
  <2>2. \A x \in Places : Live(qs)[x] \subseteq Live(ps)[x]
    BY <2>1 DEF Live
  <2>3. QED
    BY <2>2 DEF Tokens
<1>2. Tokens(Live(pcs)) \in SUBSET Tokens(Live(Counted))
  BY <1>1, PcsAreCounted
<1>3. IsFiniteSet(Tokens(Live(pcs)))
  BY <1>2, FS_Subset
<1>4. Tokens(Live(qcs)) \in SUBSET Tokens(Live(pcs))
  BY <1>1
<1>5. /\ IsFiniteSet(Tokens(Live(qcs)))
      /\ Cardinality(Tokens(Live(qcs))) <= Cardinality(Tokens(Live(pcs)))
  BY <1>3, <1>4, FS_Subset
<1>6. QED
  BY <1>3, <1>5, FS_CardinalityType

LEMMA PendInit == Init => PendInv
<1> SUFFICES ASSUME Init PROVE PendInv
  OBVIOUS
<1>1. \A c \in Clients, i \in {-1} \cup Nat, pcs \in SUBSET Counted : RecsAt(c, i, pcs) = {}
  <2> SUFFICES ASSUME NEW c \in Clients, NEW i \in {-1} \cup Nat, NEW pcs \in SUBSET Counted
               PROVE  RecsAt(c, i, pcs) = {}
    OBVIOUS
  <2>1. thr[c] = Idle /\ hand[c] = Nothing /\ lo[c] = << >> /\ Len(lo[c]) = 0
    BY DEF Init
  <2>2. thr[c].pc \notin pcs /\ hand[c].kind = "none"
    BY <2>1 DEF Idle, Nothing, Counted
  <2>3. i # -1 /\ i # 0 => ~(i <= 0)
    OBVIOUS
  <2>4. QED
    BY <2>1, <2>2, <2>3 DEF RecsAt, RecordsOf
<1>2. \A pcs \in SUBSET Counted : Tokens(Live(pcs)) = {}
  BY <1>1 DEF Tokens, Live, Places
<1>3. pending = 0
  BY DEF Init
<1>4. QED
  BY <1>2, <1>3, PcsAreCounted, FS_EmptySet, BoundAssumption DEF PendInv

\* A step that moves no records.
LEMMA PendAside ==
    ASSUME TypeOK, PendInv, UNCHANGED pending,
           \A pcs \in SUBSET Counted : \A c \in Clients, i \in {-1} \cup Nat :
               RecsAt(c, i, pcs)' = RecsAt(c, i, pcs)
    PROVE  PendInv'
<1>1. \A pcs \in SUBSET Counted : Live(pcs)' = Live(pcs)
  BY DEF Live, Places
<1>2. Tokens(Live(Counted))' = Tokens(Live(Counted)) /\ Tokens(Live(Admitted))' = Tokens(Live(Admitted))
  BY <1>1, PcsAreCounted DEF Tokens
<1>3. QED
  BY <1>2 DEF PendInv

\* What one thread's step changes: the reader's place, or the end of a queue.
LEMMA ReaderPlace ==
    ASSUME NEW c \in Clients, \A d \in Clients : d # c => thr'[d] = thr[d], lo' = lo, hand' = hand
    PROVE  \A pcs \in SUBSET Counted : \A d \in Clients : \A i \in {-1} \cup Nat :
               ~(d = c /\ i = -1) => RecsAt(d, i, pcs)' = RecsAt(d, i, pcs)
  BY DEF RecsAt

LEMMA QueuePlace ==
    ASSUME TypeOK, NEW c \in Clients, NEW it \in Items, lo' = [lo EXCEPT ![c] = Append(lo[c], it)],
           hand' = hand
    PROVE  /\ \A pcs \in SUBSET Counted : \A d \in Clients : \A i \in Nat :
                RecsAt(d, i, pcs)' = IF d = c /\ i = Len(lo[c]) + 1 THEN RecordsOf(it)
                                                                   ELSE RecsAt(d, i, pcs)
           /\ \A pcs \in SUBSET Counted : RecsAt(c, Len(lo[c]) + 1, pcs) = {}
           /\ Len(lo[c]) + 1 \in Nat /\ Len(lo[c]) + 1 # 0
<1>0. /\ \A pcs \in SUBSET Counted : RecsAt(c, Len(lo[c]) + 1, pcs) = {}
      /\ Len(lo[c]) + 1 \in Nat /\ Len(lo[c]) + 1 # 0
  <2>1. Len(lo[c]) \in Nat
    BY RecordsTyped
  <2>2. Len(lo[c]) + 1 # -1 /\ Len(lo[c]) + 1 # 0 /\ ~(Len(lo[c]) + 1 <= Len(lo[c]))
    BY <2>1
  <2>3. QED
    BY <2>1, <2>2 DEF RecsAt
<1> SUFFICES ASSUME NEW pcs \in SUBSET Counted, NEW d \in Clients, NEW i \in Nat
             PROVE  RecsAt(d, i, pcs)' = IF d = c /\ i = Len(lo[c]) + 1 THEN RecordsOf(it)
                                                                       ELSE RecsAt(d, i, pcs)
  BY <1>0
<1>1. lo[c] \in Seq(Items) /\ Len(lo[c]) \in Nat /\ lo'[d] = IF d = c THEN Append(lo[c], it) ELSE lo[d]
  BY RecordsTyped DEF TypeOK
<1>2. Len(Append(lo[c], it)) = Len(lo[c]) + 1
  BY <1>1
<1>3. \A j \in 1..Len(lo[c]) + 1 :
        Append(lo[c], it)[j] = IF j = Len(lo[c]) + 1 THEN it ELSE lo[c][j]
  BY <1>1
<1>4. Len(lo[c]) + 1 # -1 /\ Len(lo[c]) + 1 # 0 /\ ~(Len(lo[c]) + 1 <= Len(lo[c]))
  BY <1>1
<1>5. CASE d # c
  BY <1>1, <1>4, <1>5 DEF RecsAt
<1>6. CASE d = c /\ i = 0
  BY <1>4, <1>6 DEF RecsAt
<1>7. CASE d = c /\ i # 0
  <2>1. i <= Len(lo[c]) => i # Len(lo[c]) + 1 /\ i \in 1..Len(lo[c]) + 1 /\ i <= Len(lo[c]) + 1
    BY <1>1, <1>7
  <2>2. i <= Len(lo[c]) + 1 /\ i # Len(lo[c]) + 1 => i <= Len(lo[c])
    BY <1>1
  <2>3. i # -1
    OBVIOUS
  <2>4. Len(lo[c]) + 1 \in 1..Len(lo[c]) + 1 /\ Len(lo[c]) + 1 <= Len(lo[c]) + 1
    BY <1>1
  <2>5. Len(lo'[c]) = Len(lo[c]) + 1
    BY <1>1, <1>2, <1>7
  <2>6. i <= Len(lo[c]) + 1 =>
           lo'[c][i] = IF i = Len(lo[c]) + 1 THEN it ELSE lo[c][i]
    BY <1>1, <1>3, <1>7, <2>1, <2>2, <2>4
  <2>7. QED
    BY <1>1, <1>4, <1>7, <2>1, <2>2, <2>3, <2>4, <2>5, <2>6 DEF RecsAt
<1>8. QED
  BY <1>1, <1>4, <1>5, <1>6, <1>7

\* An edit, an undo or a cached reply joins a queue: no records with it.
LEMMA PlainAppended ==
    ASSUME TypeOK, PendInv, UNCHANGED <<pending, hand>>, NEW d \in Clients,
           NEW it \in Items, it.kind # "job", lo' = [lo EXCEPT ![d] = Append(lo[d], it)],
           NEW c \in Clients, \A e \in Clients : e # c => thr'[e] = thr[e],
           thr'[c].pc \notin Counted, thr[c].pc \notin Counted
    PROVE  PendInv'
<1> SUFFICES ASSUME NEW pcs \in SUBSET Counted, NEW e \in Clients, NEW i \in {-1} \cup Nat
             PROVE  RecsAt(e, i, pcs)' = RecsAt(e, i, pcs)
  BY PendAside
<1>1. RecordsOf(it) = {}
  BY DEF RecordsOf
<1>2. CASE i = -1
  BY <1>2 DEF RecsAt
<1>3. CASE i \in Nat
  <2>1. /\ RecsAt(e, i, pcs)' = IF e = d /\ i = Len(lo[d]) + 1 THEN RecordsOf(it)
                                                               ELSE RecsAt(e, i, pcs)
        /\ RecsAt(d, Len(lo[d]) + 1, pcs) = {}
    <3>1. hand' = hand
      OBVIOUS
    <3>2. /\ \A ps \in SUBSET Counted : \A g \in Clients : \A j \in Nat :
                RecsAt(g, j, ps)' = IF g = d /\ j = Len(lo[d]) + 1 THEN RecordsOf(it)
                                                                   ELSE RecsAt(g, j, ps)
          /\ \A ps \in SUBSET Counted : RecsAt(d, Len(lo[d]) + 1, ps) = {}
      BY <3>1, QueuePlace
    <3>3. QED
      BY <1>3, <3>2
  <2>2. QED
    BY <1>1, <2>1
<1>4. QED
  BY <1>2, <1>3

\* A reader moves between stages at which its records are not counted.
LEMMA PlainReader ==
    ASSUME TypeOK, PendInv, UNCHANGED <<pending, lo, hand>>, NEW c \in Clients,
           \A d \in Clients : d # c => thr'[d] = thr[d],
           thr'[c].pc \notin Counted, thr[c].pc \notin Counted
    PROVE  PendInv'
<1>1. \A pcs \in SUBSET Counted : RecsAt(c, -1, pcs)' = {} /\ RecsAt(c, -1, pcs) = {}
  BY DEF RecsAt
<1>2. \A pcs \in SUBSET Counted : \A d \in Clients : \A i \in {-1} \cup Nat :
          ~(d = c /\ i = -1) => RecsAt(d, i, pcs)' = RecsAt(d, i, pcs)
  BY ReaderPlace
<1>3. \A pcs \in SUBSET Counted : \A d \in Clients, i \in {-1} \cup Nat :
          RecsAt(d, i, pcs)' = RecsAt(d, i, pcs)
  BY <1>1, <1>2
<1>4. QED
  BY <1>3, PendAside

\* Records go from the place <<c, i>>, for the count and for the guard alike or not.
LEMMA RecordsGone ==
    ASSUME TypeOK, TypeOK', PendInv, NEW c \in Clients, NEW i \in {-1} \cup Nat,
           pending' = pending - Cardinality(RecsAt(c, i, Counted)),
           \A pcs \in SUBSET Counted : RecsAt(c, i, pcs)' = {},
           \A pcs \in SUBSET Counted : \A d \in Clients, j \in {-1} \cup Nat :
               <<d, j>> # <<c, i>> => RecsAt(d, j, pcs)' = RecsAt(d, j, pcs)
    PROVE  PendInv'
<1>1. ASSUME NEW pcs \in SUBSET Counted, IsFiniteSet(Tokens(Live(pcs)))
      PROVE  /\ IsFiniteSet(Tokens(Live(pcs)')) /\ Cardinality(Tokens(Live(pcs)')) \in Nat
             /\ Cardinality(Tokens(Live(pcs)')) =
                  Cardinality(Tokens(Live(pcs))) - Cardinality(RecsAt(c, i, pcs))
  <2> DEFINE f == Live(pcs)
             g == Live(pcs)'
  <2>1. /\ f \in Placing /\ <<c, i>> \in Places
        /\ \A d \in Clients : \A j \in {-1} \cup Nat : f[<<d, j>>] = RecsAt(d, j, pcs)
    BY LivePlaces
  <2>2. /\ g \in Placing
        /\ \A d \in Clients : \A j \in {-1} \cup Nat : g[<<d, j>>] = RecsAt(d, j, pcs)'
    BY LiveKeepsShape DEF LiveShape
  <2>3. g[<<c, i>>] = {} /\ \A y \in Places : y # <<c, i>> => g[y] = f[y]
    BY <2>1, <2>2 DEF Places
  <2> HIDE DEF f, g
  <2>4. /\ IsFiniteSet(Tokens(g)) /\ Cardinality(Tokens(g)) \in Nat
        /\ Cardinality(Tokens(g)) = Cardinality(Tokens(f)) - Cardinality(f[<<c, i>>])
    BY <1>1, <2>1, <2>2, <2>3, TokensGo DEF f
  <2>5. QED
    BY <2>1, <2>4 DEF f, g
<1>2. IsFiniteSet(Tokens(Live(Counted))) /\ IsFiniteSet(Tokens(Live(Admitted)))
  BY FewerTokens, PcsAreCounted DEF PendInv
<1>3. /\ Cardinality(RecsAt(c, i, Admitted)) \in Nat
      /\ Cardinality(Tokens(Live(Admitted))) \in Nat
  BY <1>2, FS_CardinalityType, RecordsFinite, LivePlaces, PcsAreCounted DEF Placing
<1>4. /\ IsFiniteSet(Tokens(Live(Counted)')) /\ pending' = Cardinality(Tokens(Live(Counted)'))
  BY <1>1, <1>2, PcsAreCounted DEF PendInv
<1>5. Cardinality(Tokens(Live(Admitted)')) <= Cardinality(Tokens(Live(Admitted)))
  BY <1>1, <1>2, <1>3, PcsAreCounted
<1>6. Cardinality(Tokens(Live(Admitted)')) \in Nat /\ PendingMax \in Nat
  BY <1>1, <1>2, PcsAreCounted, BoundAssumption
<1>7. QED
  BY <1>3, <1>4, <1>5, <1>6 DEF PendInv, Tokens

LEMMA AdmittedCounted ==
    TypeOK /\ IsFiniteSet(Tokens(Live(Counted))) =>
        /\ Cardinality(Tokens(Live(Admitted))) <= Cardinality(Tokens(Live(Counted)))
        /\ Cardinality(Tokens(Live(Admitted))) \in Nat /\ Cardinality(Tokens(Live(Counted))) \in Nat
  BY FewerTokens, PcsAreCounted

LEMMA FewerAdmitted ==
    (TypeOK /\ IsFiniteSet(Tokens(Live(Counted))) =>
        /\ Cardinality(Tokens(Live(Admitted))) <= Cardinality(Tokens(Live(Counted)))
        /\ Cardinality(Tokens(Live(Admitted))) \in Nat /\ Cardinality(Tokens(Live(Counted))) \in Nat)'
  BY AdmittedCounted, PTL

LEMMA CountKept ==
    ASSUME TypeOK, TypeOK', PendInv, NEW c \in Clients, CountPending(c)
    PROVE  PendInv'
<1> DEFINE R == thr[c].reply.recs
<1>1. thr[c] \in [pc : {"scanned"}, reply : Replies]
  BY DEF CountPending, TypeOK, ThreadStates, Idle, ReplyPcs
<1>2. /\ thr'[c].pc = "counted" /\ thr'[c].reply.recs = R /\ R \in SUBSET Records
      /\ \A d \in Clients : d # c => thr'[d] = thr[d]
  BY <1>1 DEF Replies, CountPending, TypeOK
<1>3. UNCHANGED <<lo, hand>> /\ pending' = pending + Cardinality(R)
  BY DEF CountPending
<1>4. thr[c].pc = "scanned"
  BY DEF CountPending
<1> HIDE DEF R
<1>5. \A pcs \in SUBSET Counted : \A d \in Clients : \A i \in {-1} \cup Nat :
        ~(d = c /\ i = -1) => RecsAt(d, i, pcs)' = RecsAt(d, i, pcs)
  BY <1>2, <1>3, ReaderPlace
<1>6. \A pcs \in SUBSET Counted : RecsAt(c, -1, pcs) = {}
  BY <1>4 DEF RecsAt, Counted
<1>7. Tokens(Live(Admitted))' = Tokens(Live(Admitted))
  <2>0. RecsAt(c, -1, Admitted)' = {}
    BY <1>2 DEF Admitted, RecsAt
  <2>1. \A d \in Clients, i \in {-1} \cup Nat : RecsAt(d, i, Admitted)' = RecsAt(d, i, Admitted)
    BY <1>5, <1>6, <2>0, PcsAreCounted
  <2>2. Live(Admitted)' = Live(Admitted)
    BY <2>1 DEF Live, Places
  <2>3. QED
    BY <2>2 DEF Tokens
<1>8. /\ IsFiniteSet(Tokens(Live(Counted)'))
      /\ Cardinality(Tokens(Live(Counted)')) = Cardinality(Tokens(Live(Counted))) + Cardinality(R)
  <2> DEFINE f == Live(Counted)
             g == Live(Counted)'
  <2>1. /\ f \in Placing /\ <<c, -1>> \in Places
        /\ \A d \in Clients : \A j \in {-1} \cup Nat : f[<<d, j>>] = RecsAt(d, j, Counted)
    BY LivePlaces, PcsAreCounted
  <2>2. /\ g \in Placing
        /\ \A d \in Clients : \A j \in {-1} \cup Nat : g[<<d, j>>] = RecsAt(d, j, Counted)'
    BY LiveKeepsShape, PcsAreCounted DEF LiveShape
  <2>3. RecsAt(c, -1, Counted)' = R
    BY <1>2 DEF Counted, RecsAt
  <2>4. /\ f[<<c, -1>>] = {} /\ g[<<c, -1>>] = R
        /\ \A y \in Places : y # <<c, -1>> => g[y] = f[y]
    BY <1>5, <1>6, <2>1, <2>2, <2>3, PcsAreCounted DEF Places
  <2>5. IsFiniteSet(Tokens(f))
    BY DEF PendInv
  <2> HIDE DEF f, g
  <2>6. QED
    <3>1. /\ IsFiniteSet(Tokens(g))
          /\ Cardinality(Tokens(g)) = Cardinality(Tokens(f)) + Cardinality(g[<<c, -1>>])
      BY <2>1, <2>2, <2>4, <2>5, TokensAppear
    <3>2. QED
      BY <2>4, <3>1 DEF f, g
<1>9. QED
  BY <1>3, <1>7, <1>8 DEF PendInv, Tokens

LEMMA GuardKept ==
    ASSUME TypeOK, TypeOK', PendInv, NEW c \in Clients, GlobalGuard(c)
    PROVE  PendInv'
<1>1. thr[c] \in [pc : {"counted"}, reply : Replies]
  BY DEF GlobalGuard, TypeOK, ThreadStates, Idle, ReplyPcs
<1>2. thr[c].pc = "counted" /\ UNCHANGED <<lo, hand>>
  BY DEF GlobalGuard
<1>3. RecsAt(c, -1, Counted) = thr[c].reply.recs /\ RecsAt(c, -1, Admitted) = {}
  BY <1>2 DEF RecsAt, Counted, Admitted
<1>4. CASE overGlobal(c)
  <2>1. /\ pending' = pending - Cardinality(RecsAt(c, -1, Counted))
        /\ thr' = [thr EXCEPT ![c] = Idle]
    BY <1>3, <1>4 DEF GlobalGuard
  <2>2. thr'[c].pc \notin Counted /\ \A d \in Clients : d # c => thr'[d] = thr[d]
    BY <2>1 DEF Idle, Counted, TypeOK
  <2>3. /\ \A pcs \in SUBSET Counted : \A d \in Clients : \A i \in {-1} \cup Nat :
             ~(d = c /\ i = -1) => RecsAt(d, i, pcs)' = RecsAt(d, i, pcs)
        /\ \A pcs \in SUBSET Counted : RecsAt(c, -1, pcs)' = {}
    <3>1. \A pcs \in SUBSET Counted : RecsAt(c, -1, pcs)' = {}
      BY <2>2 DEF RecsAt
    <3>2. QED
      BY <1>2, <2>2, <3>1, ReaderPlace
  <2>4. /\ \A pcs \in SUBSET Counted : RecsAt(c, -1, pcs)' = {}
        /\ \A pcs \in SUBSET Counted : \A d \in Clients, j \in {-1} \cup Nat :
             <<d, j>> # <<c, -1>> => RecsAt(d, j, pcs)' = RecsAt(d, j, pcs)
    BY <2>3
  <2>5. QED
    BY <2>1, <2>4, RecordsGone
<1>5. CASE ~overGlobal(c)
  <2>1. /\ thr'[c].pc = "admitted" /\ thr'[c].reply.recs = thr[c].reply.recs
        /\ \A d \in Clients : d # c => thr'[d] = thr[d]
    <3>1. thr' = [thr EXCEPT ![c].pc = "admitted"] /\ thr \in [Clients -> ThreadStates]
      BY <1>5 DEF GlobalGuard, TypeOK
    <3>2. QED
      BY <1>1, <3>1
  <2>2. pending' = pending
    BY <1>5 DEF GlobalGuard
  <2>3. \A d \in Clients : \A i \in {-1} \cup Nat :
          ~(d = c /\ i = -1) => RecsAt(d, i, Counted)' = RecsAt(d, i, Counted)
    BY <1>2, <2>1, ReaderPlace, PcsAreCounted
  <2>4. \A d \in Clients, i \in {-1} \cup Nat : RecsAt(d, i, Counted)' = RecsAt(d, i, Counted)
    <3>1. RecsAt(c, -1, Counted)' = RecsAt(c, -1, Counted)
      BY <1>2, <2>1 DEF Counted, RecsAt
    <3>2. QED
      BY <2>3, <3>1
  <2>5. Live(Counted)' = Live(Counted)
    BY <2>4 DEF Live, Places
  <2>6. IsFiniteSet(Tokens(Live(Counted)')) /\ pending' = Cardinality(Tokens(Live(Counted)'))
    BY <2>2, <2>5 DEF PendInv
  <2>7. PendingMax > 0 => pending' <= PendingMax
    BY <1>5, <2>2, BoundAssumption DEF overGlobal, TypeOK
  <2>8. /\ Cardinality(Tokens(Live(Admitted)')) <= Cardinality(Tokens(Live(Counted)'))
        /\ Cardinality(Tokens(Live(Admitted)')) \in Nat /\ Cardinality(Tokens(Live(Counted)')) \in Nat
    BY <2>6, FewerAdmitted DEF Tokens
  <2>9. QED
    BY <2>6, <2>7, <2>8, BoundAssumption DEF PendInv, Tokens
<1>6. QED
  BY <1>4, <1>5

\* A reply moves from the place <<c, i>> to <<c, j>>, for the count and for the guard alike.
LEMMA RecordsMoved ==
    ASSUME TypeOK, TypeOK', PendInv, NEW c \in Clients, NEW i \in {-1} \cup Nat,
           NEW j \in {-1} \cup Nat, i # j, pending' = pending,
           \A pcs \in {Counted, Admitted} :
               /\ RecsAt(c, j, pcs) = {} /\ RecsAt(c, i, pcs)' = {}
               /\ RecsAt(c, j, pcs)' = RecsAt(c, i, pcs),
           \A pcs \in SUBSET Counted : \A d \in Clients : \A k \in {-1} \cup Nat :
               <<d, k>> # <<c, i>> /\ <<d, k>> # <<c, j>> => RecsAt(d, k, pcs)' = RecsAt(d, k, pcs)
    PROVE  PendInv'
<1>1. ASSUME NEW pcs \in {Counted, Admitted}, IsFiniteSet(Tokens(Live(pcs)))
      PROVE  /\ IsFiniteSet(Tokens(Live(pcs)'))
             /\ Cardinality(Tokens(Live(pcs)')) = Cardinality(Tokens(Live(pcs)))
  <2> DEFINE f == Live(pcs)
             g == Live(pcs)'
             x == <<c, i>>
             y == <<c, j>>
  <2>0. pcs \in SUBSET Counted
    BY PcsAreCounted
  <2>1. /\ f \in Placing /\ x \in Places /\ y \in Places
        /\ \A d \in Clients : \A k \in {-1} \cup Nat : f[<<d, k>>] = RecsAt(d, k, pcs)
    BY <2>0, LivePlaces
  <2>2. /\ g \in Placing
        /\ \A d \in Clients : \A k \in {-1} \cup Nat : g[<<d, k>>] = RecsAt(d, k, pcs)'
    BY <2>0, LiveKeepsShape DEF LiveShape
  <2>3. f[y] = {} /\ g[x] = {} /\ g[y] = f[x] /\ x # y
    BY <2>1, <2>2
  <2>4. \A z \in Places : z # x /\ z # y => g[z] = f[z]
    BY <2>0, <2>1, <2>2 DEF Places
  <2>5. IsFiniteSet(Tokens(f))
    BY <1>1
  <2> HIDE DEF f, g, x, y
  <2>6. IsFiniteSet(Tokens(g)) /\ Cardinality(Tokens(g)) = Cardinality(Tokens(f))
    BY <2>1, <2>2, <2>3, <2>4, <2>5, TokensMove
  <2>7. QED
    BY <2>6 DEF f, g
<1>2. IsFiniteSet(Tokens(Live(Counted))) /\ IsFiniteSet(Tokens(Live(Admitted)))
  BY FewerTokens, PcsAreCounted DEF PendInv
<1>3. QED
  BY <1>1, <1>2 DEF PendInv, Tokens

LEMMA PushKept ==
    ASSUME TypeOK, TypeOK', PendInv, NEW c \in Clients, PushRegion(c)
    PROVE  PendInv'
<1> DEFINE r == thr[c].reply
           dropped == region_jobs(lo[c]) >= MaxRegionJobs \/ (r.recs = {} /\ ~EmptyFrame)
<1>1. thr[c] \in [pc : {"admitted"}, reply : Replies] /\ thr[c].pc = "admitted"
  BY DEF PushRegion, TypeOK, ThreadStates, Idle, ReplyPcs
<1>2. thr' = [thr EXCEPT ![c] = Idle] /\ hand' = hand /\ thr \in [Clients -> ThreadStates]
  BY DEF PushRegion, TypeOK
<1>3. thr'[c].pc \notin Counted /\ \A d \in Clients : d # c => thr'[d] = thr[d]
  BY <1>2 DEF Idle, Counted
<1>4. \A pcs \in SUBSET Counted : RecsAt(c, -1, pcs)' = {}
  BY <1>3 DEF RecsAt
<1>5. \A pcs \in {Counted, Admitted} : RecsAt(c, -1, pcs) = r.recs
  BY <1>1 DEF RecsAt, Counted, Admitted
<1>6. CASE dropped
  <2>1. lo' = lo /\ pending' = pending - Cardinality(RecsAt(c, -1, Counted))
    BY <1>5, <1>6 DEF PushRegion
  <2>2. \A pcs \in SUBSET Counted : \A d \in Clients : \A i \in {-1} \cup Nat :
          ~(d = c /\ i = -1) => RecsAt(d, i, pcs)' = RecsAt(d, i, pcs)
    BY <1>2, <1>3, <2>1, ReaderPlace
  <2>3. QED
    BY <1>4, <2>1, <2>2, RecordsGone
<1>7. CASE ~dropped
  <2> DEFINE it == ReplyItem("job", r)
  <2>0. PICK j \in Nat : j = Len(lo[c]) + 1
    BY RecordsTyped
  <2>1. it \in Items /\ RecordsOf(it) = r.recs
    BY <1>1 DEF ReplyItem, Items, RecordsOf
  <2>2. lo' = [lo EXCEPT ![c] = Append(lo[c], it)] /\ pending' = pending
    BY <1>7 DEF PushRegion
  <2> HIDE DEF it, r, dropped
  <2>3. /\ \A pcs \in SUBSET Counted : \A d \in Clients : \A i \in Nat :
              RecsAt(d, i, pcs)' = IF d = c /\ i = j THEN RecordsOf(it) ELSE RecsAt(d, i, pcs)
        /\ \A pcs \in SUBSET Counted : RecsAt(c, j, pcs) = {}
        /\ j \in Nat /\ j # 0
    <3>1. /\ \A pcs \in SUBSET Counted : \A d \in Clients : \A i \in Nat :
                RecsAt(d, i, pcs)' = IF d = c /\ i = Len(lo[c]) + 1 THEN RecordsOf(it)
                                                                   ELSE RecsAt(d, i, pcs)
          /\ \A pcs \in SUBSET Counted : RecsAt(c, Len(lo[c]) + 1, pcs) = {}
          /\ Len(lo[c]) + 1 # 0
      BY <1>2, <2>1, <2>2, QueuePlace
    <3>2. QED
      BY <2>0, <3>1
  <2>4. \A pcs \in SUBSET Counted : \A d \in Clients : d # c => RecsAt(d, -1, pcs)' = RecsAt(d, -1, pcs)
    BY <1>3 DEF RecsAt
  <2>5. \A pcs \in {Counted, Admitted} :
            /\ RecsAt(c, j, pcs) = {} /\ RecsAt(c, -1, pcs)' = {}
            /\ RecsAt(c, j, pcs)' = RecsAt(c, -1, pcs)
    BY <1>4, <1>5, <2>1, <2>3, PcsAreCounted
  <2>6. \A pcs \in SUBSET Counted : \A d \in Clients : \A k \in {-1} \cup Nat :
            <<d, k>> # <<c, -1>> /\ <<d, k>> # <<c, j>> => RecsAt(d, k, pcs)' = RecsAt(d, k, pcs)
    BY <2>3, <2>4
  <2>7. j \in {-1} \cup Nat /\ -1 # j
    BY <2>3
  <2>8. QED
    BY <2>2, <2>5, <2>6, <2>7, RecordsMoved
<1>8. QED
  BY <1>6, <1>7

LEMMA TakeKept ==
    ASSUME TypeOK, TypeOK', PendInv, NEW c \in Clients, WriterTake(c)
    PROVE  PendInv'
<1>1. /\ hand[c] = Nothing /\ lo[c] # << >> /\ hand \in [Clients -> Items \cup {Nothing}]
      /\ lo[c] \in Seq(Items) /\ lo \in [Clients -> Seq(Items)]
      /\ hand' = [hand EXCEPT ![c] = Head(lo[c])] /\ lo' = [lo EXCEPT ![c] = Tail(lo[c])]
      /\ thr' = thr /\ pending' = pending
  BY DEF WriterTake, TypeOK
<1>2. /\ hand'[c] = lo[c][1] /\ Len(lo'[c]) = Len(lo[c]) - 1 /\ Len(lo[c]) \in Nat /\ 1 <= Len(lo[c])
      /\ \A i \in Nat : i # 0 /\ i <= Len(lo'[c]) => lo'[c][i] = lo[c][i + 1]
  BY <1>1
<1>3. \A d \in Clients : d # c => lo'[d] = lo[d] /\ hand'[d] = hand[d]
  BY <1>1
<1>4. ASSUME NEW pcs \in SUBSET Counted, NEW i \in Nat
      PROVE  RecsAt(c, i, pcs)' = RecsAt(c, i + 1, pcs)
  <2>1. i # -1 /\ i + 1 # -1 /\ i + 1 # 0
    OBVIOUS
  <2>2. CASE i = 0
    BY <1>2, <2>1, <2>2 DEF RecsAt
  <2>3. CASE i # 0
    <3>1. i <= Len(lo'[c]) <=> i + 1 <= Len(lo[c])
      BY <1>2
    <3>2. QED
      BY <1>2, <2>1, <2>3, <3>1 DEF RecsAt
  <2>4. QED
    BY <2>2, <2>3
<1>5. \A pcs \in SUBSET Counted : \A d \in Clients : \A i \in {-1} \cup Nat :
        ~(d = c /\ i # -1) => RecsAt(d, i, pcs)' = RecsAt(d, i, pcs)
  BY <1>1, <1>3 DEF RecsAt
<1>6. \A pcs \in SUBSET Counted : RecsAt(c, 0, pcs) = {}
  BY <1>1 DEF RecsAt, RecordsOf, Nothing
<1>7. ASSUME NEW pcs \in {Counted, Admitted}, IsFiniteSet(Tokens(Live(pcs)))
      PROVE  /\ IsFiniteSet(Tokens(Live(pcs)'))
             /\ Cardinality(Tokens(Live(pcs)')) = Cardinality(Tokens(Live(pcs)))
  <2> DEFINE f == Live(pcs)
             g == Live(pcs)'
  <2>0. pcs \in SUBSET Counted
    BY PcsAreCounted
  <2>1. /\ f \in Placing
        /\ \A d \in Clients : \A k \in {-1} \cup Nat : f[<<d, k>>] = RecsAt(d, k, pcs)
    BY <2>0, LivePlaces
  <2>2. /\ g \in Placing
        /\ \A d \in Clients : \A k \in {-1} \cup Nat : g[<<d, k>>] = RecsAt(d, k, pcs)'
    BY <2>0, LiveKeepsShape DEF LiveShape
  <2>3. f[<<c, 0>>] = {}
    BY <1>6, <2>0, <2>1
  <2>4. \A x \in Places : g[x] = IF x[1] = c /\ x[2] # -1 THEN f[<<c, x[2] + 1>>] ELSE f[x]
    <3> SUFFICES ASSUME NEW d \in Clients, NEW i \in {-1} \cup Nat
                 PROVE  g[<<d, i>>] = IF d = c /\ i # -1 THEN f[<<c, i + 1>>] ELSE f[<<d, i>>]
      BY DEF Places
    <3>1. i # -1 => i \in Nat /\ i + 1 \in Nat
      OBVIOUS
    <3>2. QED
      BY <1>4, <1>5, <2>0, <2>1, <2>2, <3>1
  <2>5. IsFiniteSet(Tokens(f))
    BY <1>7
  <2> HIDE DEF f, g
  <2>6. IsFiniteSet(Tokens(g)) /\ Cardinality(Tokens(g)) = Cardinality(Tokens(f))
    BY <2>1, <2>2, <2>3, <2>4, <2>5, TokensShift
  <2>7. QED
    BY <2>6 DEF f, g
<1>8. IsFiniteSet(Tokens(Live(Counted))) /\ IsFiniteSet(Tokens(Live(Admitted)))
  BY FewerTokens, PcsAreCounted DEF PendInv
<1>9. QED
  BY <1>1, <1>7, <1>8 DEF PendInv, Tokens

\* The writer's hand empties.
LEMMA SentKept ==
    ASSUME TypeOK, TypeOK', PendInv, NEW c \in Clients,
           hand' = [hand EXCEPT ![c] = Nothing], thr' = thr, lo' = lo,
           pending' = pending - Cardinality(RecordsOf(hand[c]))
    PROVE  PendInv'
<1>1. \A d \in Clients : hand'[d] = IF d = c THEN Nothing ELSE hand[d]
  BY DEF TypeOK
<1>2. RecordsOf(Nothing) = {}
  BY DEF RecordsOf, Nothing
<1>3. /\ \A pcs \in SUBSET Counted : RecsAt(c, 0, pcs)' = {}
      /\ \A pcs \in SUBSET Counted : \A d \in Clients, i \in {-1} \cup Nat :
           <<d, i>> # <<c, 0>> => RecsAt(d, i, pcs)' = RecsAt(d, i, pcs)
      /\ RecsAt(c, 0, Counted) = RecordsOf(hand[c])
  BY <1>1, <1>2 DEF RecsAt
<1>4. 0 \in {-1} \cup Nat
  OBVIOUS
<1>5. QED
  BY <1>3, <1>4, RecordsGone

LEMMA PendStep == TypeOK /\ TypeOK' /\ PendInv /\ [Next]_vars => PendInv'
<1> SUFFICES ASSUME TypeOK, TypeOK', PendInv, [Next]_vars PROVE PendInv'
  OBVIOUS
<1>1. CASE UNCHANGED vars
  BY <1>1, PendAside DEF vars, RecsAt
<1>2. ASSUME NEW c \in Clients, NEW p \in Cells, Edit(c, p) PROVE PendInv'
  <2>1. /\ UNCHANGED <<pending, lo, hand>> /\ \A d \in Clients : d # c => thr'[d] = thr[d]
        /\ thr'[c].pc = "relay" /\ thr[c].pc = "idle"
    BY <1>2 DEF Edit, Idle, TypeOK
  <2>2. QED
    BY <2>1, PlainReader DEF Counted
<1>3. ASSUME NEW c \in Clients, NEW p \in Cells, EditRefused(c, p) PROVE PendInv'
  <2>1. UndoItem(p) \in Items /\ UndoItem(p).kind # "job"
    BY DEF UndoItem, Items
  <2>2. /\ UNCHANGED <<pending, hand, thr>> /\ thr[c].pc = "idle"
        /\ lo' = [lo EXCEPT ![c] = Append(lo[c], UndoItem(p))]
    BY <1>3 DEF EditRefused, Idle
  <2>3. QED
    BY <2>1, <2>2, PlainAppended DEF Counted
<1>4. ASSUME NEW c \in Clients, NEW d \in Clients, RelayTo(c, d) PROVE PendInv'
  <2>1. thr[c] \in [pc : {"relay"}, item : EditItems, todo : SUBSET Clients]
    BY <1>4 DEF RelayTo, TypeOK, ThreadStates, Idle, ReplyPcs
  <2>2. thr[c].item \in Items /\ thr[c].item.kind # "job"
    BY <2>1 DEF Items, EditItems
  <2>3. /\ UNCHANGED <<pending, hand>> /\ \A e \in Clients : e # c => thr'[e] = thr[e]
        /\ lo' = [lo EXCEPT ![d] = Append(lo[d], thr[c].item)]
    BY <1>4 DEF RelayTo, TypeOK
  <2>4. thr[c].pc = "relay" /\ thr'[c].pc = "relay"
    <3>1. thr' = [thr EXCEPT ![c] = [thr[c] EXCEPT !.todo = @ \ {d}]] /\ thr \in [Clients -> ThreadStates]
      BY <1>4 DEF RelayTo, TypeOK
    <3>2. QED
      BY <2>1, <3>1
  <2>5. QED
    BY <2>2, <2>3, <2>4, PlainAppended DEF Counted
<1>5. ASSUME NEW c \in Clients, RelayDone(c) \/ BudgetRefuse(c) PROVE PendInv'
  <2>1. /\ UNCHANGED <<pending, lo, hand>> /\ \A d \in Clients : d # c => thr'[d] = thr[d]
        /\ thr'[c].pc = "idle" /\ thr[c].pc \in {"relay", "scanned", "hit"}
    BY <1>5 DEF RelayDone, BudgetRefuse, Idle, TypeOK
  <2>2. QED
    BY <2>1, PlainReader DEF Counted
<1>6. ASSUME NEW c \in Clients, NEW pt \in Points, RegionScan(c, pt) PROVE PendInv'
  <2>1. /\ UNCHANGED <<pending, lo, hand>> /\ \A d \in Clients : d # c => thr'[d] = thr[d]
        /\ thr'[c].pc \in {"hit", "scanned"} /\ thr[c].pc = "idle"
    BY <1>6 DEF RegionScan, Idle, TypeOK
  <2>2. QED
    BY <2>1, PlainReader DEF Counted
<1>7. ASSUME NEW c \in Clients, PushCached(c) PROVE PendInv'
  <2>1. /\ UNCHANGED <<pending, hand>> /\ \A d \in Clients : d # c => thr'[d] = thr[d]
        /\ thr'[c].pc \notin Counted /\ thr[c].pc \notin Counted
    BY <1>7 DEF PushCached, Idle, TypeOK, Counted
  <2>2. thr[c] \in [pc : {"hit"}, reply : Replies]
    BY <1>7 DEF PushCached, TypeOK, ThreadStates, Idle, ReplyPcs
  <2>3. ReplyItem("cached", thr[c].reply) \in Items /\ ReplyItem("cached", thr[c].reply).kind # "job"
    BY <2>2 DEF ReplyItem, Items
  <2>4. CASE region_jobs(lo[c]) >= MaxRegionJobs
    BY <1>7, <2>1, <2>4, PlainReader DEF PushCached
  <2>5. CASE ~(region_jobs(lo[c]) >= MaxRegionJobs)
    <3>1. lo' = [lo EXCEPT ![c] = Append(lo[c], ReplyItem("cached", thr[c].reply))]
      BY <1>7, <2>5 DEF PushCached
    <3>2. QED
      BY <2>1, <2>3, <3>1, PlainAppended
  <2>6. QED
    BY <2>4, <2>5
<1>8. ASSUME NEW c \in Clients, WriterSend(c) PROVE PendInv'
  <2>1. RecordsOf(hand[c]) = {} /\ pending \in Int
    BY <1>8 DEF WriterSend, RecordsOf, TypeOK
  <2>2. pending' = pending - Cardinality(RecordsOf(hand[c]))
    BY <1>8, <2>1, FS_EmptySet DEF WriterSend
  <2>3. QED
    BY <1>8, <2>2, SentKept DEF WriterSend
<1>9. ASSUME NEW c \in Clients, WriterFile(c) \/ WriterAbandon(c) PROVE PendInv'
  BY <1>9, SentKept DEF WriterFile, WriterAbandon, RecordsOf
<1>10. QED
  BY <1>1, <1>2, <1>3, <1>4, <1>5, <1>6, <1>7, <1>8, <1>9, CountKept, GuardKept, PushKept,
     TakeKept DEF Next

\* makePendingRecs: the record counter is the records alive, whatever way replies end and
\* whichever threads are between which steps.
THEOREM PendingIsExact == Spec => []PendingExact
<1>1. TypeOK /\ PendInv => PendingExact
  BY LiveTokens, PcsAreCounted DEF PendInv, PendingExact, Counted
<1>2. QED
  BY <1>1, TypeInit, TypeStep, PendInit, PendStep, PTL DEF Spec

\* The memory guard of serveRegion, read by several readers with no lock between the count
\* and the push, bounds the records queued and being sent.
THEOREM BacklogIsBounded == Spec => []BacklogBounded
<1>1. TypeOK /\ PendInv => BacklogBounded
  <2> SUFFICES ASSUME TypeOK, PendInv, PendingMax > 0 PROVE Cardinality(QueuedRecs) <= PendingMax
    BY DEF BacklogBounded
  <2>1. QueuedRecs = Tokens(Live({}))
    <3>1. HeldRecs({}) = {}
      BY DEF HeldRecs
    <3>2. QED
      BY <3>1, LiveTokens, PcsAreCounted
  <2>2. /\ Cardinality(Tokens(Live({}))) \in Nat /\ Cardinality(Tokens(Live(Admitted))) \in Nat
        /\ Cardinality(Tokens(Live({}))) <= Cardinality(Tokens(Live(Admitted)))
    <3>1. {} \in SUBSET Admitted
      OBVIOUS
    <3>2. QED
      BY <3>1, FewerTokens, PcsAreCounted DEF PendInv
  <2>3. Cardinality(Tokens(Live(Admitted))) <= PendingMax
    BY DEF PendInv
  <2>4. QED
    BY <2>1, <2>2, <2>3, BoundAssumption
<1>2. QED
  BY <1>1, TypeInit, TypeStep, PendInit, PendStep, PTL DEF Spec

-----------------------------------------------------------------------------
\* Every set of numbers has a least one: strict inclusion of intervals is well founded.
LEMMA Least ==
    ASSUME NEW S \in SUBSET Nat, S # {}
    PROVE  \E k \in S : \A j \in S : k <= j
<1> DEFINE R == StrictSubsetOrdering(Nat)
           T == {1..k : k \in S}
<1>1. IsWellFoundedOn(R, FiniteSubsetsOf(Nat))
  BY FS_StrictSubsetOrderingWellFounded
<1>2. \A k \in S : 1..k \in FiniteSubsetsOf(Nat)
  BY FS_Interval DEF FiniteSubsetsOf
<1>3. T \subseteq FiniteSubsetsOf(Nat) /\ T # {}
  BY <1>2
<1> HIDE DEF R
<1>4. PICK x \in T : \A y \in T : ~(<<y, x>> \in R)
  BY <1>1, <1>3, WFMin
<1>5. PICK k \in S : x = 1..k
  OBVIOUS
<1>6. ASSUME NEW j \in S, j < k PROVE FALSE
  <2>1. 1..j \subseteq 1..k /\ 1..j # 1..k
    <3>1. j \in Nat /\ k \in Nat
      OBVIOUS
    <3>2. k \in 1..k /\ k \notin 1..j
      BY <1>6, <3>1
    <3> QED
      BY <1>6, <3>1, <3>2
  <2>2. 1..j \in SUBSET Nat /\ 1..k \in SUBSET Nat
    OBVIOUS
  <2>3. \A U, V \in SUBSET Nat : U \subseteq V /\ U # V => <<U, V>> \in R
    BY DEF R, StrictSubsetOrdering
  <2>4. <<1..j, 1..k>> \in R
    BY <2>1, <2>2, <2>3
  <2>5. 1..j \in T
    OBVIOUS
  <2> HIDE DEF T
  <2> QED
    BY <1>4, <1>5, <2>4, <2>5
<1> QED
  BY <1>6

(***************************************************************************)
(* The cache's bookkeeping.  What every operation keeps, for any cache:    *)
(* each entry is once in the LRU list, and the byte count is the bytes of  *)
(* the entries, named one by one.                                          *)
(***************************************************************************)
Keys(s) == {s[i] : i \in DOMAIN s}
Once(s) == \A i, j \in DOMAIN s : s[i] = s[j] => i = j

Kept(ca) ==
    /\ ca.order \in Seq(Boxes) /\ Once(ca.order)
    /\ Keys(ca.order) = DOMAIN ca.map
    /\ ca.bytes = CacheSlots(ca, DOMAIN ca.map)
    /\ \A k \in DOMAIN ca.map : ca.map[k].bytes \in Nat /\ ca.map[k].bytes <= max_entry_bytes

\* The list without one of its keys.
LEMMA OthersRest ==
    ASSUME NEW S, NEW s \in Seq(S), Once(s), NEW k \in Keys(s)
    PROVE  /\ Others(s, k) \in Seq(S) /\ Once(Others(s, k))
           /\ Keys(Others(s, k)) = Keys(s) \ {k}
<1> DEFINE i == CHOOSE j \in DOMAIN s : s[j] = k
           t == Others(s, k)
<1>1. i \in DOMAIN s /\ s[i] = k
  BY DEF Keys
<1>2. t = SubSeq(s, 1, i - 1) \o SubSeq(s, i + 1, Len(s))
  BY DEF Others
<1> HIDE DEF i, t
<1>3. DOMAIN s = 1..Len(s) /\ Len(s) \in Nat /\ i \in 1..Len(s)
  BY <1>1
<1>4. /\ SubSeq(s, 1, i - 1) \in Seq(S) /\ Len(SubSeq(s, 1, i - 1)) = i - 1
      /\ \A j \in 1..i - 1 : SubSeq(s, 1, i - 1)[j] = s[j]
  BY <1>3
<1>5. /\ SubSeq(s, i + 1, Len(s)) \in Seq(S) /\ Len(SubSeq(s, i + 1, Len(s))) = Len(s) - i
      /\ \A j \in 1..Len(s) - i : SubSeq(s, i + 1, Len(s))[j] = s[j + i]
  <2>1. \A m \in 1..Len(s) :
          /\ SubSeq(s, m + 1, Len(s)) \in Seq(S) /\ Len(SubSeq(s, m + 1, Len(s))) = Len(s) - m
          /\ \A j \in 1..Len(s) - m : SubSeq(s, m + 1, Len(s))[j] = s[j + m]
    BY SMTT(30)
  <2>2. QED
    BY <1>3, <2>1
<1>6. /\ t \in Seq(S) /\ Len(t) = Len(s) - 1
      /\ \A j \in 1..Len(s) - 1 : t[j] = IF j < i THEN s[j] ELSE s[j + 1]
  <2> DEFINE u == SubSeq(s, 1, i - 1)
             v == SubSeq(s, i + 1, Len(s))
  <2>1. /\ u \in Seq(S) /\ v \in Seq(S) /\ Len(u) = i - 1 /\ Len(v) = Len(s) - i /\ t = u \o v
        /\ \A j \in 1..i - 1 : u[j] = s[j]
        /\ \A j \in 1..Len(s) - i : v[j] = s[j + i]
    BY <1>2, <1>4, <1>5
  <2> HIDE DEF u, v
  <2>2. t \in Seq(S) /\ Len(t) = Len(s) - 1
    <3>1. Len(u) + Len(v) = Len(s) - 1
      BY <1>3, <2>1
    <3>2. u \o v \in Seq(S) /\ Len(u \o v) = Len(u) + Len(v)
      <4>1. u \in Seq(S) /\ v \in Seq(S)
        BY <2>1
      <4>2. QED
        BY <4>1, ConcatProperties
    <3>3. QED
      BY <2>1, <3>1, <3>2
  <2>3. ASSUME NEW j \in 1..Len(s) - 1 PROVE t[j] = IF j < i THEN s[j] ELSE s[j + 1]
    <3>1. CASE j < i
      <4>1. j \in 1..i - 1 /\ j <= Len(u)
        BY <1>3, <2>1, <3>1
      <4>2. QED
        BY <2>1, <3>1, <4>1
    <3>2. CASE ~(j < i)
      <4>1. j - Len(u) \in 1..Len(s) - i /\ ~(j <= Len(u)) /\ (j - Len(u)) + i = j + 1
        BY <1>3, <2>1, <3>2
      <4>2. t[j] = v[j - Len(u)]
        BY <1>3, <2>1, <4>1
      <4>3. v[j - Len(u)] = s[(j - Len(u)) + i]
        BY <2>1, <4>1
      <4>4. QED
        BY <3>2, <4>1, <4>2, <4>3
    <3>3. QED
      BY <3>1, <3>2
  <2>4. QED
    BY <2>2, <2>3
<1>7. DOMAIN t = 1..Len(s) - 1
  BY <1>6
<1>8. Once(t)
  <2> SUFFICES ASSUME NEW a \in DOMAIN t, NEW b \in DOMAIN t, t[a] = t[b] PROVE a = b
    BY DEF Once
  <2> DEFINE at(j) == IF j < i THEN j ELSE j + 1
  <2>1. at(a) \in DOMAIN s /\ at(b) \in DOMAIN s /\ s[at(a)] = s[at(b)]
    BY <1>3, <1>6, <1>7
  <2>2. at(a) = at(b)
    BY <2>1 DEF Once
  <2>3. QED
    BY <1>3, <1>7, <2>2
<1>9. Keys(t) = Keys(s) \ {k}
  <2>1. ASSUME NEW a \in DOMAIN t PROVE t[a] \in Keys(s) /\ t[a] # k
    <3>1. CASE a < i
      <4>1. t[a] = s[a] /\ a \in DOMAIN s /\ a # i
        BY <1>3, <1>6, <1>7, <3>1
      <4>2. QED
        BY <1>1, <4>1 DEF Keys, Once
    <3>2. CASE ~(a < i)
      <4>1. t[a] = s[a + 1] /\ a + 1 \in DOMAIN s /\ a + 1 # i
        BY <1>3, <1>6, <1>7, <3>2
      <4>2. QED
        BY <1>1, <4>1 DEF Keys, Once
    <3>3. QED
      BY <3>1, <3>2
  <2>2. ASSUME NEW a \in DOMAIN s, s[a] # k PROVE s[a] \in Keys(t)
    <3>1. CASE a < i
      <4>1. a \in DOMAIN t /\ t[a] = s[a]
        BY <1>3, <1>6, <1>7, <3>1
      <4>2. QED
        BY <4>1 DEF Keys
    <3>2. CASE ~(a < i)
      <4>1. a - 1 \in DOMAIN t /\ ~(a - 1 < i) /\ (a - 1) + 1 = a
        BY <1>1, <1>3, <1>7, <2>2, <3>2
      <4>2. t[a - 1] = s[a]
        BY <1>6, <1>7, <4>1
      <4>3. QED
        BY <4>1, <4>2 DEF Keys
    <3>3. QED
      BY <3>1, <3>2
  <2>3. QED
    BY <2>1, <2>2 DEF Keys
<1>10. QED
  BY <1>6, <1>8, <1>9 DEF t

\* The list with a new key in front.
LEMMA FrontAdds ==
    ASSUME NEW S, NEW s \in Seq(S), Once(s), NEW k \in S, k \notin Keys(s)
    PROVE  /\ <<k>> \o s \in Seq(S) /\ Once(<<k>> \o s)
           /\ Keys(<<k>> \o s) = Keys(s) \cup {k}
<1> DEFINE t == <<k>> \o s
<1>1. /\ t \in Seq(S) /\ Len(t) = Len(s) + 1 /\ DOMAIN s = 1..Len(s) /\ Len(s) \in Nat
      /\ DOMAIN t = 1..Len(s) + 1
      /\ \A i \in DOMAIN t : t[i] = IF i = 1 THEN k ELSE s[i - 1]
  OBVIOUS
<1> HIDE DEF t
<1>2. Once(t)
  <2> SUFFICES ASSUME NEW a \in DOMAIN t, NEW b \in DOMAIN t, t[a] = t[b] PROVE a = b
    BY DEF Once
  <2>1. \A i \in DOMAIN t : i # 1 => i - 1 \in DOMAIN s /\ t[i] = s[i - 1] /\ s[i - 1] \in Keys(s)
    BY <1>1 DEF Keys
  <2>2. CASE a = 1 \/ b = 1
    BY <1>1, <2>1, <2>2
  <2>3. CASE a # 1 /\ b # 1
    <3>1. a - 1 = b - 1
      BY <2>1, <2>3 DEF Once
    <3>2. QED
      BY <1>1, <3>1
  <2>4. QED
    BY <2>2, <2>3
<1>3. Keys(t) = Keys(s) \cup {k}
  <2>1. ASSUME NEW i \in DOMAIN t PROVE t[i] \in Keys(s) \cup {k}
    BY <1>1 DEF Keys
  <2>2. ASSUME NEW i \in DOMAIN s PROVE s[i] \in Keys(t)
    <3>1. i + 1 \in DOMAIN t /\ i + 1 # 1 /\ (i + 1) - 1 = i
      BY <1>1
    <3>2. t[i + 1] = s[i]
      BY <1>1, <3>1
    <3>3. QED
      BY <3>1, <3>2 DEF Keys
  <2>3. k \in Keys(t)
    <3>1. 1 \in DOMAIN t /\ t[1] = k
      BY <1>1
    <3>2. QED
      BY <3>1 DEF Keys
  <2>4. QED
    BY <2>1, <2>2, <2>3 DEF Keys
<1>4. QED
  BY <1>1, <1>2, <1>3 DEF t

\* The list without its last keys.
LEMMA PrefixLeaves ==
    ASSUME NEW S, NEW s \in Seq(S), Once(s), NEW n \in 0..Len(s)
    PROVE  /\ SubSeq(s, 1, Len(s) - n) \in Seq(S) /\ Once(SubSeq(s, 1, Len(s) - n))
           /\ Len(SubSeq(s, 1, Len(s) - n)) = Len(s) - n
           /\ Keys(SubSeq(s, 1, Len(s) - n)) =
                Keys(s) \ {s[i] : i \in (Len(s) - n + 1)..Len(s)}
<1> DEFINE t == SubSeq(s, 1, Len(s) - n)
<1>1. /\ t \in Seq(S) /\ Len(t) = Len(s) - n /\ DOMAIN s = 1..Len(s) /\ Len(s) \in Nat
      /\ DOMAIN t = 1..Len(s) - n /\ \A i \in DOMAIN t : i \in DOMAIN s /\ t[i] = s[i]
  OBVIOUS
<1> HIDE DEF t
<1>2. Once(t)
  BY <1>1 DEF Once
<1>3. \A i \in DOMAIN s : i \in DOMAIN t <=> i \notin (Len(s) - n + 1)..Len(s)
  BY <1>1
<1>4. (Len(s) - n + 1)..Len(s) \subseteq DOMAIN s
  BY <1>1
<1>5. Keys(t) = Keys(s) \ {s[i] : i \in (Len(s) - n + 1)..Len(s)}
  <2> DEFINE L == (Len(s) - n + 1)..Len(s)
  <2>1. /\ \A i \in DOMAIN s : i \in DOMAIN t <=> i \notin L
        /\ L \subseteq DOMAIN s
        /\ \A i \in DOMAIN t : i \in DOMAIN s /\ t[i] = s[i]
    BY <1>1, <1>3, <1>4
  <2> HIDE DEF L
  <2>2. Keys(t) = Keys(s) \ {s[i] : i \in L}
    BY <2>1 DEF Keys, Once
  <2>3. QED
    BY <2>2 DEF L
<1>6. QED
  BY <1>1, <1>2, <1>5 DEF t

\* The entries are finitely many, and so are their bytes.
LEMMA BytesFinite ==
    ASSUME NEW ca, Kept(ca), NEW ks \in SUBSET DOMAIN ca.map
    PROVE  IsFiniteSet(EntryBytes(ca, ks)) /\ CacheSlots(ca, ks) \in Nat
<1> DEFINE M == 1..max_entry_bytes
<1>1. IsFiniteSet(DOMAIN ca.map)
  <2>1. IsFiniteSet(1..Len(ca.order)) /\ DOMAIN ca.order = 1..Len(ca.order)
    BY FS_Interval DEF Kept
  <2>2. ca.order \in Seq(Boxes) /\ \A k \in DOMAIN ca.map : \E i \in DOMAIN ca.order : ca.order[i] = k
    BY DEF Kept, Keys
  <2>3. ca.order \in [1..Len(ca.order) -> DOMAIN ca.map]
    BY <2>1, <2>2 DEF Kept, Keys
  <2>4. ca.order \in Surjection(1..Len(ca.order), DOMAIN ca.map)
    BY <2>1, <2>2, <2>3 DEF Surjection
  <2>5. QED
    BY <2>1, <2>4, FS_Surjection
<1>2. max_entry_bytes \in Int
  BY BoundAssumption DEF max_entry_bytes
<1>3. IsFiniteSet(M)
  BY <1>2, FS_Interval
<1>4. EntryBytes(ca, ks) \in SUBSET ((DOMAIN ca.map) \X M)
  BY <1>2 DEF EntryBytes, Kept
<1> HIDE DEF M
<1>5. IsFiniteSet((DOMAIN ca.map) \X M)
  BY <1>1, <1>3, FS_Product
<1>6. IsFiniteSet(EntryBytes(ca, ks))
  BY <1>4, <1>5, FS_Subset
<1>7. QED
  BY <1>6, FS_CardinalityType DEF CacheSlots

\* Erasing some keys leaves the rest.
Rest(ca, ks, order) ==
    /\ ks \subseteq DOMAIN ca.map
    /\ order \in Seq(Boxes) /\ Once(order) /\ Keys(order) = DOMAIN ca.map \ ks

LEMMA EraseKept ==
    ASSUME NEW ca, Kept(ca), NEW ks, NEW order, Rest(ca, ks, order)
    PROVE  /\ Kept(EraseKeys(ca, ks, order)) /\ EraseKeys(ca, ks, order).order = order
           /\ EraseKeys(ca, ks, order).bytes = ca.bytes - CacheSlots(ca, ks)
           /\ EraseKeys(ca, ks, order).bytes \in Nat /\ CacheSlots(ca, ks) \in Nat /\ ca.bytes \in Nat
           /\ DOMAIN EraseKeys(ca, ks, order).map = DOMAIN ca.map \ ks
<1> DEFINE r == EraseKeys(ca, ks, order)
           D == DOMAIN ca.map
<1>0. /\ ks \subseteq D /\ order \in Seq(Boxes) /\ Once(order) /\ Keys(order) = D \ ks
  BY DEF Rest
<1>1. /\ r.order = order /\ r.bytes = ca.bytes - CacheSlots(ca, ks)
      /\ DOMAIN r.map = D \ ks /\ \A k \in D \ ks : r.map[k] = ca.map[k]
  BY DEF EraseKeys
<1> HIDE DEF r
<1>2. EntryBytes(ca, D) = EntryBytes(r, D \ ks) \cup EntryBytes(ca, ks)
  <2>1. \A k \in D \ ks : {k} \X (1..r.map[k].bytes) = {k} \X (1..ca.map[k].bytes)
    BY <1>1
  <2>2. EntryBytes(r, D \ ks) = EntryBytes(ca, D \ ks)
    BY <2>1 DEF EntryBytes
  <2>3. QED
    BY <1>0, <2>2 DEF EntryBytes
<1>3. EntryBytes(r, D \ ks) \cap EntryBytes(ca, ks) = {}
  BY DEF EntryBytes
<1>4. IsFiniteSet(EntryBytes(ca, D)) /\ IsFiniteSet(EntryBytes(ca, ks)) /\ CacheSlots(ca, D) \in Nat
      /\ CacheSlots(ca, ks) \in Nat
  BY <1>0, BytesFinite
<1>5. IsFiniteSet(EntryBytes(r, D \ ks)) /\ CacheSlots(r, D \ ks) \in Nat
  <2>1. EntryBytes(r, D \ ks) \in SUBSET EntryBytes(ca, D)
    BY <1>2
  <2>2. IsFiniteSet(EntryBytes(r, D \ ks))
    BY <1>4, <2>1, FS_Subset
  <2>3. QED
    BY <2>2, FS_CardinalityType DEF CacheSlots
<1>6. CacheSlots(ca, D) = CacheSlots(r, D \ ks) + CacheSlots(ca, ks)
  <2> DEFINE A == EntryBytes(r, D \ ks)
             B == EntryBytes(ca, ks)
             C == EntryBytes(ca, D)
  <2>1. IsFiniteSet(A) /\ IsFiniteSet(B) /\ A \cap B = {} /\ C = A \cup B
    BY <1>2, <1>3, <1>4, <1>5
  <2> HIDE DEF A, B, C
  <2>2. Cardinality(A \cup B) = Cardinality(A) + Cardinality(B) - Cardinality(A \cap B)
    BY <2>1, FS_Union
  <2>3. Cardinality(A \cap B) = 0 /\ Cardinality(A) \in Nat /\ Cardinality(B) \in Nat
    BY <2>1, FS_EmptySet, FS_CardinalityType
  <2>4. Cardinality(C) = Cardinality(A) + Cardinality(B)
    <3>1. Cardinality(C) = Cardinality(A \cup B)
      BY <2>1
    <3>2. QED
      BY <2>2, <2>3, <3>1
  <2>5. QED
    BY <2>4 DEF A, B, C, CacheSlots
<1>7. r.bytes = CacheSlots(r, DOMAIN r.map) /\ r.bytes \in Nat /\ ca.bytes \in Nat
  BY <1>1, <1>4, <1>5, <1>6 DEF Kept
<1>8. Kept(r)
  BY <1>0, <1>1, <1>7 DEF Kept
<1>9. QED
  BY <1>1, <1>4, <1>7, <1>8 DEF r

LEMMA EraseOne ==
    ASSUME NEW ca, Kept(ca), NEW k \in DOMAIN ca.map
    PROVE  /\ Kept(erase(ca, k)) /\ DOMAIN erase(ca, k).map = DOMAIN ca.map \ {k}
           /\ erase(ca, k).bytes \in Nat /\ ca.bytes \in Nat /\ erase(ca, k).bytes <= ca.bytes
<1>1. ca.order \in Seq(Boxes) /\ Once(ca.order) /\ Keys(ca.order) = DOMAIN ca.map
  BY DEF Kept
<1>2. /\ Others(ca.order, k) \in Seq(Boxes) /\ Once(Others(ca.order, k))
      /\ Keys(Others(ca.order, k)) = DOMAIN ca.map \ {k}
  BY <1>1, OthersRest
<1>3. {k} \subseteq DOMAIN ca.map
  OBVIOUS
<1>4. Rest(ca, {k}, Others(ca.order, k))
  BY <1>2, <1>3 DEF Rest
<1> DEFINE r == EraseKeys(ca, {k}, Others(ca.order, k))
<1>5. /\ Kept(r) /\ DOMAIN r.map = DOMAIN ca.map \ {k} /\ r.bytes = ca.bytes - CacheSlots(ca, {k})
      /\ r.bytes \in Nat /\ ca.bytes \in Nat /\ CacheSlots(ca, {k}) \in Nat
  BY <1>4, EraseKept
<1>6. r = erase(ca, k)
  BY DEF erase
<1> HIDE DEF r
<1>7. QED
  BY <1>5, <1>6

\* The loop stops: some number of keys from the end is enough, and the least is taken.
LEMMA EvictKept ==
    ASSUME NEW ca, Kept(ca), NEW limit \in Nat
    PROVE  /\ Kept(evict_to(ca, limit)) /\ evict_to(ca, limit).bytes \in Nat
           /\ evict_to(ca, limit).bytes <= limit
           /\ DOMAIN evict_to(ca, limit).map \subseteq DOMAIN ca.map
<1> DEFINE N == Len(ca.order)
           enough(m) == m = N \/ ca.bytes - CacheSlots(ca, LastKeys(ca, m)) <= limit
           least(m) == enough(m) /\ \A l \in 0..(m - 1) : ~enough(l)
           n == CHOOSE m \in 0..N : least(m)
           order == SubSeq(ca.order, 1, N - n)
<1>1. N \in Nat /\ ca.order \in Seq(Boxes) /\ Once(ca.order) /\ Keys(ca.order) = DOMAIN ca.map
  BY DEF Kept
<1> HIDE DEF enough
<1>2. \E m \in 0..N : least(m)
  <2> DEFINE E == {m \in 0..N : enough(m)}
  <2>1. N \in E /\ E \in SUBSET Nat
    BY <1>1 DEF enough
  <2>2. PICK m \in E : \A j \in E : m <= j
    BY <2>1, Least
  <2>3. m \in 0..N /\ enough(m)
    OBVIOUS
  <2>4. \A l \in 0..(m - 1) : ~enough(l)
    BY <1>1, <2>2, <2>3
  <2>5. QED
    BY <2>3, <2>4
<1>3. n \in 0..N /\ enough(n)
  BY <1>2
<1>4. evict_to(ca, limit) = EraseKeys(ca, LastKeys(ca, n), order)
  BY DEF evict_to, enough
<1> HIDE DEF n
<1>5. /\ order \in Seq(Boxes) /\ Once(order) /\ Len(order) = N - n
      /\ Keys(order) = DOMAIN ca.map \ LastKeys(ca, n)
  BY <1>1, <1>3, PrefixLeaves DEF LastKeys
<1>6. LastKeys(ca, n) \subseteq DOMAIN ca.map
  <2>1. \A i \in (N - n + 1)..N : i \in DOMAIN ca.order
    BY <1>1, <1>3
  <2>2. QED
    BY <1>1, <2>1 DEF LastKeys, Keys
<1> DEFINE r == EraseKeys(ca, LastKeys(ca, n), order)
<1> HIDE DEF order
<1>7. /\ Kept(r) /\ r.order = order /\ r.bytes = ca.bytes - CacheSlots(ca, LastKeys(ca, n))
      /\ r.bytes \in Nat /\ DOMAIN r.map = DOMAIN ca.map \ LastKeys(ca, n)
  <2>1. Rest(ca, LastKeys(ca, n), order)
    BY <1>5, <1>6 DEF Rest
  <2>2. QED
    BY <2>1, EraseKept
<1> HIDE DEF r
<1>8. r.bytes <= limit
  <2>1. CASE n = N
    <3>1. DOMAIN order = {}
      <4>1. Len(order) = 0 /\ order \in Seq(Boxes)
        BY <1>1, <1>5, <2>1
      <4>2. QED
        BY <4>1
    <3>2. DOMAIN r.map = {}
      BY <1>7, <3>1 DEF Kept, Keys
    <3>3. r.bytes = Cardinality({})
      BY <1>7, <3>2 DEF Kept, CacheSlots, EntryBytes
    <3>4. QED
      BY <3>3, FS_EmptySet
  <2>2. CASE n # N
    BY <1>3, <1>7, <2>2 DEF enough
  <2>3. QED
    BY <2>1, <2>2
<1>9. QED
  BY <1>4, <1>7, <1>8 DEF r

\* A reply is filed in front of the list.
LEMMA FileKept ==
    ASSUME NEW ca, Kept(ca), NEW k \in Boxes, k \notin DOMAIN ca.map, NEW e,
           e.bytes \in Nat, e.bytes <= max_entry_bytes, NEW new,
           new.order = <<k>> \o ca.order, new.bytes = ca.bytes + e.bytes,
           DOMAIN new.map = DOMAIN ca.map \cup {k}, new.map[k] = e,
           \A j \in DOMAIN ca.map : new.map[j] = ca.map[j]
    PROVE  Kept(new)
<1>1. ca.order \in Seq(Boxes) /\ Once(ca.order) /\ Keys(ca.order) = DOMAIN ca.map
  BY DEF Kept
<1>2. /\ new.order \in Seq(Boxes) /\ Once(new.order)
      /\ Keys(new.order) = DOMAIN new.map
  BY <1>1, FrontAdds
<1> DEFINE A == EntryBytes(ca, DOMAIN ca.map)
           B == {k} \X (1..e.bytes)
<1>3. EntryBytes(new, DOMAIN new.map) = A \cup B
  <2>1. \A j \in DOMAIN ca.map : {j} \X (1..new.map[j].bytes) = {j} \X (1..ca.map[j].bytes)
    OBVIOUS
  <2>2. EntryBytes(new, DOMAIN ca.map) = A
    BY <2>1 DEF EntryBytes
  <2>3. EntryBytes(new, DOMAIN new.map) = EntryBytes(new, DOMAIN ca.map) \cup B
    BY DEF EntryBytes
  <2>4. QED
    BY <2>2, <2>3
<1>4. A \cap B = {}
  BY DEF EntryBytes
<1>5. IsFiniteSet(A) /\ Cardinality(A) = ca.bytes
  BY BytesFinite DEF Kept, CacheSlots
<1>6. IsFiniteSet(B) /\ Cardinality(B) = e.bytes
  <2>1. IsFiniteSet(1..e.bytes) /\ Cardinality(1..e.bytes) = e.bytes
    BY FS_Interval
  <2>2. IsFiniteSet({k}) /\ Cardinality({k}) = 1
    BY FS_Singleton
  <2>3. IsFiniteSet(B) /\ Cardinality(B) = Cardinality({k}) * Cardinality(1..e.bytes)
    BY <2>1, <2>2, FS_Product
  <2>4. QED
    BY <2>1, <2>2, <2>3
<1> HIDE DEF A, B
<1>7. Cardinality(A \cup B) = Cardinality(A) + Cardinality(B)
  <2>1. Cardinality(A \cup B) = Cardinality(A) + Cardinality(B) - Cardinality(A \cap B)
    BY <1>5, <1>6, FS_Union
  <2>2. Cardinality(A \cap B) = 0 /\ Cardinality(A) \in Nat /\ Cardinality(B) \in Nat
    BY <1>4, <1>5, <1>6, FS_EmptySet, FS_CardinalityType
  <2>3. QED
    BY <2>1, <2>2
<1>8. new.bytes = CacheSlots(new, DOMAIN new.map)
  BY <1>3, <1>5, <1>6, <1>7 DEF CacheSlots
<1>9. QED
  BY <1>2, <1>8 DEF Kept

\* A lookup: nothing, a stale entry goes, or the entry moves to the front.
LEMMA FindKept ==
    ASSUME NEW ca, Kept(ca), NEW k \in Boxes
    PROVE  /\ Kept(find(ca, k)) /\ find(ca, k).bytes \in Nat
           /\ ca.bytes \in Nat /\ find(ca, k).bytes <= ca.bytes
<1>0. ca.bytes \in Nat
  BY BytesFinite DEF Kept
<1>1. CASE ~enabled \/ k \notin DOMAIN ca.map
  <2>1. ~Hit(ca, k)
    BY <1>1 DEF Hit
  <2>2. find(ca, k) = ca
    BY <1>1, <2>1 DEF find
  <2>3. QED
    BY <1>0, <2>2
<1>2. CASE ~(~enabled \/ k \notin DOMAIN ca.map) /\ Hit(ca, k)
  <2> DEFINE rest == Others(ca.order, k)
             new == [map |-> ca.map, bytes |-> ca.bytes, order |-> <<k>> \o rest]
  <2>1. find(ca, k) = new
    BY <1>2 DEF find
  <2>2. ca.order \in Seq(Boxes) /\ Once(ca.order) /\ Keys(ca.order) = DOMAIN ca.map
        /\ k \in DOMAIN ca.map
    BY <1>2 DEF Kept
  <2>3. rest \in Seq(Boxes) /\ Once(rest) /\ Keys(rest) = DOMAIN ca.map \ {k}
    BY <2>2, OthersRest
  <2> HIDE DEF rest
  <2>4. /\ <<k>> \o rest \in Seq(Boxes) /\ Once(<<k>> \o rest)
        /\ Keys(<<k>> \o rest) = Keys(rest) \cup {k}
    <3>1. k \notin Keys(rest)
      BY <2>3
    <3>2. QED
      BY <2>3, <3>1, FrontAdds
  <2>5. new.map = ca.map /\ new.bytes = ca.bytes /\ new.order = <<k>> \o rest
    OBVIOUS
  <2> HIDE DEF new
  <2>6. CacheSlots(new, DOMAIN new.map) = CacheSlots(ca, DOMAIN ca.map)
    BY <2>5 DEF CacheSlots, EntryBytes
  <2>7. Keys(new.order) = DOMAIN new.map
    BY <2>2, <2>3, <2>4, <2>5
  <2>8. Kept(new)
    BY <2>4, <2>5, <2>6, <2>7 DEF Kept
  <2>9. QED
    BY <1>0, <2>1, <2>5, <2>8
<1>3. CASE ~(~enabled \/ k \notin DOMAIN ca.map) /\ ~Hit(ca, k)
  <2>1. find(ca, k) = erase(ca, k) /\ k \in DOMAIN ca.map
    BY <1>3 DEF find
  <2>2. QED
    BY <2>1, EraseOne
<1>4. QED
  BY <1>1, <1>2, <1>3

\* Filing: the old entry for the box goes, room is made, and the new one is put in front.
LEMMA InsertKept ==
    ASSUME NEW ca, Kept(ca), ca.bytes <= CacheMax, NEW k \in Boxes, NEW e, e.bytes \in Nat
    PROVE  Kept(insert(ca, k, e)) /\ insert(ca, k, e).bytes <= CacheMax
<1>1. CASE Unwanted(ca, k, e)
  BY <1>1 DEF insert
<1>2. CASE ~Unwanted(ca, k, e)
  <2> DEFINE freed == IF k \in DOMAIN ca.map THEN erase(ca, k) ELSE ca
             limit == CacheMax - e.bytes
             room == evict_to(freed, limit)
             new == [map |-> [j \in DOMAIN room.map \cup {k} |-> IF j = k THEN e ELSE room.map[j]],
                     order |-> <<k>> \o room.order,
                     bytes |-> room.bytes + e.bytes]
  <2>1. insert(ca, k, e) = new
    BY <1>2 DEF insert
  <2>2. e.bytes <= max_entry_bytes /\ limit \in Nat
    BY <1>2, BoundAssumption DEF Unwanted, max_entry_bytes
  <2>3. Kept(freed) /\ k \notin DOMAIN freed.map
    <3>1. CASE k \in DOMAIN ca.map
      <4>1. Kept(erase(ca, k)) /\ DOMAIN erase(ca, k).map = DOMAIN ca.map \ {k}
        BY <3>1, EraseOne
      <4>2. QED
        BY <3>1, <4>1
    <3>2. CASE k \notin DOMAIN ca.map
      BY <3>2
    <3>3. QED
      BY <3>1, <3>2
  <2> HIDE DEF freed
  <2>4. /\ Kept(room) /\ room.bytes \in Nat /\ room.bytes <= limit
        /\ DOMAIN room.map \subseteq DOMAIN freed.map
    BY <2>2, <2>3, EvictKept
  <2> HIDE DEF room
  <2>5. k \notin DOMAIN room.map
    BY <2>3, <2>4
  <2>6. /\ new.order = <<k>> \o room.order /\ new.bytes = room.bytes + e.bytes
        /\ DOMAIN new.map = DOMAIN room.map \cup {k} /\ new.map[k] = e
        /\ \A j \in DOMAIN room.map : new.map[j] = room.map[j]
    BY <2>5
  <2> HIDE DEF new
  <2>7. Kept(new)
    BY <2>2, <2>4, <2>5, <2>6, FileKept
  <2>8. new.bytes <= CacheMax
    BY <2>2, <2>4, <2>6, BoundAssumption
  <2>9. QED
    BY <2>1, <2>7, <2>8
<1>3. QED
  BY <1>1, <1>2

LruInv == Kept(cache) /\ cache.bytes <= CacheMax

LEMMA LruInit == Init => LruInv
<1> SUFFICES ASSUME Init PROVE LruInv
  OBVIOUS
<1>1. cache.map = << >> /\ cache.order = << >> /\ cache.bytes = 0
  BY DEF Init
<1>2. DOMAIN << >> = {} /\ << >> \in Seq(Boxes)
  OBVIOUS
<1>3. Once(cache.order) /\ Keys(cache.order) = {} /\ DOMAIN cache.map = {}
  BY <1>1, <1>2 DEF Once, Keys
<1>4. CacheSlots(cache, {}) = 0
  <2>1. EntryBytes(cache, {}) = {}
    BY DEF EntryBytes
  <2>2. QED
    BY <2>1, FS_EmptySet DEF CacheSlots
<1>5. Kept(cache)
  BY <1>1, <1>2, <1>3, <1>4 DEF Kept
<1>6. QED
  BY <1>1, <1>5, BoundAssumption DEF LruInv

LEMMA LruStep == TypeOK /\ LruInv /\ [Next]_vars => LruInv'
<1> SUFFICES ASSUME TypeOK, LruInv, [Next]_vars PROVE LruInv'
  OBVIOUS
<1>1. ASSUME NEW k \in Boxes, cache' = find(cache, k) PROVE LruInv'
  <2>1. /\ Kept(find(cache, k)) /\ find(cache, k).bytes \in Nat
        /\ cache.bytes \in Nat /\ find(cache, k).bytes <= cache.bytes
    BY FindKept DEF LruInv
  <2>2. Kept(cache') /\ cache'.bytes <= CacheMax
    BY <1>1, <2>1, BoundAssumption DEF LruInv
  <2>3. QED
    BY <2>2 DEF LruInv, Kept, CacheSlots, EntryBytes, Once, Keys
<1>2. ASSUME NEW c \in Clients, NEW pt \in Points, RegionScan(c, pt) PROVE LruInv'
  BY <1>1, <1>2 DEF RegionScan, Boxes
<1>3. ASSUME NEW c \in Clients, WriterFile(c) PROVE LruInv'
  <2> DEFINE r == hand[c].reply
             e == [recs |-> r.recs, stamp |-> r.stamp, bytes |-> EncodedBytes(r.recs)]
  <2>1. cache' = insert(cache, r.box, e)
    BY <1>3 DEF WriterFile
  <2>2. r \in Replies
    BY <1>3, HeldTyped DEF WriterFile, IsReply
  <2>3. r.box \in Boxes /\ e.bytes \in Nat
    BY <2>2, RecordsFinite DEF Replies, EncodedBytes
  <2> HIDE DEF e, r
  <2>4. Kept(insert(cache, r.box, e)) /\ insert(cache, r.box, e).bytes <= CacheMax
    BY <2>3, InsertKept DEF LruInv
  <2>5. Kept(cache') /\ cache'.bytes <= CacheMax
    BY <2>1, <2>4
  <2>6. QED
    BY <2>5 DEF LruInv, Kept, CacheSlots, EntryBytes, Once, Keys
<1>4. CASE UNCHANGED cache
  BY <1>4 DEF LruInv, Kept, CacheSlots, EntryBytes, Once, Keys
<1>5. QED
  BY <1>2, <1>3, <1>4 DEF Next, vars, Edit, EditRefused, RelayTo, RelayDone, BudgetRefuse,
     CountPending, GlobalGuard, PushRegion, PushCached, WriterTake, WriterSend, WriterAbandon

\* RegionCache's bookkeeping: map, list and byte count agree and stay within --region-cache,
\* whatever is looked up, found stale, replaced or evicted.
THEOREM CacheStaysBounded == Spec => []LruConsistent
<1>1. LruInv => LruConsistent
  <2> SUFFICES ASSUME LruInv PROVE LruConsistent
    OBVIOUS
  <2>1. Len(cache.order) = Cardinality(DOMAIN cache.map)
    <3> DEFINE I == 1..Len(cache.order)
               D == DOMAIN cache.map
    <3>1. /\ cache.order \in Seq(Boxes) /\ DOMAIN cache.order = I /\ Len(cache.order) \in Nat
          /\ \A i, j \in I : cache.order[i] = cache.order[j] => i = j
          /\ \A i \in I : cache.order[i] \in D
          /\ \A k \in D : \E i \in I : cache.order[i] = k
      BY DEF LruInv, Kept, Once, Keys
    <3>2. IsFiniteSet(I) /\ Cardinality(I) = Len(cache.order)
      BY <3>1, FS_Interval
    <3> HIDE DEF I, D
    <3>3. cache.order \in [I -> D]
      BY <3>1
    <3>4. cache.order \in Surjection(I, D) /\ cache.order \in Injection(I, D)
      BY <3>1, <3>3 DEF Surjection, Injection, IsInjective
    <3>5. Cardinality(D) = Cardinality(I)
      BY <3>2, <3>4, FS_Surjection
    <3>6. QED
      BY <3>2, <3>5 DEF D
  <2>2. QED
    BY <2>1 DEF LruInv, Kept, Keys, LruConsistent
<1>2. QED
  BY <1>1, TypeInit, TypeStep, LruInit, LruStep, PTL DEF Spec
=============================================================================
