----------------------------- MODULE ClientOut -----------------------------
(***************************************************************************)
(* One client's output: the queue (out_queue.h), the producers that fill   *)
(* it from any thread, the writer thread that drains it, and the reader's  *)
(* closeOut.  Every section under ClientOut::m is one action; what the     *)
(* writer holds outside the lock is hand[c], and wpc[c] is where it is.    *)
(*                                                                         *)
(* hi lines are sizes.  lo holds blobs (an ACTION relay, a SIGNQ burst) and *)
(* region replies, of which the writer takes one frame at a time; a reply   *)
(* that still has to be deflated needs one of the server's encoder slots.  *)
(* A cursor and a frame are counted in records, and record k of the n-th   *)
(* accepted entry is the unit <<n, k>>: an entry, a queued remainder or a  *)
(* frame is a set of units, and the order of units is the order accepted.  *)
(***************************************************************************)
EXTENDS Integers, Sequences, FiniteSets

CONSTANTS
    Clients,
    HiMax,          \* --client-outbox-max: hi_max_bytes
    LoMax,          \* --client-world-max: lo_max_bytes
    MaxRegionJobs,  \* --client-region-queue: max_region_jobs
    FrameRecords,   \* SNAPZ_FRAME_RECORDS
    Encoders,       \* --region-encoders; 0 is no limit
    Others,         \* encoder slots that clients outside the model may hold at once
    FillMax,        \* RegionCache::max_entry_bytes; 0 when the cache is off
    LineSizes,      \* sizes of hi lines
    BlobSizes,      \* sizes of lo blobs
    Totals,         \* record counts of region replies
    EmptyFrame,     \* an empty reply is one SNAPZ:0: frame
    Broadcasters,   \* threads that may be between a refused push_world and dropTooSlow
    MaxEntries      \* bound of the model: lo entries accepted per client

ASSUME LimitsAssumption ==
    /\ HiMax \in Nat /\ LoMax \in Nat /\ MaxRegionJobs \in Nat
    /\ FrameRecords \in Nat \ {0} /\ Encoders \in Nat /\ Others \in Nat /\ FillMax \in Nat
    /\ Broadcasters \in Nat /\ MaxEntries \in Nat /\ EmptyFrame \in BOOLEAN
ASSUME SizesAssumption ==
    LineSizes \subseteq Nat \ {0} /\ BlobSizes \subseteq Nat \ {0} /\ Totals \subseteq Nat
ASSUME ClientsAssumption == IsFiniteSet(Clients)

VARIABLES
    q,         \* OutQueue: [hi, lo, hiBytes, loBytes, regionJobs]
    closing, tooSlow, dead, writing,    \* ClientOut's flags
    hand,      \* the OutItem in the writer's hand
    wpc,       \* where the writer is
    fill,      \* the reply being collected for the region cache
    inUse,     \* EncodeSlots::inUse
    elsewhere, \* of those, held by writers of clients outside the model
    refused,   \* broadcasts refused by push_world, not yet in dropTooSlow
    shut,      \* the writer has shut the socket down
    joined,    \* closeOut has joined the writer
    entries,   \* history: how many lo entries were accepted
    accepted,  \* history: their units
    wire,      \* history: the blobs and frames sent, in order, as their units
    lost,      \* history: units of frames whose encode failed
    filed      \* history: the replies filed in the region cache

flags == <<closing, tooSlow, dead>>
history == <<entries, accepted, wire, lost, filed>>
vars == <<q, flags, writing, hand, wpc, fill, inUse, elsewhere, refused, shut, joined, history>>

-----------------------------------------------------------------------------
(* OutQueue. *)

EmptyQueue == [hi |-> << >>, lo |-> << >>, hiBytes |-> 0, loBytes |-> 0, regionJobs |-> 0]
NoItem == [kind |-> "none"]

idle(u) == u.hi = << >> /\ u.lo = << >>
\* The bytes of a sequence of sizes, each named by its place and its number in it.
Bytes(s) == UNION {{i} \X (1..s[i]) : i \in DOMAIN s}
total_bytes(s) == Cardinality(Bytes(s))

\* push_hi: the oldest lines go until the new one fits, or none is left.
push_hi(u, size) ==
    LET fits(n) == n = Len(u.hi)
                     \/ u.hiBytes - total_bytes(SubSeq(u.hi, 1, n)) + size <= HiMax
        n == CHOOSE m \in 0..Len(u.hi) : fits(m) /\ \A l \in 0..(m - 1) : ~fits(l)
    IN  [u EXCEPT !.hi = Append(SubSeq(@, n + 1, Len(@)), size),
                  !.hiBytes = @ - total_bytes(SubSeq(u.hi, 1, n)) + size]

Blob(n, size) == [kind |-> "blob", id |-> n, size |-> size]
Reply(kind, n, total) == [kind |-> kind, id |-> n, total |-> total, cursor |-> 0]

push_blob(u, n, size) == [u EXCEPT !.lo = Append(@, Blob(n, size)), !.loBytes = @ + size]
push_job(u, kind, n, total) ==
    [u EXCEPT !.lo = Append(@, Reply(kind, n, total)), !.regionJobs = @ + 1]

FrameLastEarly(s) ==         \* variant: a reply one record short of its end counts as sent
    LET left == s.total - s.cursor
        n == IF left < FrameRecords THEN left ELSE FrameRecords
    IN  [kind |-> IF s.kind = "job" THEN "frame" ELSE "cached", id |-> s.id,
         total |-> s.total, off |-> s.cursor, count |-> n,
         first |-> s.cursor = 0, last |-> s.cursor + n + 1 >= s.total]
\* take(): one hi line, else one blob or one frame; a reply leaves with its last frame.
Frame(s) ==
    LET left == s.total - s.cursor
        n == IF left < FrameRecords THEN left ELSE FrameRecords
    IN  [kind |-> IF s.kind = "job" THEN "frame" ELSE "cached", id |-> s.id,
         total |-> s.total, off |-> s.cursor, count |-> n,
         first |-> s.cursor = 0, last |-> s.cursor + n = s.total]

item(u) ==
    IF u.hi # << >> THEN [kind |-> "line", size |-> Head(u.hi)]
    ELSE IF Head(u.lo).kind = "blob" THEN Head(u.lo)
    ELSE Frame(Head(u.lo))

\* pop_region: decrements unless it is already zero.
pop_region(u) ==
    [u EXCEPT !.lo = Tail(@), !.regionJobs = IF @ = 0 THEN 0 ELSE @ - 1]

rest(u) ==
    IF u.hi # << >>
    THEN [u EXCEPT !.hi = Tail(@), !.hiBytes = @ - Head(u.hi)]
    ELSE LET s == Head(u.lo) IN
         IF s.kind = "blob" THEN [u EXCEPT !.lo = Tail(@), !.loBytes = @ - s.size]
         ELSE IF Frame(s).last THEN pop_region(u)
         ELSE [u EXCEPT !.lo[1].cursor = @ + Frame(s).count]

\* requeue_front: a middle frame rewinds its job's cursor; a last frame's job, popped by
\* take(), goes back to the front holding what is left.
requeue_front(u, it) ==
    IF ~it.last THEN [u EXCEPT !.lo[1].cursor = it.off]
    ELSE [u EXCEPT !.lo = <<[kind |-> "job", id |-> it.id, total |-> it.total,
                             cursor |-> it.off]>> \o @,
                   !.regionJobs = @ + 1]

drop_lo(u) == [u EXCEPT !.lo = << >>, !.loBytes = 0, !.regionJobs = 0]

-----------------------------------------------------------------------------
(* Units: what a lo entry, a frame or a queue amounts to on the wire. *)

ReplyUnits(n, from, to) == {n} \X (from..(to - 1))
EntryUnits(s) ==
    IF s.kind = "blob" THEN {<<s.id, 0>>}
    ELSE IF s.total = 0 THEN {<<s.id, 0>>} ELSE ReplyUnits(s.id, s.cursor, s.total)
ItemUnits(it) ==
    IF it.kind \in {"none", "line"} THEN {}
    ELSE IF it.kind = "blob" THEN {<<it.id, 0>>}
    ELSE IF it.total = 0 THEN {<<it.id, 0>>} ELSE ReplyUnits(it.id, it.off, it.off + it.count)
QueueUnits(lo) == [i \in DOMAIN lo |-> EntryUnits(lo[i])]

NextId(c) == entries[c] + 1
Accept(c, s) ==
    /\ entries' = [entries EXCEPT ![c] = @ + 1]
    /\ accepted' = [accepted EXCEPT ![c] = @ \cup EntryUnits(s)]

Init ==
    /\ q = [c \in Clients |-> EmptyQueue]
    /\ closing = [c \in Clients |-> FALSE]
    /\ tooSlow = [c \in Clients |-> FALSE]
    /\ dead = [c \in Clients |-> FALSE]
    /\ writing = [c \in Clients |-> FALSE]
    /\ hand = [c \in Clients |-> NoItem]
    /\ wpc = [c \in Clients |-> "top"]
    /\ fill = [c \in Clients |-> NoItem]
    /\ inUse = 0
    /\ elsewhere = 0
    /\ refused = [c \in Clients |-> 0]
    /\ shut = [c \in Clients |-> FALSE]
    /\ joined = [c \in Clients |-> FALSE]
    /\ entries = [c \in Clients |-> 0]
    /\ accepted = [c \in Clients |-> {}]
    /\ wire = [c \in Clients |-> << >>]
    /\ lost = [c \in Clients |-> {}]
    /\ filed = [c \in Clients |-> {}]

-----------------------------------------------------------------------------
(* Producers: any thread, no-ops once the client is on its way out. *)

Accepting(c) == ~closing[c] /\ ~dead[c] /\ ~tooSlow[c]
leaving(c) == closing[c] \/ tooSlow[c]

PushHi(c, size) ==
    /\ Accepting(c)
    /\ q' = [q EXCEPT ![c] = push_hi(@, size)]
    /\ UNCHANGED <<elsewhere, flags, writing, hand, wpc, fill, inUse, refused, shut, joined, history>>

\* A relay is accepted while the backlog is not already over budget; a refused one leaves
\* the lock and goes to dropTooSlow.
PushWorld(c, size) ==
    /\ Accepting(c)
    /\ q[c].loBytes <= LoMax
    /\ NextId(c) <= MaxEntries
    /\ q' = [q EXCEPT ![c] = push_blob(@, NextId(c), size)]
    /\ Accept(c, Blob(NextId(c), size))
    /\ UNCHANGED <<elsewhere, flags, writing, hand, wpc, fill, inUse, refused, shut, joined, wire, lost, filed>>

PushWorldRefused(c) ==
    /\ Accepting(c)
    /\ q[c].loBytes > LoMax
    /\ refused[c] < Broadcasters
    /\ refused' = [refused EXCEPT ![c] = @ + 1]
    /\ UNCHANGED <<elsewhere, q, flags, writing, hand, wpc, fill, inUse, shut, joined, history>>

\* dropTooSlow: once per client, and the notice goes ahead of everything.
DropForgets(c) ==   \* variant: the refused relay is only logged
    /\ refused[c] > 0
    /\ refused' = [refused EXCEPT ![c] = @ - 1]
    /\ UNCHANGED <<elsewhere, q, flags, writing, hand, wpc, fill, inUse, shut, joined, history>>
dropTooSlow(c) ==
    /\ refused[c] > 0
    /\ refused' = [refused EXCEPT ![c] = @ - 1]
    /\ IF Accepting(c)
       THEN \E size \in LineSizes :
              /\ tooSlow' = [tooSlow EXCEPT ![c] = TRUE]
              /\ q' = [q EXCEPT ![c] = push_hi(@, size)]
       ELSE UNCHANGED <<tooSlow, q>>
    /\ UNCHANGED <<elsewhere, closing, dead, writing, hand, wpc, fill, inUse, shut, joined, history>>

\* The answer to SIGNQ: refused when it would not fit, and the client asks again.
PushReply(c, size) ==
    /\ Accepting(c)
    /\ q[c].loBytes + size <= LoMax
    /\ NextId(c) <= MaxEntries
    /\ q' = [q EXCEPT ![c] = push_blob(@, NextId(c), size)]
    /\ Accept(c, Blob(NextId(c), size))
    /\ UNCHANGED <<elsewhere, flags, writing, hand, wpc, fill, inUse, refused, shut, joined, wire, lost, filed>>

\* A scanned reply ("job") or one from the region cache ("cached"): the same admission.
PushRegion(c, kind, total) ==
    /\ Accepting(c)
    /\ q[c].regionJobs < MaxRegionJobs
    /\ total # 0 \/ EmptyFrame
    /\ NextId(c) <= MaxEntries
    /\ q' = [q EXCEPT ![c] = push_job(@, kind, NextId(c), total)]
    /\ Accept(c, Reply(kind, NextId(c), total))
    /\ UNCHANGED <<elsewhere, flags, writing, hand, wpc, fill, inUse, refused, shut, joined, wire, lost, filed>>

-----------------------------------------------------------------------------
(* The writer thread (clientWriter). *)

TakeUnmarked(c) ==   \* variant: an item is taken without raising writing
    LET u == IF leaving(c) THEN drop_lo(q[c]) ELSE q[c]
    IN  /\ wpc[c] = "top"
        /\ leaving(c) \/ ~idle(q[c])
        /\ ~idle(u)
        /\ hand' = [hand EXCEPT ![c] = item(u)]
        /\ q' = [q EXCEPT ![c] = rest(u)]
        /\ wpc' = [wpc EXCEPT ![c] = IF item(u).kind = "frame" THEN "slot" ELSE "write"]
        /\ fill' = IF item(u).kind = "cached" /\ item(u).first
                   THEN [fill EXCEPT ![c] = NoItem] ELSE fill
        /\ UNCHANGED <<elsewhere, flags, writing, inUse, refused, shut, joined, history>>
\* The top of the loop: woken with something to send, or to leave.  A leaving client's
\* world state is dropped here; its hi lines still go out.
WriterTake(c) ==
    LET u == IF leaving(c) THEN drop_lo(q[c]) ELSE q[c]
    IN  /\ wpc[c] = "top"
        /\ leaving(c) \/ ~idle(q[c])
        /\ ~idle(u)
        /\ hand' = [hand EXCEPT ![c] = item(u)]
        /\ q' = [q EXCEPT ![c] = rest(u)]
        /\ writing' = [writing EXCEPT ![c] = TRUE]
        /\ wpc' = [wpc EXCEPT ![c] = IF item(u).kind = "frame" THEN "slot" ELSE "write"]
        /\ fill' = IF item(u).kind = "cached" /\ item(u).first
                   THEN [fill EXCEPT ![c] = NoItem] ELSE fill
        /\ UNCHANGED <<elsewhere, flags, inUse, refused, shut, joined, history>>

LeaveWhenIdle(c) ==   \* variant: a leaving writer waits for its world state to go
    /\ wpc[c] = "top"
    /\ leaving(c)
    /\ idle(q[c])
    /\ writing' = [writing EXCEPT ![c] = FALSE]
    /\ wpc' = [wpc EXCEPT ![c] = "cleanup"]
    /\ UNCHANGED <<elsewhere, q, flags, hand, fill, inUse, refused, shut, joined, history>>
\* Leaving with nothing left to say: out of the loop.
WriterLeave(c) ==
    /\ wpc[c] = "top"
    /\ leaving(c)
    /\ q[c].hi = << >>
    /\ q' = [q EXCEPT ![c] = drop_lo(@)]
    /\ writing' = [writing EXCEPT ![c] = FALSE]
    /\ wpc' = [wpc EXCEPT ![c] = "cleanup"]
    /\ UNCHANGED <<elsewhere, flags, hand, fill, inUse, refused, shut, joined, history>>

SlotFree == Encoders = 0 \/ inUse < Encoders

\* EncodeSlots::acquire_for, and a first frame starts the reply to be cached.
AcquireSlot(c) ==
    /\ wpc[c] = "slot"
    /\ SlotFree
    /\ inUse' = inUse + 1
    /\ wpc' = [wpc EXCEPT ![c] = "encode"]
    /\ fill' = IF ~hand[c].first THEN fill
               ELSE [fill EXCEPT ![c] =
                      IF FillMax = 0 THEN NoItem
                      ELSE [kind |-> "fill", id |-> hand[c].id, frames |-> << >>, bytes |-> 0]]
    /\ UNCHANGED <<elsewhere, q, flags, writing, hand, refused, shut, joined, history>>

\* No slot within SV_ENCODE_WAIT_MS: the frame goes back and hi lines get their turn.
SlotTimeout(c) ==
    /\ wpc[c] = "slot"
    /\ ~SlotFree
    /\ q' = [q EXCEPT ![c] = requeue_front(@, hand[c])]
    /\ hand' = [hand EXCEPT ![c] = NoItem]
    /\ writing' = [writing EXCEPT ![c] = FALSE]
    /\ wpc' = [wpc EXCEPT ![c] = "top"]
    /\ UNCHANGED <<elsewhere, flags, fill, inUse, refused, shut, joined, history>>

EncodeDone(c) ==
    /\ wpc[c] = "encode"
    /\ inUse' = inUse - 1
    /\ wpc' = [wpc EXCEPT ![c] = "write"]
    /\ UNCHANGED <<elsewhere, q, flags, writing, hand, fill, refused, shut, joined, history>>

EncodeFailKeepsFill(c) ==   \* variant: the collected reply survives its missing frame
    /\ wpc[c] = "encode"
    /\ inUse' = inUse - 1
    /\ lost' = [lost EXCEPT ![c] = @ \cup ItemUnits(hand[c])]
    /\ hand' = [hand EXCEPT ![c] = NoItem]
    /\ writing' = [writing EXCEPT ![c] = FALSE]
    /\ wpc' = [wpc EXCEPT ![c] = "top"]
    /\ UNCHANGED <<elsewhere, q, flags, fill, refused, shut, joined, entries, accepted, wire, filed>>
EncodeFailKeepsItem(c) ==   \* variant: the frame stays in hand
    /\ wpc[c] = "encode"
    /\ inUse' = inUse - 1
    /\ fill' = [fill EXCEPT ![c] = NoItem]
    /\ lost' = [lost EXCEPT ![c] = @ \cup ItemUnits(hand[c])]
    /\ writing' = [writing EXCEPT ![c] = FALSE]
    /\ wpc' = [wpc EXCEPT ![c] = "top"]
    /\ UNCHANGED <<elsewhere, q, flags, hand, refused, shut, joined, entries, accepted, wire, filed>>
EncodeFailKeepsSlot(c) ==   \* variant: the slot is only released on success
    /\ wpc[c] = "encode"
    /\ lost' = [lost EXCEPT ![c] = @ \cup ItemUnits(hand[c])]
    /\ fill' = [fill EXCEPT ![c] = NoItem]
    /\ hand' = [hand EXCEPT ![c] = NoItem]
    /\ writing' = [writing EXCEPT ![c] = FALSE]
    /\ wpc' = [wpc EXCEPT ![c] = "top"]
    /\ UNCHANGED <<elsewhere, q, flags, inUse, refused, shut, joined, entries, accepted, wire, filed>>
\* The deflate threw: the slot is released, the reply is not to be cached any more, and
\* the frame is dropped.  The frames behind it are still sent.
EncodeFail(c) ==
    /\ wpc[c] = "encode"
    /\ inUse' = inUse - 1
    /\ fill' = [fill EXCEPT ![c] = NoItem]
    /\ lost' = [lost EXCEPT ![c] = @ \cup ItemUnits(hand[c])]
    /\ hand' = [hand EXCEPT ![c] = NoItem]
    /\ writing' = [writing EXCEPT ![c] = FALSE]
    /\ wpc' = [wpc EXCEPT ![c] = "top"]
    /\ UNCHANGED <<elsewhere, q, flags, refused, shut, joined, entries, accepted, wire, filed>>

\* The writers of other clients take and release slots too.
OtherAcquires ==
    /\ SlotFree /\ elsewhere < Others
    /\ inUse' = inUse + 1 /\ elsewhere' = elsewhere + 1
    /\ UNCHANGED <<q, flags, writing, hand, wpc, fill, refused, shut, joined, history>>

OtherReleases ==
    /\ elsewhere > 0
    /\ inUse' = inUse - 1 /\ elsewhere' = elsewhere - 1
    /\ UNCHANGED <<q, flags, writing, hand, wpc, fill, refused, shut, joined, history>>

\* The encoded size of a frame (the deflate itself is not modelled).
FrameBytes(it) == 1 + it.count

\* What the frame just sent does to the reply being collected.
Collected(c) ==
    IF fill[c] = NoItem \/ fill[c].bytes + FrameBytes(hand[c]) > FillMax THEN NoItem
    ELSE [fill[c] EXCEPT !.frames = Append(@, ItemUnits(hand[c])), !.bytes = @ + FrameBytes(hand[c])]

\* writeAll delivered the item.  The last frame of a reply still being collected files it.
WriteOk(c) ==
    /\ wpc[c] = "write"
    /\ wire' = IF hand[c].kind = "line" THEN wire
               ELSE [wire EXCEPT ![c] = Append(@, ItemUnits(hand[c]))]
    /\ IF hand[c].kind \in {"frame", "cached"}
       THEN /\ fill' = [fill EXCEPT ![c] = IF hand[c].last THEN NoItem ELSE Collected(c)]
            /\ filed' = IF hand[c].last /\ Collected(c) # NoItem
                        THEN [filed EXCEPT ![c] = @ \cup {Collected(c)}] ELSE filed
       ELSE UNCHANGED <<fill, filed>>
    /\ hand' = [hand EXCEPT ![c] = NoItem]
    /\ writing' = [writing EXCEPT ![c] = FALSE]
    /\ wpc' = [wpc EXCEPT ![c] = "top"]
    /\ UNCHANGED <<elsewhere, q, flags, inUse, refused, shut, joined, entries, accepted, lost>>

WriteFailForgets(c) ==   \* variant: the writer stops without marking the client dead
    /\ wpc[c] = "write"
    /\ fill' = IF hand[c].kind \in {"frame", "cached"} THEN [fill EXCEPT ![c] = NoItem] ELSE fill
    /\ hand' = [hand EXCEPT ![c] = NoItem]
    /\ writing' = [writing EXCEPT ![c] = FALSE]
    /\ wpc' = [wpc EXCEPT ![c] = "cleanup"]
    /\ UNCHANGED <<elsewhere, q, flags, inUse, refused, shut, joined, history>>
\* writeAll gave up: a reset, the write timeout, or the drain deadline of a leaving client.
WriteFail(c) ==
    /\ wpc[c] = "write"
    /\ dead' = [dead EXCEPT ![c] = TRUE]
    /\ fill' = IF hand[c].kind \in {"frame", "cached"} THEN [fill EXCEPT ![c] = NoItem] ELSE fill
    /\ hand' = [hand EXCEPT ![c] = NoItem]
    /\ writing' = [writing EXCEPT ![c] = FALSE]
    /\ wpc' = [wpc EXCEPT ![c] = "cleanup"]
    /\ UNCHANGED <<elsewhere, q, closing, tooSlow, inUse, refused, shut, joined, history>>

\* After the loop: what is queued is released, and a client whose writer gave up has its
\* socket shut down, to wake its reader.
Cleanup(c) ==
    /\ wpc[c] = "cleanup"
    /\ q' = [q EXCEPT ![c] = drop_lo(@)]
    /\ shut' = [shut EXCEPT ![c] = (dead[c] \/ tooSlow[c]) /\ ~closing[c]]
    /\ wpc' = [wpc EXCEPT ![c] = "exited"]
    /\ UNCHANGED <<elsewhere, flags, writing, hand, fill, inUse, refused, joined, history>>

-----------------------------------------------------------------------------
(* The reader thread (closeOut): it leaves on its own, or because its socket was shut. *)

CloseOut(c) ==
    /\ ~closing[c]
    /\ closing' = [closing EXCEPT ![c] = TRUE]
    /\ UNCHANGED <<elsewhere, q, tooSlow, dead, writing, hand, wpc, fill, inUse, refused, shut, joined, history>>

Join(c) ==
    /\ closing[c]
    /\ ~joined[c]
    /\ wpc[c] = "exited"
    /\ joined' = [joined EXCEPT ![c] = TRUE]
    /\ UNCHANGED <<elsewhere, q, flags, writing, hand, wpc, fill, inUse, refused, shut, history>>

-----------------------------------------------------------------------------

WriteReturns(c) == WriteOk(c) \/ WriteFail(c)
Writer(c) ==
    \/ WriterTake(c)
    \/ WriterLeave(c)
    \/ AcquireSlot(c)
    \/ SlotTimeout(c)
    \/ EncodeDone(c)
    \/ EncodeFail(c)
    \/ Cleanup(c)
Producer(c) ==
    \/ \E size \in LineSizes : PushHi(c, size)
    \/ \E size \in BlobSizes : PushWorld(c, size)
    \/ \E size \in BlobSizes : PushReply(c, size)
    \/ \E total \in Totals, kind \in {"job", "cached"} : PushRegion(c, kind, total)
    \/ PushWorldRefused(c)
    \/ dropTooSlow(c)

Next ==
    \/ \E c \in Clients :
        Producer(c) \/ Writer(c) \/ WriteReturns(c) \/ CloseOut(c) \/ Join(c)
    \/ OtherAcquires
    \/ OtherReleases

Spec == Init /\ [][Next]_vars

\* The scheduler runs every thread.  A write of a client that stays is only as live as the
\* peer; once it is leaving, SO_SNDTIMEO and SV_CLOSE_DRAIN_SEC end the write.  A reader
\* whose socket was shut down returns from recv and closes.
Fairness ==
    \A c \in Clients :
        /\ WF_vars(Writer(c))
        /\ WF_vars(leaving(c) /\ WriteReturns(c))
        /\ WF_vars(dropTooSlow(c))
        /\ WF_vars(shut[c] /\ CloseOut(c))
        /\ WF_vars(Join(c))
FairSpec == Spec /\ Fairness

-----------------------------------------------------------------------------
(* Properties. *)

LoEntries ==
    [kind : {"blob"}, id : Nat, size : Nat]
        \cup [kind : {"job", "cached"}, id : Nat, total : Nat, cursor : Nat]
HandItems ==
    {NoItem} \cup [kind : {"line"}, size : Nat] \cup [kind : {"blob"}, id : Nat, size : Nat]
        \cup [kind : {"frame", "cached"}, id : Nat, total : Nat, off : Nat, count : Nat,
              first : BOOLEAN, last : BOOLEAN]

\* Types; an item is in hand exactly while the writer is past its loop top.
TypeOK ==
    \A c \in Clients :
        /\ q[c].hi \in Seq(Nat) /\ q[c].lo \in Seq(LoEntries)
        /\ {q[c].hiBytes, q[c].loBytes, q[c].regionJobs, refused[c]} \subseteq Nat
        /\ {closing[c], tooSlow[c], dead[c], writing[c], shut[c], joined[c]} \subseteq BOOLEAN
        /\ hand[c] \in HandItems
        /\ wpc[c] \in {"top", "slot", "encode", "write", "cleanup", "exited"}
        /\ hand[c] = NoItem <=> wpc[c] \in {"top", "cleanup", "exited"}

\* The counters the limits are tested against are what they count, through pushes,
\* frame-by-frame takes, requeues, drops of the oldest lines, drop_lo, failed encodes and
\* timed-out waits: the bytes and replies of each queue (out_queue.h), and the encoder slots,
\* each in use by a writer that is encoding.  A reply put back by requeue_front after its
\* place was taken is the only one over max_region_jobs, and --region-encoders is never passed.
BytesExact(u) ==
    /\ u.hiBytes = total_bytes(u.hi)
    /\ u.loBytes = total_bytes([i \in DOMAIN u.lo |-> IF u.lo[i].kind = "blob" THEN u.lo[i].size ELSE 0])
JobsExact(u) ==
    /\ u.regionJobs = Cardinality({i \in DOMAIN u.lo : u.lo[i].kind # "blob"})
    /\ u.regionJobs <= MaxRegionJobs + 1
SlotsExact ==
    /\ inUse = elsewhere + Cardinality({c \in Clients : wpc[c] = "encode"})
    /\ Encoders > 0 => inUse <= Encoders
AccountingExact == SlotsExact /\ \A c \in Clients : BytesExact(q[c]) /\ JobsExact(q[c])

Before(x, y) == x[1] < y[1] \/ (x[1] = y[1] /\ x[2] < y[2])
Ahead(X, Y) == \A x \in X, y \in Y : Before(x, y)
InOrder(s) == \A i, j \in DOMAIN s : i < j => Ahead(s[i], s[j])
Units(s) == UNION {s[i] : i \in DOMAIN s}

Due(c) == accepted[c] \ lost[c]
Pipeline(c) == wire[c] \o <<ItemUnits(hand[c])>> \o QueueUnits(q[c].lo)

\* World state is one FIFO, "World state must never be silently dropped": until a client is
\* on its way out, what it was sent, what is in the writer's hand and what is queued are
\* together every accepted update and record in the order accepted - only the frames whose
\* encode failed are missing.  After that, what it was sent is a prefix of it.
StreamExact ==
    \A c \in Clients :
        IF Accepting(c) THEN InOrder(Pipeline(c)) /\ Units(Pipeline(c)) = Due(c)
        ELSE /\ InOrder(wire[c]) /\ Units(wire[c]) \subseteq Due(c)
             /\ Ahead(Units(wire[c]), Due(c) \ Units(wire[c]))

\* "a reply with a frame missing must never be cached": a filed reply has every record of
\* its box, in order, across requeues, hi lines between its frames and encode failures.
FiledComplete ==
    \A c \in Clients : \A f \in filed[c] :
        /\ InOrder(f.frames) /\ Units(f.frames) = {x \in accepted[c] : x[1] = f.id}
        /\ f.bytes <= FillMax

\* flushOut's condition: an idle queue with nothing being written means that no item is
\* left in the writer's hand, so a kick notice really went out.
DrainedMeansSent ==
    \A c \in Clients : idle(q[c]) /\ ~writing[c] => hand[c] = NoItem

\* Nothing is queued behind a writer that has stopped, by whatever producer still holds the
\* client's ClientOut: its records would stay counted as pending.
ExitedHoldsNothing ==
    \A c \in Clients : wpc[c] = "exited" => q[c].lo = << >> /\ ~Accepting(c)

\* A relay was refused, so this client's world has diverged: it is dropped, and its thread
\* released (dropTooSlow).
MissedUpdateEndsSession == \A c \in Clients : refused[c] > 0 ~> joined[c]

\* closeOut's join returns whatever the writer was in the middle of - a blocked write, a
\* wait for an encoder slot, a queue of hi lines.
CloseTerminates == \A c \in Clients : closing[c] ~> joined[c]
=============================================================================
