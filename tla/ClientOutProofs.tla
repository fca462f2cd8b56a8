--------------------------- MODULE ClientOutProofs ---------------------------
(***************************************************************************)
(* The writer of a client and the server's encoder slots, for any clients, *)
(* limits, sizes and number of entries.                                    *)
(***************************************************************************)
EXTENDS ClientOut, FiniteSetTheorems, SequenceTheorems, WellFoundedInduction, TLAPS

-----------------------------------------------------------------------------
(* The writer. *)

WriterStages == {"top", "slot", "encode", "write", "cleanup", "exited"}
Empty == {"top", "cleanup", "exited"}
Past == {"cleanup", "exited"}

Typed ==
    /\ wpc \in [Clients -> WriterStages]
    /\ writing \in [Clients -> BOOLEAN] /\ closing \in [Clients -> BOOLEAN]
    /\ tooSlow \in [Clients -> BOOLEAN] /\ dead \in [Clients -> BOOLEAN]
    /\ q = [c \in Clients |-> q[c]] /\ hand = [c \in Clients |-> hand[c]]

\* It holds an item only between the marks of writing, and leaves its loop only once the
\* client takes nothing more.
WriterGood(c) ==
    /\ wpc[c] \in Empty => hand[c] = NoItem
    /\ ~writing[c] => wpc[c] \in Empty
    /\ wpc[c] \in Past => ~Accepting(c)
    /\ wpc[c] = "exited" => q[c].lo = << >>

WriterInv == Typed /\ \A c \in Clients : WriterGood(c)

LEMMA WriterInit == Init => WriterInv
BY DEF Init, WriterInv, Typed, WriterGood, WriterStages, Empty, Past, EmptyQueue, Accepting

\* A producer adds to the world state only while the client takes it.
LEMMA PushKeepsLo ==
    ASSUME NEW u, NEW size
    PROVE  push_hi(u, size).lo = u.lo
BY DEF push_hi

LEMMA ProducerStep ==
    ASSUME WriterInv, NEW c \in Clients, Producer(c)
    PROVE  WriterInv' /\ UNCHANGED <<wpc, inUse, elsewhere>>
<1>1. ASSUME NEW size, PushHi(c, size)
      PROVE  WriterInv' /\ UNCHANGED <<wpc, inUse, elsewhere>>
  <2> DEFINE u == push_hi(q[c], size)
  <2>1. /\ q' = [q EXCEPT ![c] = u]
        /\ UNCHANGED <<closing, tooSlow, dead, writing, hand, wpc, inUse, elsewhere>>
    BY <1>1 DEF PushHi, flags
  <2>2. u.lo = q[c].lo
    BY PushKeepsLo
  <2> HIDE DEF u
  <2> QED
    BY <2>1, <2>2 DEF WriterInv, Typed, WriterGood, Accepting
<1>2. ASSUME NEW size, PushWorld(c, size) \/ PushReply(c, size)
      PROVE  WriterInv' /\ UNCHANGED <<wpc, inUse, elsewhere>>
  BY <1>2 DEF WriterInv, Typed, WriterGood, PushWorld, PushReply, Accepting, Empty, Past, flags
<1>3. ASSUME NEW total, NEW kind, PushRegion(c, kind, total)
      PROVE  WriterInv' /\ UNCHANGED <<wpc, inUse, elsewhere>>
  BY <1>3 DEF WriterInv, Typed, WriterGood, PushRegion, Accepting, Empty, Past, flags
<1>4. ASSUME PushWorldRefused(c)
      PROVE  WriterInv' /\ UNCHANGED <<wpc, inUse, elsewhere>>
  BY <1>4 DEF WriterInv, Typed, WriterGood, PushWorldRefused, Accepting, flags, history
<1>5. ASSUME dropTooSlow(c)
      PROVE  WriterInv' /\ UNCHANGED <<wpc, inUse, elsewhere>>
  <2>1. CASE Accepting(c)
    <3>1. PICK size \in LineSizes : /\ tooSlow' = [tooSlow EXCEPT ![c] = TRUE]
                                    /\ q' = [q EXCEPT ![c] = push_hi(@, size)]
      BY <1>5, <2>1 DEF dropTooSlow
    <3> QED
      BY <1>5, <3>1, PushKeepsLo DEF WriterInv, Typed, WriterGood, dropTooSlow, Accepting, history
  <2>2. CASE ~Accepting(c)
    BY <1>5, <2>2 DEF WriterInv, Typed, WriterGood, dropTooSlow, Accepting, history
  <2> QED
    BY <2>1, <2>2
<1> QED
  BY <1>1, <1>2, <1>3, <1>4, <1>5 DEF Producer

LEMMA WriterStep ==
    ASSUME WriterInv, NEW c \in Clients, Writer(c) \/ WriteReturns(c) \/ CloseOut(c) \/ Join(c)
    PROVE  WriterInv'
<1> USE DEF WriterInv, Typed, WriterGood, WriterStages, Empty, Past, Accepting, flags, history
<1>1. CASE WriterTake(c)
  <2> DEFINE u == IF leaving(c) THEN drop_lo(q[c]) ELSE q[c]
  <2>1. /\ wpc' = [wpc EXCEPT ![c] = IF item(u).kind = "frame" THEN "slot" ELSE "write"]
        /\ writing' = [writing EXCEPT ![c] = TRUE]
        /\ q' = [q EXCEPT ![c] = rest(u)] /\ hand' = [hand EXCEPT ![c] = item(u)]
        /\ UNCHANGED flags
    BY <1>1 DEF WriterTake
  <2> HIDE DEF u
  <2> QED
    BY <2>1
<1>2. CASE WriterLeave(c)
  BY <1>2 DEF WriterLeave, leaving
<1>3. CASE AcquireSlot(c)
  BY <1>3 DEF AcquireSlot
<1>4. CASE SlotTimeout(c)
  <2> DEFINE u == requeue_front(q[c], hand[c])
  <2>1. /\ wpc' = [wpc EXCEPT ![c] = "top"] /\ writing' = [writing EXCEPT ![c] = FALSE]
        /\ q' = [q EXCEPT ![c] = u] /\ hand' = [hand EXCEPT ![c] = NoItem]
        /\ UNCHANGED flags
    BY <1>4 DEF SlotTimeout
  <2> HIDE DEF u
  <2> QED
    BY <2>1
<1>5. CASE EncodeDone(c)
  BY <1>5 DEF EncodeDone
<1>6. CASE EncodeFail(c)
  BY <1>6 DEF EncodeFail
<1>7. CASE Cleanup(c)
  BY <1>7 DEF Cleanup, drop_lo
<1>8. CASE WriteOk(c)
  BY <1>8 DEF WriteOk
<1>9. CASE WriteFail(c)
  BY <1>9 DEF WriteFail
<1>10. CASE CloseOut(c)
  BY <1>10 DEF CloseOut
<1>11. CASE Join(c)
  BY <1>11 DEF Join
<1> QED
  BY <1>1, <1>2, <1>3, <1>4, <1>5, <1>6, <1>7, <1>8, <1>9, <1>10, <1>11 DEF Writer, WriteReturns

LEMMA WriterNext == WriterInv /\ [Next]_vars => WriterInv'
<1> SUFFICES ASSUME WriterInv, [Next]_vars PROVE WriterInv'
  OBVIOUS
<1>1. ASSUME NEW c \in Clients,
             Producer(c) \/ Writer(c) \/ WriteReturns(c) \/ CloseOut(c) \/ Join(c)
      PROVE  WriterInv'
  BY <1>1, ProducerStep, WriterStep
<1>2. CASE OtherAcquires \/ OtherReleases \/ UNCHANGED vars
  BY <1>2 DEF WriterInv, Typed, WriterGood, OtherAcquires, OtherReleases, Accepting, vars, flags
<1> QED
  BY <1>1, <1>2 DEF Next

LEMMA WriterKept == Spec => []WriterInv
BY WriterInit, WriterNext, PTL DEF Spec

\* flushOut's condition is enough: an idle queue with nothing being written means that
\* nothing is in the writer's hand.
THEOREM IdleIsDrained == Spec => []DrainedMeansSent
<1>1. WriterInv => DrainedMeansSent
  BY DEF WriterInv, WriterGood, DrainedMeansSent
<1> QED
  BY <1>1, WriterKept, PTL

\* No producer adds world state behind a writer that has stopped.
THEOREM NothingBehindTheWriter == Spec => []ExitedHoldsNothing
<1>1. WriterInv => ExitedHoldsNothing
  BY DEF WriterInv, WriterGood, Past, ExitedHoldsNothing
<1> QED
  BY <1>1, WriterKept, PTL

-----------------------------------------------------------------------------
(* The encoder slots. *)

Encoding == {c \in Clients : wpc[c] = "encode"}
SlotInv == inUse \in Nat /\ elsewhere \in Nat /\ SlotsExact

LEMMA EncodingIsFinite == IsFiniteSet(Encoding) /\ Cardinality(Encoding) \in Nat
BY ClientsAssumption, FS_Subset, FS_CardinalityType DEF Encoding

LEMMA SlotInit == Init => SlotInv
<1> SUFFICES ASSUME Init PROVE SlotInv
  OBVIOUS
<1>1. Encoding = {}
  BY DEF Init, Encoding
<1>2. Cardinality(Encoding) = 0
  BY <1>1, FS_EmptySet
<1> QED
  BY <1>2, LimitsAssumption DEF Init, SlotInv, SlotsExact, Encoding

\* A writer that does not enter or leave the encoder leaves the slots alone.
LEMMA SlotsKept ==
    ASSUME SlotInv, Encoding' = Encoding, UNCHANGED <<inUse, elsewhere>>
    PROVE  SlotInv'
BY DEF SlotInv, SlotsExact, Encoding

LEMMA SlotsGiven ==
    ASSUME SlotInv, NEW c \in Clients, Encoding' = Encoding \ {c}, wpc[c] = "encode",
           inUse' = inUse - 1, elsewhere' = elsewhere
    PROVE  SlotInv'
<1>0. c \in Encoding
  BY DEF Encoding
<1>1. Cardinality(Encoding') = Cardinality(Encoding) - 1
  BY <1>0, EncodingIsFinite, FS_RemoveElement
<1>2. Cardinality(Encoding') \in Nat
  BY EncodingIsFinite, FS_RemoveElement, FS_CardinalityType
<1>3. inUse = elsewhere + Cardinality(Encoding) /\ (Encoders > 0 => inUse <= Encoders)
  BY DEF SlotInv, SlotsExact, Encoding
<1>4. inUse' = elsewhere' + Cardinality(Encoding') /\ (Encoders > 0 => inUse' <= Encoders)
  BY <1>1, <1>3, EncodingIsFinite, LimitsAssumption DEF SlotInv
<1> QED
  BY <1>2, <1>4 DEF SlotInv, SlotsExact, Encoding

LEMMA SlotStep == WriterInv /\ SlotInv /\ [Next]_vars => SlotInv'
<1> SUFFICES ASSUME WriterInv, SlotInv, [Next]_vars PROVE SlotInv'
  OBVIOUS
<1>0. wpc \in [Clients -> WriterStages]
  BY DEF WriterInv, Typed
<1>1. ASSUME NEW c \in Clients, Producer(c)
      PROVE  SlotInv'
  BY <1>1, ProducerStep, SlotsKept DEF Encoding
<1>2. ASSUME NEW c \in Clients,
             WriterTake(c) \/ WriterLeave(c) \/ SlotTimeout(c) \/ Cleanup(c) \/ WriteOk(c)
                \/ WriteFail(c) \/ CloseOut(c) \/ Join(c)
      PROVE  SlotInv'
  <2>1. UNCHANGED <<inUse, elsewhere>>
    BY <1>2 DEF WriterTake, WriterLeave, SlotTimeout, Cleanup, WriteOk, WriteFail, CloseOut, Join
  <2>2. \A d \in Clients : wpc'[d] = "encode" <=> wpc[d] = "encode"
    BY <1>0, <1>2 DEF WriterTake, WriterLeave, SlotTimeout, Cleanup, WriteOk, WriteFail, CloseOut, Join
  <2> QED
    BY <2>1, <2>2, SlotsKept DEF Encoding
<1>3. ASSUME NEW c \in Clients, AcquireSlot(c)
      PROVE  SlotInv'
  <2>1. Encoding' = Encoding \cup {c} /\ c \notin Encoding
    BY <1>0, <1>3 DEF AcquireSlot, Encoding
  <2>2. Cardinality(Encoding') = Cardinality(Encoding) + 1
    BY <2>1, EncodingIsFinite, FS_AddElement
  <2>3. inUse = elsewhere + Cardinality(Encoding) /\ (Encoders > 0 => inUse <= Encoders)
    BY DEF SlotInv, SlotsExact, Encoding
  <2>4. inUse' = elsewhere' + Cardinality(Encoding') /\ (Encoders > 0 => inUse' <= Encoders)
    BY <1>3, <2>2, <2>3, EncodingIsFinite, LimitsAssumption DEF SlotInv, AcquireSlot, SlotFree
  <2>5. inUse' \in Nat /\ elsewhere' \in Nat
    BY <1>3 DEF SlotInv, AcquireSlot
  <2> QED
    BY <2>4, <2>5 DEF SlotInv, SlotsExact, Encoding
<1>4. ASSUME NEW c \in Clients, EncodeDone(c) \/ EncodeFail(c)
      PROVE  SlotInv'
  <2>1. Encoding' = Encoding \ {c} /\ wpc[c] = "encode"
    BY <1>0, <1>4 DEF EncodeDone, EncodeFail, Encoding
  <2>2. inUse' = inUse - 1 /\ elsewhere' = elsewhere
    BY <1>4 DEF EncodeDone, EncodeFail
  <2> QED
    BY <2>1, <2>2, SlotsGiven
<1>5. CASE OtherAcquires
  <2>1. Encoding' = Encoding
    BY <1>5 DEF OtherAcquires, Encoding
  <2>2. inUse = elsewhere + Cardinality(Encoding) /\ (Encoders > 0 => inUse <= Encoders)
    BY DEF SlotInv, SlotsExact, Encoding
  <2>3. /\ inUse' = elsewhere' + Cardinality(Encoding') /\ (Encoders > 0 => inUse' <= Encoders)
        /\ inUse' \in Nat /\ elsewhere' \in Nat
    BY <1>5, <2>1, <2>2, EncodingIsFinite, LimitsAssumption DEF SlotInv, OtherAcquires, SlotFree
  <2> QED
    BY <2>3 DEF SlotInv, SlotsExact, Encoding
<1>6. CASE OtherReleases
  <2>1. Encoding' = Encoding
    BY <1>6 DEF OtherReleases, Encoding
  <2>2. inUse = elsewhere + Cardinality(Encoding) /\ (Encoders > 0 => inUse <= Encoders)
    BY DEF SlotInv, SlotsExact, Encoding
  <2>3. /\ inUse' = elsewhere' + Cardinality(Encoding') /\ (Encoders > 0 => inUse' <= Encoders)
        /\ inUse' \in Nat /\ elsewhere' \in Nat
    BY <1>6, <2>1, <2>2, EncodingIsFinite, LimitsAssumption DEF SlotInv, OtherReleases
  <2> QED
    BY <2>3 DEF SlotInv, SlotsExact, Encoding
<1>7. CASE UNCHANGED vars
  BY <1>7, SlotsKept DEF vars, Encoding
<1> QED
  BY <1>1, <1>2, <1>3, <1>4, <1>5, <1>6, <1>7 DEF Next, Writer, WriteReturns

\* Every encoder slot in use is a writer's that is encoding, or another client's, and
\* --region-encoders is never passed, on every way out of an encode.
THEOREM SlotsAreExact == Spec => []SlotsExact
<1>1. SlotInv => SlotsExact
  BY DEF SlotInv
<1> QED
  BY <1>1, WriterKept, SlotInit, SlotStep, PTL DEF Spec

-----------------------------------------------------------------------------
(* Replies in the queue. *)

Jobs(lo) == {i \in DOMAIN lo : lo[i].kind # "blob"}
Sent(s) == s.kind # "blob" => s.cursor <= s.total
IsJob(s) == IF s.kind = "blob" THEN 0 ELSE 1

LEMMA JobsAreFinite ==
    ASSUME NEW lo \in Seq(LoEntries)
    PROVE  /\ DOMAIN lo = 1..Len(lo) /\ Len(lo) \in Nat
           /\ IsFiniteSet(Jobs(lo)) /\ Cardinality(Jobs(lo)) \in Nat
<1>1. DOMAIN lo = 1..Len(lo) /\ Len(lo) \in Nat
  OBVIOUS
<1>2. IsFiniteSet(1..Len(lo))
  BY <1>1, FS_Interval
<1>3. Jobs(lo) \in SUBSET (1..Len(lo))
  BY <1>1 DEF Jobs
<1> QED
  BY <1>1, <1>2, <1>3, FS_Subset, FS_CardinalityType

LEMMA JobsOfAppend ==
    ASSUME NEW lo \in Seq(LoEntries), NEW s \in LoEntries
    PROVE  Cardinality(Jobs(Append(lo, s))) = Cardinality(Jobs(lo)) + IsJob(s)
<1> DEFINE n == Len(lo) + 1
<1>1. /\ DOMAIN Append(lo, s) = 1..n /\ Append(lo, s)[n] = s
      /\ \A i \in 1..Len(lo) : Append(lo, s)[i] = lo[i]
  OBVIOUS
<1>2. DOMAIN lo = 1..Len(lo) /\ Len(lo) \in Nat /\ IsFiniteSet(Jobs(lo)) /\ Cardinality(Jobs(lo)) \in Nat
  BY JobsAreFinite
<1>3. n \notin Jobs(lo)
  BY <1>2 DEF Jobs
<1>4. CASE s.kind = "blob"
  <2>1. Jobs(Append(lo, s)) = Jobs(lo)
    BY <1>1, <1>2, <1>4 DEF Jobs
  <2> QED
    BY <1>2, <1>4, <2>1 DEF IsJob
<1>5. CASE s.kind # "blob"
  <2>1. Jobs(Append(lo, s)) = Jobs(lo) \cup {n}
    BY <1>1, <1>2, <1>5 DEF Jobs
  <2> QED
    BY <1>2, <1>3, <1>5, <2>1, FS_AddElement DEF IsJob
<1> QED
  BY <1>4, <1>5

LEMMA JobsOfTail ==
    ASSUME NEW lo \in Seq(LoEntries), lo # << >>
    PROVE  Cardinality(Jobs(Tail(lo))) + IsJob(Head(lo)) = Cardinality(Jobs(lo))
<1> DEFINE rest1 == Jobs(lo) \ {1}
           shift == [i \in rest1 |-> i - 1]
<1>1. /\ Tail(lo) \in Seq(LoEntries) /\ DOMAIN Tail(lo) = 1..(Len(lo) - 1)
      /\ \A i \in 1..(Len(lo) - 1) : Tail(lo)[i] = lo[i + 1]
      /\ Head(lo) = lo[1] /\ Len(lo) >= 1
  OBVIOUS
<1>2. DOMAIN lo = 1..Len(lo) /\ Len(lo) \in Nat /\ IsFiniteSet(Jobs(lo)) /\ Cardinality(Jobs(lo)) \in Nat
  BY JobsAreFinite
<1>3. IsFiniteSet(rest1)
  BY <1>2, FS_RemoveElement
<1>4. shift \in Bijection(rest1, Jobs(Tail(lo)))
  <2>1. \A i \in rest1 : i \in 2..Len(lo) /\ i - 1 \in Jobs(Tail(lo))
    BY <1>1, <1>2 DEF Jobs
  <2>2. shift \in [rest1 -> Jobs(Tail(lo))]
    BY <2>1
  <2>3. \A i, j \in rest1 : shift[i] = shift[j] => i = j
    BY <2>1
  <2>4. \A k \in Jobs(Tail(lo)) : k + 1 \in rest1 /\ shift[k + 1] = k
    BY <1>1, <1>2 DEF Jobs
  <2>5. \A k \in Jobs(Tail(lo)) : \E i \in rest1 : shift[i] = k
    BY <2>4
  <2> HIDE DEF shift, rest1
  <2>6. shift \in Injection(rest1, Jobs(Tail(lo)))
    BY <2>2, <2>3 DEF Injection, IsInjective
  <2>7. shift \in Surjection(rest1, Jobs(Tail(lo)))
    BY <2>2, <2>5 DEF Surjection
  <2> QED
    BY <2>6, <2>7 DEF Bijection
<1>5. Cardinality(Jobs(Tail(lo))) = Cardinality(rest1)
  <2> HIDE DEF shift, rest1
  <2> QED
    BY <1>3, <1>4, FS_Bijection DEF ExistsBijection
<1>6. Cardinality(rest1) = IF 1 \in Jobs(lo) THEN Cardinality(Jobs(lo)) - 1 ELSE Cardinality(Jobs(lo))
  BY <1>2, FS_RemoveElement
<1>7. 1 \in Jobs(lo) <=> Head(lo).kind # "blob"
  BY <1>1, <1>2 DEF Jobs
<1> QED
  BY <1>2, <1>5, <1>6, <1>7 DEF IsJob

\* A job put in front, and a job whose cursor moves.
LEMMA JobsOfCons ==
    ASSUME NEW lo \in Seq(LoEntries), NEW s \in LoEntries
    PROVE  /\ <<s>> \o lo \in Seq(LoEntries)
           /\ Cardinality(Jobs(<<s>> \o lo)) = Cardinality(Jobs(lo)) + IsJob(s)
<1> DEFINE new == <<s>> \o lo
<1>1. <<s>> \in Seq(LoEntries) /\ Len(<<s>>) = 1 /\ <<s>>[1] = s
  OBVIOUS
<1>2. new \in Seq(LoEntries) /\ Len(new) = 1 + Len(lo) /\ new[1] = s
  BY <1>1, ConcatProperties
<1>3. \A i \in 1..Len(lo) : new[i + 1] = lo[i]
  BY <1>1, ConcatProperties
<1> HIDE DEF new
<1>4. new # << >> /\ Head(new) = s /\ Tail(new) \in Seq(LoEntries) /\ Len(Tail(new)) = Len(lo)
  BY <1>2
<1>5. \A i \in 1..Len(lo) : Tail(new)[i] = lo[i]
  BY <1>2, <1>3
<1>6. Tail(new) = lo
  BY <1>4, <1>5, SeqEqual
<1>7. Cardinality(Jobs(lo)) + IsJob(s) = Cardinality(Jobs(new))
  BY <1>2, <1>4, <1>6, JobsOfTail
<1> QED
  BY <1>2, <1>7 DEF new

Rewound(lo, k) == [lo EXCEPT ![1].cursor = k]

LEMMA JobsOfRewound ==
    ASSUME NEW lo \in Seq(LoEntries), lo # << >> => lo[1].kind # "blob", NEW k \in Nat
    PROVE  /\ Rewound(lo, k) \in Seq(LoEntries) /\ Len(Rewound(lo, k)) = Len(lo)
           /\ Jobs(Rewound(lo, k)) = Jobs(lo)
           /\ \A i \in 2..Len(lo) : Rewound(lo, k)[i] = lo[i]
           /\ lo # << >> => Rewound(lo, k)[1] = [lo[1] EXCEPT !.cursor = k]
<1>1. CASE lo = << >>
  <2>1. Rewound(lo, k) = lo
    BY <1>1 DEF Rewound
  <2> QED
    BY <1>1, <2>1
<1>2. CASE lo # << >>
  <2> DEFINE s == [lo[1] EXCEPT !.cursor = k]
  <2>1. lo[1] \in [kind : {"job", "cached"}, id : Nat, total : Nat, cursor : Nat]
    BY <1>2 DEF LoEntries
  <2>2. s \in LoEntries /\ s.kind = lo[1].kind
    BY <2>1 DEF LoEntries
  <2>3. Rewound(lo, k) = [lo EXCEPT ![1] = s]
    BY DEF Rewound
  <2> HIDE DEF s
  <2>4. [lo EXCEPT ![1] = s] \in Seq(LoEntries) /\ Len([lo EXCEPT ![1] = s]) = Len(lo)
    BY <1>2, <2>2, ExceptSeq
  <2>5. DOMAIN [lo EXCEPT ![1] = s] = DOMAIN lo
    OBVIOUS
  <2>6. \A i \in DOMAIN lo : [lo EXCEPT ![1] = s][i] = IF i = 1 THEN s ELSE lo[i]
    OBVIOUS
  <2>7. Jobs([lo EXCEPT ![1] = s]) = Jobs(lo)
    BY <2>2, <2>5, <2>6 DEF Jobs
  <2>8. DOMAIN lo = 1..Len(lo) /\ Len(lo) \in Nat /\ Len(lo) >= 1
    BY <1>2
  <2> QED
    BY <2>3, <2>4, <2>6, <2>7, <2>8 DEF s
<1> QED
  BY <1>1, <1>2

-----------------------------------------------------------------------------
(* The operations of OutQueue. *)

Shaped(u) ==
    u \in [hi : {u.hi}, lo : {u.lo}, hiBytes : {u.hiBytes}, loBytes : {u.loBytes}, regionJobs : {u.regionJobs}]
QueueGood(u) ==
    /\ Shaped(u) /\ u.lo \in Seq(LoEntries)
    /\ \A i \in 1..Len(u.lo) : Sent(u.lo[i])
    /\ u.regionJobs = Cardinality(Jobs(u.lo))

Frames == [kind : {"frame"}, id : Nat, total : Nat, off : Nat, count : Nat, first : BOOLEAN, last : BOOLEAN]

LEMMA HiOnly ==
    ASSUME NEW u, QueueGood(u), NEW size
    PROVE  QueueGood(push_hi(u, size)) /\ push_hi(u, size).regionJobs = u.regionJobs
<1> DEFINE v == push_hi(u, size)
<1>1. Shaped(v) /\ v.lo = u.lo /\ v.regionJobs = u.regionJobs
  BY DEF push_hi, QueueGood, Shaped
<1> QED
  BY <1>1 DEF QueueGood

LEMMA Pushed ==
    ASSUME NEW u, QueueGood(u), NEW s \in LoEntries, Sent(s), NEW v, Shaped(v),
           v.lo = Append(u.lo, s), v.regionJobs = u.regionJobs + IsJob(s)
    PROVE  QueueGood(v)
<1>1. v.lo \in Seq(LoEntries) /\ Cardinality(Jobs(v.lo)) = u.regionJobs + IsJob(s)
  BY JobsOfAppend DEF QueueGood
<1>2. /\ Len(v.lo) = Len(u.lo) + 1 /\ v.lo[Len(u.lo) + 1] = s
      /\ \A i \in 1..Len(u.lo) : v.lo[i] = u.lo[i]
  BY DEF QueueGood
<1>3. \A i \in 1..Len(v.lo) : Sent(v.lo[i])
  <2>1. Len(u.lo) \in Nat
    BY DEF QueueGood
  <2> TAKE i \in 1..Len(v.lo)
  <2>2. i \in 1..Len(u.lo) \/ i = Len(u.lo) + 1
    BY <1>2, <2>1
  <2> QED
    BY <1>2, <2>2 DEF QueueGood
<1> QED
  BY <1>1, <1>3 DEF QueueGood

LEMMA Blobs ==
    ASSUME NEW u, QueueGood(u), NEW n \in Nat, NEW size \in Nat
    PROVE  QueueGood(push_blob(u, n, size)) /\ push_blob(u, n, size).regionJobs = u.regionJobs
<1> DEFINE s == Blob(n, size)
           v == push_blob(u, n, size)
<1>1. s \in LoEntries /\ Sent(s) /\ IsJob(s) = 0
  BY DEF Blob, LoEntries, Sent, IsJob
<1>2. Shaped(v) /\ v.lo = Append(u.lo, s) /\ v.regionJobs = u.regionJobs
  BY DEF push_blob, QueueGood, Shaped
<1>3. u.regionJobs \in Nat
  BY JobsAreFinite DEF QueueGood
<1> HIDE DEF s, v
<1>4. QueueGood(v)
  BY <1>1, <1>2, <1>3, Pushed
<1> QED
  BY <1>2, <1>4 DEF v

LEMMA Replies ==
    ASSUME NEW u, QueueGood(u), NEW n \in Nat, NEW total \in Nat, NEW kind \in {"job", "cached"}
    PROVE  /\ QueueGood(push_job(u, kind, n, total))
           /\ push_job(u, kind, n, total).regionJobs = u.regionJobs + 1
<1> DEFINE s == Reply(kind, n, total)
           v == push_job(u, kind, n, total)
<1>1. s \in LoEntries /\ Sent(s) /\ IsJob(s) = 1
  BY DEF Reply, LoEntries, Sent, IsJob
<1>2. Shaped(v) /\ v.lo = Append(u.lo, s) /\ v.regionJobs = u.regionJobs + 1
  BY DEF push_job, QueueGood, Shaped
<1> HIDE DEF s, v
<1>4. QueueGood(v)
  BY <1>1, <1>2, Pushed
<1> QED
  BY <1>2, <1>4 DEF v

LEMMA Dropped ==
    ASSUME NEW u, QueueGood(u)
    PROVE  QueueGood(drop_lo(u)) /\ drop_lo(u).regionJobs = 0
<1> DEFINE v == drop_lo(u)
<1>1. Shaped(v) /\ v.lo = << >> /\ v.regionJobs = 0
  BY DEF drop_lo, QueueGood, Shaped
<1>2. Jobs(v.lo) = {} /\ Cardinality({}) = 0
  BY <1>1, FS_EmptySet DEF Jobs
<1> HIDE DEF v
<1>3. QueueGood(v)
  BY <1>1, <1>2 DEF QueueGood
<1> QED
  BY <1>1, <1>3 DEF v

\* The head of the queue goes.
LEMMA Shorter ==
    ASSUME NEW u, QueueGood(u), u.lo # << >>, NEW v, Shaped(v), v.lo = Tail(u.lo),
           v.regionJobs = u.regionJobs - IsJob(Head(u.lo))
    PROVE  QueueGood(v)
<1>1. /\ v.lo \in Seq(LoEntries)
      /\ Cardinality(Jobs(v.lo)) + IsJob(Head(u.lo)) = u.regionJobs
  BY JobsOfTail DEF QueueGood
<1>2. Cardinality(Jobs(v.lo)) \in Nat
  BY <1>1, JobsAreFinite
<1>3. v.regionJobs = Cardinality(Jobs(v.lo))
  BY <1>1, <1>2 DEF IsJob
<1>4. Len(v.lo) = Len(u.lo) - 1 /\ \A i \in 1..Len(v.lo) : v.lo[i] = u.lo[i + 1] /\ i + 1 \in 1..Len(u.lo)
  BY DEF QueueGood
<1> QED
  BY <1>1, <1>3, <1>4 DEF QueueGood

\* The job at the head moves its cursor.
LEMMA Moved ==
    ASSUME NEW u, QueueGood(u), u.lo # << >> => u.lo[1].kind # "blob",
           NEW k \in Nat, u.lo # << >> => k <= u.lo[1].total, NEW v, Shaped(v),
           v.lo = Rewound(u.lo, k), v.regionJobs = u.regionJobs
    PROVE  QueueGood(v)
<1>1. /\ v.lo \in Seq(LoEntries) /\ Len(v.lo) = Len(u.lo) /\ Jobs(v.lo) = Jobs(u.lo)
      /\ \A i \in 2..Len(u.lo) : v.lo[i] = u.lo[i]
      /\ u.lo # << >> => v.lo[1] = [u.lo[1] EXCEPT !.cursor = k]
  BY JobsOfRewound DEF QueueGood
<1>2. CASE u.lo = << >>
  BY <1>1, <1>2 DEF QueueGood
<1>3. CASE u.lo # << >>
  <2>1. u.lo[1] \in [kind : {"job", "cached"}, id : Nat, total : Nat, cursor : Nat]
    BY <1>3 DEF LoEntries, QueueGood
  <2>2. Sent(v.lo[1])
    BY <1>1, <1>3, <2>1 DEF Sent
  <2>3. \A i \in 1..Len(u.lo) : i = 1 \/ i \in 2..Len(u.lo)
    BY DEF QueueGood
  <2> QED
    BY <1>1, <2>2, <2>3 DEF QueueGood
<1> QED
  BY <1>2, <1>3

\* take(): a frame in hand is of the job it came from, which leaves with its last one.
LEMMA Taken ==
    ASSUME NEW u, QueueGood(u), ~idle(u)
    PROVE  /\ QueueGood(rest(u)) /\ rest(u).regionJobs <= u.regionJobs
           /\ item(u).kind = "frame" =>
                 /\ item(u) \in Frames /\ item(u).off <= item(u).total
                 /\ item(u).last => rest(u).regionJobs = u.regionJobs - 1
                 /\ ~item(u).last => /\ rest(u).lo # << >>
                                     /\ rest(u).lo[1].kind # "blob"
                                     /\ rest(u).lo[1].total = item(u).total
<1> DEFINE v == rest(u)
<1>0. u.regionJobs \in Nat /\ u.lo \in Seq(LoEntries)
  BY JobsAreFinite DEF QueueGood
<1>1. CASE u.hi # << >>
  <2>1. Shaped(v) /\ v.lo = u.lo /\ v.regionJobs = u.regionJobs
    BY <1>1 DEF rest, QueueGood, Shaped
  <2>2. item(u).kind = "line"
    BY <1>1 DEF item
  <2> HIDE DEF v
  <2>3. QueueGood(v)
    BY <2>1 DEF QueueGood
  <2> QED
    BY <1>0, <2>1, <2>2, <2>3 DEF v
<1>2. CASE u.hi = << >> /\ Head(u.lo).kind = "blob"
  <2>1. u.lo # << >>
    BY <1>2 DEF idle
  <2>2. Shaped(v) /\ v.lo = Tail(u.lo) /\ v.regionJobs = u.regionJobs
    BY <1>2, <2>1 DEF rest, QueueGood, Shaped
  <2>3. item(u).kind = "blob"
    BY <1>2 DEF item
  <2> HIDE DEF v
  <2>4. QueueGood(v)
    BY <1>0, <1>2, <2>1, <2>2, Shorter DEF IsJob
  <2> QED
    BY <1>0, <2>2, <2>3, <2>4 DEF v
<1>3. CASE u.hi = << >> /\ Head(u.lo).kind # "blob"
  <2> DEFINE s == Head(u.lo)
             f == Frame(s)
  <2>1. u.lo # << >> /\ s = u.lo[1] /\ 1 \in 1..Len(u.lo)
    BY <1>0, <1>3 DEF idle
  <2>2. /\ s \in [kind : {"job", "cached"}, id : Nat, total : Nat, cursor : Nat]
        /\ s.cursor <= s.total
    BY <1>0, <1>3, <2>1 DEF LoEntries, QueueGood, Sent
  <2>3. /\ f.count \in Nat /\ s.cursor + f.count <= s.total /\ f.total = s.total
        /\ f.off = s.cursor /\ f.last \in BOOLEAN
    BY <2>2, LimitsAssumption DEF Frame
  <2>4. item(u) = f
    BY <1>3 DEF item
  <2>5. f.kind = "frame" => f \in Frames
    BY <2>2, <2>3 DEF Frame, Frames
  <2>6. u.regionJobs >= 1
    <3>1. Cardinality(Jobs(Tail(u.lo))) + IsJob(s) = u.regionJobs
      BY <1>0, <2>1, JobsOfTail DEF QueueGood
    <3>2. Tail(u.lo) \in Seq(LoEntries)
      BY <1>0, <2>1
    <3>3. Cardinality(Jobs(Tail(u.lo))) \in Nat
      BY <3>2, JobsAreFinite
    <3> QED
      BY <1>3, <3>1, <3>3 DEF IsJob
  <2>7. CASE f.last
    <3>0. v = pop_region(u)
      BY <1>3, <2>7 DEF rest
    <3>1. Shaped(v) /\ v.lo = Tail(u.lo) /\ v.regionJobs = u.regionJobs - 1
      <4> HIDE DEF v, f, s
      <4>1. u \in [hi : {u.hi}, lo : {u.lo}, hiBytes : {u.hiBytes}, loBytes : {u.loBytes}, regionJobs : Nat]
        BY <1>0 DEF QueueGood, Shaped
      <4>0. (IF u.regionJobs = 0 THEN 0 ELSE u.regionJobs - 1) = u.regionJobs - 1
        BY <2>6
      <4>2. pop_region(u) = [u EXCEPT !.lo = Tail(u.lo), !.regionJobs = u.regionJobs - 1]
        BY <4>0, <4>1, Zenon DEF pop_region
      <4> QED
        BY <3>0, <4>1, <4>2 DEF Shaped
    <3> HIDE DEF v, f
    <3>2. QueueGood(v)
      BY <1>3, <2>1, <3>1, Shorter DEF IsJob
    <3> QED
      BY <1>0, <2>2, <2>3, <2>4, <2>5, <2>7, <3>1, <3>2 DEF v
  <2>8. CASE ~f.last
    <3> DEFINE k == s.cursor + f.count
    <3>1. Shaped(v) /\ v.lo = Rewound(u.lo, k) /\ v.regionJobs = u.regionJobs
      BY <1>3, <2>1, <2>8 DEF rest, QueueGood, Shaped, Rewound
    <3>2. k \in Nat /\ k <= s.total
      BY <2>2, <2>3
    <3> HIDE DEF v, f, k, s
    <3>3. QueueGood(v)
      BY <1>3, <2>1, <3>1, <3>2, Moved DEF s
    <3>4. v.lo # << >> /\ v.lo[1] = [u.lo[1] EXCEPT !.cursor = k]
      BY <1>0, <1>3, <2>1, <3>1, <3>2, JobsOfRewound DEF s
    <3>5. v.lo[1].kind # "blob" /\ v.lo[1].total = s.total
      BY <1>3, <2>1, <2>2, <3>4 DEF s
    <3> QED
      BY <1>0, <2>2, <2>3, <2>4, <2>5, <2>8, <3>1, <3>3, <3>4, <3>5 DEF v
  <2> QED
    BY <2>3, <2>7, <2>8
<1> QED
  BY <1>1, <1>2, <1>3

LEMMA Requeued ==
    ASSUME NEW u, QueueGood(u), NEW it \in Frames, it.off <= it.total,
           ~it.last => (u.lo # << >> => u.lo[1].kind # "blob" /\ u.lo[1].total = it.total)
    PROVE  /\ QueueGood(requeue_front(u, it))
           /\ requeue_front(u, it).regionJobs = u.regionJobs + (IF it.last THEN 1 ELSE 0)
<1> DEFINE v == requeue_front(u, it)
<1>0. u.regionJobs \in Nat /\ u.lo \in Seq(LoEntries) /\ it.off \in Nat /\ it.last \in BOOLEAN
  BY JobsAreFinite DEF QueueGood, Frames
<1>1. CASE ~it.last
  <2>1. Shaped(v) /\ v.lo = Rewound(u.lo, it.off) /\ v.regionJobs = u.regionJobs
    BY <1>1 DEF requeue_front, QueueGood, Shaped, Rewound
  <2> HIDE DEF v
  <2>2. QueueGood(v)
    BY <1>0, <1>1, <2>1, Moved
  <2> QED
    BY <1>0, <1>1, <2>1, <2>2 DEF v
<1>2. CASE it.last
  <2> DEFINE s == [kind |-> "job", id |-> it.id, total |-> it.total, cursor |-> it.off]
  <2>1. s \in LoEntries /\ Sent(s) /\ IsJob(s) = 1
    BY DEF Frames, LoEntries, Sent, IsJob
  <2>2. Shaped(v) /\ v.lo = <<s>> \o u.lo /\ v.regionJobs = u.regionJobs + 1
    BY <1>2 DEF requeue_front, QueueGood, Shaped
  <2> HIDE DEF v, s
  <2>3. v.lo \in Seq(LoEntries) /\ Cardinality(Jobs(v.lo)) = Cardinality(Jobs(u.lo)) + 1
    BY <1>0, <2>1, <2>2, JobsOfCons
  <2>4. /\ Len(<<s>>) = 1 /\ <<s>>[1] = s /\ <<s>> \in Seq(LoEntries)
        /\ Len(v.lo) = 1 + Len(u.lo)
    BY <1>0, <2>1, <2>2, ConcatProperties
  <2>5. \A i \in 1..Len(v.lo) : v.lo[i] = IF i <= 1 THEN s ELSE u.lo[i - 1]
    <3> TAKE i \in 1..Len(v.lo)
    <3>1. v.lo[i] = IF i <= Len(<<s>>) THEN <<s>>[i] ELSE u.lo[i - Len(<<s>>)]
      BY <1>0, <2>1, <2>2, <2>4, ConcatProperties
    <3>2. Len(u.lo) \in Nat
      BY <1>0
    <3>3. i <= 1 => i = 1
      BY <2>4, <3>2
    <3> QED
      BY <2>4, <3>1, <3>3
  <2>6. \A i \in 1..Len(v.lo) : Sent(v.lo[i])
    <3> TAKE i \in 1..Len(v.lo)
    <3>1. i <= 1 \/ i - 1 \in 1..Len(u.lo)
      BY <1>0, <2>4
    <3> QED
      BY <2>1, <2>5, <3>1 DEF QueueGood
  <2>7. QueueGood(v)
    BY <2>2, <2>3, <2>6 DEF QueueGood
  <2> QED
    BY <1>2, <2>2, <2>7 DEF v
<1> QED
  BY <1>0, <1>1, <1>2

-----------------------------------------------------------------------------
(* Replies are counted, and at most one is over the limit. *)

InSlot(c) == wpc[c] = "slot"
AtHead(u, it) == u.lo # << >> /\ u.lo[1].kind # "blob" /\ u.lo[1].total = it.total

\* A frame that waits for a slot is of the job at the head, or was its last; that job is
\* the one that may come back to a full queue.
JobsGood(c) ==
    /\ QueueGood(q[c]) /\ entries[c] \in Nat
    /\ q[c].regionJobs <= MaxRegionJobs + 1
    /\ InSlot(c) =>
          /\ hand[c] \in Frames /\ hand[c].off <= hand[c].total
          /\ hand[c].last => q[c].regionJobs <= MaxRegionJobs
          /\ ~hand[c].last => AtHead(q[c], hand[c])
JobsInv == entries = [c \in Clients |-> entries[c]] /\ \A c \in Clients : JobsGood(c)

LEMMA JobsInit == Init => JobsInv
<1> SUFFICES ASSUME Init PROVE JobsInv
  OBVIOUS
<1>1. Jobs(<< >>) = {} /\ Cardinality({}) = 0
  BY FS_EmptySet DEF Jobs
<1>2. QueueGood(EmptyQueue)
  <2>1. Shaped(EmptyQueue) /\ EmptyQueue.lo = << >> /\ EmptyQueue.regionJobs = 0
    BY DEF Shaped, EmptyQueue
  <2>2. << >> \in Seq(LoEntries)
    BY EmptySeq
  <2>3. Len(<< >>) = 0 /\ 1..0 = {}
    OBVIOUS
  <2>4. EmptyQueue.lo \in Seq(LoEntries) /\ Len(EmptyQueue.lo) = 0
    BY <2>1, <2>2, <2>3
  <2>5. EmptyQueue.regionJobs = Cardinality(Jobs(EmptyQueue.lo))
    BY <1>1, <2>1
  <2> HIDE DEF EmptyQueue
  <2> QED
    BY <2>1, <2>3, <2>4, <2>5 DEF QueueGood
<1> QED
  BY <1>2, LimitsAssumption DEF Init, JobsInv, JobsGood, InSlot, EmptyQueue

\* A step of one client's queue, or of none.
LEMMA JobsElsewhere ==
    ASSUME JobsInv, WriterInv, NEW c \in Clients, JobsGood(c)',
           \A d \in Clients \ {c} : UNCHANGED <<q[d], entries[d], hand[d], wpc[d]>>,
           entries' = [d \in Clients |-> entries'[d]]
    PROVE  JobsInv'
BY DEF JobsInv, JobsGood, InSlot

LEMMA NextIdIsNat ==
    ASSUME JobsInv, NEW c \in Clients
    PROVE  NextId(c) \in Nat
BY DEF JobsInv, JobsGood, NextId

LEMMA EntriesTyped ==
    ASSUME JobsInv, NEW c \in Clients, NEW s, Accept(c, s)
    PROVE  /\ entries'[c] \in Nat
           /\ entries' = [d \in Clients |-> entries'[d]]
           /\ \A d \in Clients \ {c} : entries'[d] = entries[d]
BY DEF Accept, JobsInv, JobsGood

\* Something added behind the head leaves the head alone.
LEMMA HeadStays ==
    ASSUME NEW u, QueueGood(u), NEW s \in LoEntries, NEW it, AtHead(u, it), NEW v, v.lo = Append(u.lo, s)
    PROVE  AtHead(v, it)
<1>1. u.lo \in Seq(LoEntries) /\ u.lo # << >>
  BY DEF QueueGood, AtHead
<1>2. v.lo # << >> /\ v.lo[1] = u.lo[1]
  BY <1>1
<1> QED
  BY <1>2 DEF AtHead

LEMMA ProducerJobs ==
    ASSUME JobsInv, WriterInv, NEW c \in Clients, Producer(c)
    PROVE  JobsInv'
<1>0. /\ QueueGood(q[c]) /\ q[c].regionJobs \in Nat /\ NextId(c) \in Nat
      /\ q = [d \in Clients |-> q[d]] /\ entries = [d \in Clients |-> entries[d]]
  BY NextIdIsNat, JobsAreFinite DEF JobsInv, JobsGood, WriterInv, Typed, QueueGood
<1>1. ASSUME NEW size, q' = [q EXCEPT ![c] = push_hi(@, size)], UNCHANGED <<entries, hand, wpc>>
      PROVE  JobsInv'
  <2>1. QueueGood(q'[c]) /\ q'[c].regionJobs = q[c].regionJobs /\ q'[c].lo = q[c].lo
    BY <1>0, <1>1, HiOnly, PushKeepsLo
  <2>2. JobsGood(c)'
    BY <1>1, <2>1 DEF JobsInv, JobsGood, InSlot, AtHead
  <2> QED
    BY <1>0, <1>1, <2>2, JobsElsewhere
<1>2. ASSUME NEW size \in BlobSizes, PushWorld(c, size) \/ PushReply(c, size)
      PROVE  JobsInv'
  <2> DEFINE n == NextId(c)
             s == Blob(n, size)
  <2>1. /\ q' = [q EXCEPT ![c] = push_blob(@, n, size)] /\ Accept(c, s)
        /\ UNCHANGED <<hand, wpc>>
    BY <1>2 DEF PushWorld, PushReply
  <2>2. size \in Nat /\ s \in LoEntries /\ s.kind = "blob"
    BY <1>0, SizesAssumption DEF Blob, LoEntries
  <2>3. q'[c] = push_blob(q[c], n, size)
    BY <1>0, <2>1
  <2>0. n \in Nat
    BY <1>0
  <2> HIDE DEF n, s
  <2>4. QueueGood(q'[c]) /\ q'[c].regionJobs = q[c].regionJobs
    <3>1. QueueGood(push_blob(q[c], n, size)) /\ push_blob(q[c], n, size).regionJobs = q[c].regionJobs
      BY <1>0, <2>0, <2>2, Blobs
    <3> QED
      BY <2>3, <3>1
  <2>5. q'[c].lo = Append(q[c].lo, s)
    BY <1>0, <2>3 DEF push_blob, s, QueueGood, Shaped
  <2>6. /\ entries'[c] \in Nat /\ entries' = [d \in Clients |-> entries'[d]]
        /\ \A d \in Clients \ {c} : entries'[d] = entries[d]
    BY <2>1, <2>2, EntriesTyped
  <2>7. AtHead(q[c], hand[c]) => AtHead(q'[c], hand[c])
    BY <1>0, <2>2, <2>5, HeadStays
  <2>8. JobsGood(c)'
    BY <2>1, <2>4, <2>6, <2>7 DEF JobsInv, JobsGood, InSlot
  <2> QED
    BY <1>0, <2>1, <2>6, <2>8, JobsElsewhere
<1>3. ASSUME NEW total \in Totals, NEW kind \in {"job", "cached"}, PushRegion(c, kind, total)
      PROVE  JobsInv'
  <2> DEFINE n == NextId(c)
             s == Reply(kind, n, total)
  <2>1. /\ q' = [q EXCEPT ![c] = push_job(@, kind, n, total)] /\ Accept(c, s)
        /\ UNCHANGED <<hand, wpc>> /\ q[c].regionJobs < MaxRegionJobs
    BY <1>3 DEF PushRegion
  <2>2. total \in Nat /\ s \in LoEntries /\ s.cursor = 0
    BY <1>0, SizesAssumption DEF Reply, LoEntries
  <2>3. q'[c] = push_job(q[c], kind, n, total)
    BY <1>0, <2>1
  <2>0. n \in Nat
    BY <1>0
  <2> HIDE DEF n, s
  <2>4. QueueGood(q'[c]) /\ q'[c].regionJobs = q[c].regionJobs + 1
    <3>1. /\ QueueGood(push_job(q[c], kind, n, total))
          /\ push_job(q[c], kind, n, total).regionJobs = q[c].regionJobs + 1
      <4>1. QueueGood(q[c]) /\ total \in Nat /\ kind \in {"job", "cached"}
        BY <1>0, <2>2
      <4> QED
        BY <2>0, <4>1, Replies, Zenon
    <3> QED
      BY <2>3, <3>1
  <2>5. q'[c].lo = Append(q[c].lo, s)
    BY <1>0, <2>3 DEF push_job, s, QueueGood, Shaped
  <2>6. /\ entries'[c] \in Nat /\ entries' = [d \in Clients |-> entries'[d]]
        /\ \A d \in Clients \ {c} : entries'[d] = entries[d]
    BY <2>1, <2>2, EntriesTyped
  <2>7. AtHead(q[c], hand[c]) => AtHead(q'[c], hand[c])
    BY <1>0, <2>2, <2>5, HeadStays
  <2>8. q'[c].regionJobs <= MaxRegionJobs
    BY <1>0, <2>1, <2>4, LimitsAssumption
  <2>9. JobsGood(c)'
    BY <1>0, <2>1, <2>4, <2>6, <2>7, <2>8, LimitsAssumption DEF JobsInv, JobsGood, InSlot
  <2> QED
    BY <1>0, <2>1, <2>6, <2>9, JobsElsewhere
<1>4. CASE UNCHANGED <<q, entries, hand, wpc>>
  BY <1>4 DEF JobsInv, JobsGood, InSlot
<1>5. ASSUME dropTooSlow(c)
      PROVE  JobsInv'
  BY <1>1, <1>4, <1>5 DEF dropTooSlow, history
<1>6. ASSUME NEW size, PushHi(c, size)
      PROVE  JobsInv'
  BY <1>1, <1>6 DEF PushHi, history
<1>7. ASSUME PushWorldRefused(c)
      PROVE  JobsInv'
  BY <1>4, <1>7 DEF PushWorldRefused, history
<1> QED
  BY <1>2, <1>3, <1>5, <1>6, <1>7 DEF Producer

LEMMA WriterJobs ==
    ASSUME JobsInv, WriterInv, NEW c \in Clients, Writer(c) \/ WriteReturns(c) \/ CloseOut(c) \/ Join(c)
    PROVE  JobsInv'
<1>0. /\ QueueGood(q[c]) /\ q[c].regionJobs \in Nat /\ q[c].regionJobs <= MaxRegionJobs + 1
      /\ q = [d \in Clients |-> q[d]] /\ entries = [d \in Clients |-> entries[d]]
      /\ hand = [d \in Clients |-> hand[d]] /\ wpc \in [Clients -> WriterStages]
      /\ entries[c] \in Nat
  BY JobsAreFinite DEF JobsInv, JobsGood, WriterInv, Typed, QueueGood
<1>1. CASE WriterTake(c)
  <2> DEFINE u == IF leaving(c) THEN drop_lo(q[c]) ELSE q[c]
             it == item(u)
  <2>1. /\ wpc' = [wpc EXCEPT ![c] = IF it.kind = "frame" THEN "slot" ELSE "write"]
        /\ q' = [q EXCEPT ![c] = rest(u)] /\ hand' = [hand EXCEPT ![c] = it]
        /\ entries' = entries /\ ~idle(u)
    BY <1>1 DEF WriterTake, history
  <2>2. QueueGood(u) /\ u.regionJobs <= MaxRegionJobs + 1 /\ u.regionJobs \in Nat
    BY <1>0, Dropped, LimitsAssumption
  <2> HIDE DEF u, it
  <2>3. /\ QueueGood(rest(u)) /\ rest(u).regionJobs <= u.regionJobs
        /\ it.kind = "frame" =>
              /\ it \in Frames /\ it.off <= it.total
              /\ it.last => rest(u).regionJobs = u.regionJobs - 1
              /\ ~it.last => AtHead(rest(u), it)
    BY <2>1, <2>2, Taken DEF it, AtHead
  <2>4. rest(u).regionJobs \in Nat
    BY <2>3, JobsAreFinite DEF QueueGood
  <2>5. /\ rest(u).regionJobs <= MaxRegionJobs + 1
        /\ it.kind = "frame" /\ it.last => rest(u).regionJobs <= MaxRegionJobs
    BY <2>2, <2>3, <2>4, LimitsAssumption
  <2>6. q'[c] = rest(u) /\ hand'[c] = it /\ (wpc'[c] = "slot" => it.kind = "frame")
    BY <1>0, <2>1
  <2>7. JobsGood(c)'
    BY <1>0, <2>1, <2>3, <2>5, <2>6 DEF JobsGood, InSlot
  <2> QED
    BY <1>0, <2>1, <2>7, JobsElsewhere
<1>2. CASE WriterLeave(c) \/ Cleanup(c)
  <2>1. /\ q' = [q EXCEPT ![c] = drop_lo(@)] /\ UNCHANGED <<entries, hand>>
        /\ wpc'[c] # "slot" /\ \A d \in Clients \ {c} : wpc'[d] = wpc[d]
    BY <1>0, <1>2 DEF WriterLeave, Cleanup, history
  <2>2. q'[c] = drop_lo(q[c]) /\ QueueGood(q'[c]) /\ q'[c].regionJobs = 0
    BY <1>0, <2>1, Dropped
  <2>3. JobsGood(c)'
    BY <1>0, <2>1, <2>2, LimitsAssumption DEF JobsGood, InSlot
  <2> QED
    BY <1>0, <2>1, <2>3, JobsElsewhere
<1>3. CASE SlotTimeout(c)
  <2> DEFINE v == requeue_front(q[c], hand[c])
  <2>1. /\ q' = [q EXCEPT ![c] = v] /\ hand' = [hand EXCEPT ![c] = NoItem]
        /\ wpc' = [wpc EXCEPT ![c] = "top"] /\ entries' = entries /\ InSlot(c)
    BY <1>3 DEF SlotTimeout, history, InSlot
  <2>2. /\ hand[c] \in Frames /\ hand[c].off <= hand[c].total
        /\ hand[c].last => q[c].regionJobs <= MaxRegionJobs
        /\ ~hand[c].last => AtHead(q[c], hand[c])
    BY <2>1 DEF JobsInv, JobsGood
  <2>3. QueueGood(v) /\ v.regionJobs = q[c].regionJobs + (IF hand[c].last THEN 1 ELSE 0)
    BY <1>0, <2>2, Requeued DEF AtHead
  <2>4. hand[c].last \in BOOLEAN
    BY <2>2 DEF Frames
  <2> HIDE DEF v
  <2>5. q'[c] = v /\ wpc'[c] = "top" /\ v.regionJobs <= MaxRegionJobs + 1
    BY <1>0, <2>1, <2>2, <2>3, <2>4, LimitsAssumption
  <2>6. JobsGood(c)'
    BY <1>0, <2>1, <2>3, <2>5 DEF JobsGood, InSlot
  <2> QED
    BY <1>0, <2>1, <2>6, JobsElsewhere
<1>4. CASE AcquireSlot(c) \/ EncodeDone(c) \/ EncodeFail(c) \/ WriteOk(c) \/ WriteFail(c)
  <2>1. /\ UNCHANGED <<q, entries>> /\ wpc'[c] # "slot"
        /\ \A d \in Clients \ {c} : UNCHANGED <<hand[d], wpc[d]>>
    BY <1>0, <1>4 DEF AcquireSlot, EncodeDone, EncodeFail, WriteOk, WriteFail, history
  <2>2. JobsGood(c)'
    BY <2>1 DEF JobsInv, JobsGood, InSlot
  <2> QED
    BY <1>0, <2>1, <2>2, JobsElsewhere
<1>5. CASE CloseOut(c) \/ Join(c)
  BY <1>5 DEF CloseOut, Join, history, JobsInv, JobsGood, InSlot
<1> QED
  BY <1>1, <1>2, <1>3, <1>4, <1>5 DEF Writer, WriteReturns

LEMMA JobsStep == JobsInv /\ WriterInv /\ [Next]_vars => JobsInv'
<1> SUFFICES ASSUME JobsInv, WriterInv, [Next]_vars PROVE JobsInv'
  OBVIOUS
<1>1. ASSUME NEW c \in Clients,
             Producer(c) \/ Writer(c) \/ WriteReturns(c) \/ CloseOut(c) \/ Join(c)
      PROVE  JobsInv'
  BY <1>1, ProducerJobs, WriterJobs
<1>2. CASE OtherAcquires \/ OtherReleases \/ UNCHANGED vars
  BY <1>2 DEF JobsInv, JobsGood, InSlot, OtherAcquires, OtherReleases, vars, history
<1> QED
  BY <1>1, <1>2 DEF Next

\* The number of replies a queue is judged by is the number it holds, through frame-by-frame
\* takes and requeues, and only one put back after its place was taken is over the limit.
THEOREM JobsAreExact == Spec => [](\A c \in Clients : JobsExact(q[c]))
<1>1. JobsInv => \A c \in Clients : JobsExact(q[c])
  BY DEF JobsInv, JobsGood, QueueGood, JobsExact, Jobs
<1> QED
  BY <1>1, WriterKept, JobsInit, JobsStep, PTL DEF Spec

-----------------------------------------------------------------------------
(* Units of a queue. *)

InQueue(lo) == UNION {EntryUnits(lo[i]) : i \in 1..Len(lo)}
Coming(h, lo) == ItemUnits(h) \cup InQueue(lo)

\* The ids of a queue grow with the place in it, up to the last one given.
Ids(lo, n) ==
    /\ \A i \in 1..Len(lo) : lo[i].id \in 1..n
    /\ \A i, j \in 1..Len(lo) : i < j => lo[i].id < lo[j].id
BehindIt(id, lo) == \A i \in 1..Len(lo) : id < lo[i].id

Answers == [kind : {"job", "cached"}, id : Nat, total : Nat, cursor : Nat]
Pieces ==
    [kind : {"frame", "cached"}, id : Nat, total : Nat, off : Nat, count : Nat,
     first : BOOLEAN, last : BOOLEAN]
IsPiece(h) == h.kind \in {"frame", "cached"}
InHand(h) ==
    h.kind \in {"none", "line"} \/ h \in Pieces \/ h \in [kind : {"blob"}, id : Nat, size : Nat]

PieceGood(h) ==
    /\ h \in Pieces
    /\ h.off + h.count <= h.total /\ (h.last <=> h.off + h.count = h.total)
    /\ h.off < h.total => h.count > 0
    /\ h.first <=> h.off = 0
Continues(h, lo) ==
    /\ lo # << >> /\ lo[1].kind # "blob"
    /\ lo[1].id = h.id /\ lo[1].total = h.total /\ lo[1].cursor = h.off + h.count

\* What is in hand comes before all that is queued; the rest of its reply is at the head.
Ready(h, lo, n) ==
    /\ InHand(h)
    /\ h.kind = "blob" => h.id \in 1..n /\ BehindIt(h.id, lo)
    /\ IsPiece(h) => /\ h.id \in 1..n /\ PieceGood(h)
                     /\ IF h.last THEN BehindIt(h.id, lo) ELSE Continues(h, lo)

LEMMA QueuedUnits ==
    ASSUME NEW lo \in Seq(LoEntries)
    PROVE  /\ Units(QueueUnits(lo)) = InQueue(lo)
           /\ DOMAIN QueueUnits(lo) = 1..Len(lo) /\ DOMAIN lo = 1..Len(lo) /\ Len(lo) \in Nat
           /\ \A i \in 1..Len(lo) : QueueUnits(lo)[i] = EntryUnits(lo[i])
BY DEF Units, QueueUnits, InQueue

LEMMA EntryIds ==
    ASSUME NEW s \in LoEntries, NEW x \in EntryUnits(s)
    PROVE  x = <<x[1], x[2]>> /\ x[1] = s.id /\ x[2] \in Nat /\ s.id \in Nat
<1>1. s.id \in Nat
  BY DEF LoEntries
<1>2. CASE s.kind = "blob" \/ s.total = 0
  BY <1>1, <1>2 DEF EntryUnits
<1>3. CASE ~(s.kind = "blob" \/ s.total = 0)
  <2>1. s \in Answers
    BY <1>3 DEF LoEntries, Answers
  <2>2. x \in {s.id} \X (s.cursor..(s.total - 1))
    BY <1>3 DEF EntryUnits, ReplyUnits
  <2> QED
    BY <1>1, <2>1, <2>2 DEF Answers
<1> QED
  BY <1>2, <1>3

LEMMA ItemIds ==
    ASSUME NEW h, InHand(h), NEW x \in ItemUnits(h)
    PROVE  /\ h.kind = "blob" \/ (IsPiece(h) /\ h \in Pieces)
           /\ x = <<x[1], x[2]>> /\ x[1] = h.id /\ x[2] \in Nat /\ h.id \in Nat
           /\ IsPiece(h) /\ h.total # 0 => h.off <= x[2] /\ x[2] < h.off + h.count
<1>1. h.kind \notin {"none", "line"}
  BY DEF ItemUnits
<1>2. CASE h.kind = "blob"
  <2>1. h.id \in Nat
    BY <1>2 DEF InHand, Pieces
  <2> QED
    BY <1>2, <2>1 DEF ItemUnits, IsPiece
<1>3. CASE h.kind # "blob"
  <2>1. h \in Pieces /\ IsPiece(h)
    BY <1>1, <1>3 DEF InHand, Pieces, IsPiece
  <2>2. CASE h.total = 0
    BY <1>1, <1>3, <2>1, <2>2 DEF ItemUnits, Pieces
  <2>3. CASE h.total # 0
    <3>1. ItemUnits(h) = ReplyUnits(h.id, h.off, h.off + h.count)
      BY <1>1, <1>3, <2>3 DEF ItemUnits
    <3>2. x \in {h.id} \X (h.off..((h.off + h.count) - 1))
      BY <3>1 DEF ReplyUnits
    <3> QED
      BY <2>1, <3>2 DEF Pieces
  <2> QED
    BY <2>2, <2>3
<1> QED
  BY <1>2, <1>3

LEMMA AppendUnits ==
    ASSUME NEW lo \in Seq(LoEntries), NEW n \in Nat, Ids(lo, n), NEW s \in LoEntries, s.id = n + 1
    PROVE  /\ InQueue(Append(lo, s)) = InQueue(lo) \cup EntryUnits(s)
           /\ Ids(Append(lo, s), n + 1)
<1> DEFINE new == Append(lo, s)
<1>1. /\ Len(new) = Len(lo) + 1 /\ new[Len(lo) + 1] = s /\ Len(lo) \in Nat
      /\ \A i \in 1..Len(lo) : new[i] = lo[i]
  OBVIOUS
<1> HIDE DEF new
<1>2. 1..Len(new) = 1..Len(lo) \cup {Len(lo) + 1}
  BY <1>1
<1>3. InQueue(new) = InQueue(lo) \cup EntryUnits(s)
  BY <1>1, <1>2 DEF InQueue
<1>4. \A i \in 1..Len(lo) : lo[i].id \in 1..n
  BY DEF Ids
<1>5. \A i \in 1..Len(new) : new[i].id \in 1..(n + 1)
  BY <1>1, <1>2, <1>4
<1>6. ASSUME NEW i \in 1..Len(new), NEW j \in 1..Len(new), i < j
      PROVE  new[i].id < new[j].id
  <2>1. i \in 1..Len(lo) /\ new[i] = lo[i] /\ lo[i].id \in 1..n
    BY <1>1, <1>4, <1>6
  <2>2. CASE j \in 1..Len(lo)
    <3>1. new[j] = lo[j]
      BY <1>1, <2>2
    <3>2. lo[i].id < lo[j].id
      BY <1>6, <2>1, <2>2 DEF Ids
    <3> QED
      BY <2>1, <3>1, <3>2
  <2>3. CASE j = Len(lo) + 1
    BY <1>1, <2>1, <2>3
  <2> QED
    BY <1>2, <2>2, <2>3
<1>7. Ids(new, n + 1)
  BY <1>5, <1>6 DEF Ids
<1> QED
  BY <1>3, <1>7 DEF new

LEMMA TailUnits ==
    ASSUME NEW lo \in Seq(LoEntries), lo # << >>, NEW n \in Nat, Ids(lo, n)
    PROVE  /\ InQueue(lo) = EntryUnits(lo[1]) \cup InQueue(Tail(lo))
           /\ Tail(lo) \in Seq(LoEntries) /\ Head(lo) = lo[1] /\ lo[1] \in LoEntries
           /\ Ids(Tail(lo), n) /\ lo[1].id \in 1..n /\ BehindIt(lo[1].id, Tail(lo))
<1> DEFINE t == Tail(lo)
<1>1. /\ t \in Seq(LoEntries) /\ Len(t) = Len(lo) - 1 /\ Len(lo) \in Nat /\ Len(lo) >= 1
      /\ \A i \in 1..Len(t) : t[i] = lo[i + 1]
      /\ Head(lo) = lo[1] /\ lo[1] \in LoEntries
  OBVIOUS
<1> HIDE DEF t
<1>2. \A i \in 1..Len(t) : i + 1 \in 1..Len(lo)
  BY <1>1
<1>3. \A i \in 1..Len(lo) : i = 1 \/ (i - 1 \in 1..Len(t) /\ lo[i] = t[i - 1])
  BY <1>1
<1>4. InQueue(lo) = EntryUnits(lo[1]) \cup InQueue(t)
  <2>1. ASSUME NEW x \in InQueue(lo)
        PROVE  x \in EntryUnits(lo[1]) \cup InQueue(t)
    BY <1>3, <2>1 DEF InQueue
  <2>2. ASSUME NEW x \in InQueue(t)
        PROVE  x \in InQueue(lo)
    BY <1>1, <1>2, <2>2 DEF InQueue
  <2>3. EntryUnits(lo[1]) \subseteq InQueue(lo)
    BY <1>1 DEF InQueue
  <2> QED
    BY <2>1, <2>2, <2>3
<1>5. 1 \in 1..Len(lo)
  BY <1>1
<1>6. /\ \A i \in 1..Len(lo) : lo[i].id \in 1..n
      /\ \A i, j \in 1..Len(lo) : i < j => lo[i].id < lo[j].id
  BY DEF Ids
<1>7. ASSUME NEW i \in 1..Len(t)
      PROVE  t[i].id \in 1..n /\ lo[1].id < t[i].id
  <2>1. t[i] = lo[i + 1] /\ i + 1 \in 1..Len(lo) /\ 1 < i + 1
    BY <1>1, <1>2
  <2> QED
    BY <1>5, <1>6, <2>1
<1>8. ASSUME NEW i \in 1..Len(t), NEW j \in 1..Len(t), i < j
      PROVE  t[i].id < t[j].id
  <2>1. t[i] = lo[i + 1] /\ t[j] = lo[j + 1] /\ i + 1 \in 1..Len(lo) /\ j + 1 \in 1..Len(lo) /\ i + 1 < j + 1
    BY <1>1, <1>2, <1>8
  <2> QED
    BY <1>6, <2>1
<1> QED
  BY <1>1, <1>4, <1>5, <1>6, <1>7, <1>8 DEF t, Ids, BehindIt

\* The head of the queue exchanged for an entry of the same id, or one of an id before
\* all others put in front.
LEMMA HeadUnits ==
    ASSUME NEW lo \in Seq(LoEntries), lo # << >>, lo[1].kind # "blob", NEW n \in Nat, Ids(lo, n),
           NEW k \in Nat
    PROVE  /\ InQueue(Rewound(lo, k)) = EntryUnits([lo[1] EXCEPT !.cursor = k]) \cup InQueue(Tail(lo))
           /\ Ids(Rewound(lo, k), n)
<1> DEFINE new == Rewound(lo, k)
           s == [lo[1] EXCEPT !.cursor = k]
<1>1. /\ new \in Seq(LoEntries) /\ Len(new) = Len(lo) /\ new[1] = s
      /\ \A i \in 2..Len(lo) : new[i] = lo[i]
  BY JobsOfRewound
<1>2. lo[1] \in LoEntries /\ Len(lo) \in Nat /\ Len(lo) >= 1
  OBVIOUS
<1>3. s.id = lo[1].id
  BY <1>2 DEF LoEntries
<1> HIDE DEF new, s
<1>4. \A i \in 1..Len(lo) : new[i].id = lo[i].id
  <2> TAKE i \in 1..Len(lo)
  <2>1. i = 1 \/ i \in 2..Len(lo)
    BY <1>2
  <2> QED
    BY <1>1, <1>3, <2>1
<1>5. Ids(new, n)
  BY <1>1, <1>4 DEF Ids
<1>6. new # << >> /\ Tail(new) = Tail(lo)
  <2>1. new # << >> /\ Tail(new) \in Seq(LoEntries) /\ Tail(lo) \in Seq(LoEntries)
    BY <1>1, <1>2
  <2>2. Len(Tail(new)) = Len(lo) - 1 /\ Len(Tail(lo)) = Len(lo) - 1
    BY <1>1, <1>2
  <2>3. \A i \in 1..(Len(lo) - 1) : Tail(new)[i] = new[i + 1] /\ Tail(lo)[i] = lo[i + 1]
    BY <1>1, <1>2
  <2>4. \A i \in 1..(Len(lo) - 1) : Tail(new)[i] = Tail(lo)[i]
    BY <1>1, <1>2, <2>3
  <2> QED
    BY <2>1, <2>2, <2>4, SeqEqual
<1>7. InQueue(new) = EntryUnits(new[1]) \cup InQueue(Tail(new))
  BY <1>1, <1>5, <1>6, TailUnits
<1> QED
  BY <1>1, <1>5, <1>6, <1>7 DEF new, s

LEMMA ConsUnits ==
    ASSUME NEW lo \in Seq(LoEntries), NEW n \in Nat, Ids(lo, n), NEW s \in LoEntries,
           s.id \in 1..n, BehindIt(s.id, lo)
    PROVE  /\ InQueue(<<s>> \o lo) = EntryUnits(s) \cup InQueue(lo)
           /\ Ids(<<s>> \o lo, n)
<1> DEFINE new == <<s>> \o lo
<1>1. <<s>> \in Seq(LoEntries) /\ Len(<<s>>) = 1 /\ <<s>>[1] = s
  OBVIOUS
<1>2. new \in Seq(LoEntries) /\ Len(new) = 1 + Len(lo) /\ new[1] = s
  BY <1>1, ConcatProperties
<1>3. \A i \in 1..Len(lo) : new[i + 1] = lo[i]
  BY <1>1, ConcatProperties
<1> HIDE DEF new
<1>4. Len(lo) \in Nat
  OBVIOUS
<1>5. \A i \in 1..Len(new) : i = 1 \/ (i - 1 \in 1..Len(lo) /\ new[i] = lo[i - 1])
  <2> TAKE i \in 1..Len(new)
  <2>1. i = 1 \/ i - 1 \in 1..Len(lo)
    BY <1>2, <1>4
  <2>2. i - 1 + 1 = i
    BY <1>2, <1>4
  <2>3. i - 1 \in 1..Len(lo) => new[(i - 1) + 1] = lo[i - 1] /\ (i - 1) + 1 = i
    BY <1>2, <1>3, <1>4
  <2> QED
    BY <2>1, <2>3
<1>6. \A i \in 1..Len(lo) : lo[i].id \in 1..n /\ s.id < lo[i].id
  BY DEF Ids, BehindIt
<1>7. \A i, j \in 1..Len(lo) : i < j => lo[i].id < lo[j].id
  BY DEF Ids
<1>8. \A i \in 1..Len(new) : new[i].id \in 1..n
  BY <1>2, <1>5, <1>6
<1>9. ASSUME NEW i \in 1..Len(new), NEW j \in 1..Len(new), i < j
      PROVE  new[i].id < new[j].id
  <2>1. j # 1
    BY <1>2, <1>4, <1>9
  <2>2. j - 1 \in 1..Len(lo) /\ new[j] = lo[j - 1]
    BY <1>5, <2>1
  <2>3. CASE i = 1
    BY <1>2, <1>6, <2>2, <2>3
  <2>4. CASE i # 1
    <3>1. i - 1 \in 1..Len(lo) /\ new[i] = lo[i - 1]
      BY <1>5, <2>4
    <3>2. i - 1 < j - 1
      BY <1>2, <1>4, <1>9
    <3> QED
      BY <1>7, <2>2, <3>1, <3>2
  <2> QED
    BY <2>3, <2>4
<1>10. Ids(new, n)
  BY <1>8, <1>9 DEF Ids
<1>11. new # << >> /\ Tail(new) = lo
  <2>1. new # << >> /\ Tail(new) \in Seq(LoEntries) /\ Len(Tail(new)) = Len(lo)
    BY <1>2, <1>4
  <2>2. \A i \in 1..Len(lo) : Tail(new)[i] = new[i + 1]
    BY <1>2, <1>4
  <2> QED
    BY <1>3, <2>1, <2>2, SeqEqual
<1>12. InQueue(new) = EntryUnits(new[1]) \cup InQueue(Tail(new))
  BY <1>2, <1>10, <1>11, TailUnits
<1> QED
  BY <1>2, <1>10, <1>11, <1>12 DEF new

\* What is in hand is sent ahead of all that is queued.
LEMMA HandAhead ==
    ASSUME NEW lo \in Seq(LoEntries), NEW n \in Nat, Ids(lo, n), NEW h, Ready(h, lo, n)
    PROVE  Ahead(ItemUnits(h), InQueue(lo))
<1> SUFFICES ASSUME NEW x \in ItemUnits(h), NEW y \in InQueue(lo)
             PROVE  Before(x, y)
  BY DEF Ahead
<1>1. InHand(h)
  BY DEF Ready
<1>2. PICK i \in 1..Len(lo) : y \in EntryUnits(lo[i])
  BY DEF InQueue
<1>3. Len(lo) \in Nat /\ lo[i] \in LoEntries
  OBVIOUS
<1>4. y[1] = lo[i].id /\ y[2] \in Nat /\ lo[i].id \in Nat
  BY <1>2, <1>3, EntryIds
<1>5. /\ h.kind = "blob" \/ IsPiece(h)
      /\ x[1] = h.id /\ x[2] \in Nat /\ h.id \in Nat
      /\ IsPiece(h) /\ h.total # 0 => x[2] < h.off + h.count
  BY <1>1, ItemIds
<1>6. CASE BehindIt(h.id, lo)
  <2>1. h.id < lo[i].id
    BY <1>6 DEF BehindIt
  <2> QED
    BY <1>4, <1>5, <2>1 DEF Before
<1>7. CASE ~BehindIt(h.id, lo)
  <2>1. IsPiece(h) /\ PieceGood(h) /\ ~h.last /\ Continues(h, lo)
    BY <1>5, <1>7 DEF Ready
  <2>2. CASE i = 1
    <3>1. h.total # 0
      BY <2>1 DEF PieceGood, Pieces
    <3>2. lo[1] \in Answers /\ lo[1].total # 0
      BY <1>3, <2>1, <2>2, <3>1 DEF Continues, LoEntries, Answers
    <3>3. EntryUnits(lo[1]) = ReplyUnits(lo[1].id, lo[1].cursor, lo[1].total)
      BY <2>1, <3>2 DEF EntryUnits, Continues
    <3>4. y \in {lo[1].id} \X (lo[1].cursor..(lo[1].total - 1))
      BY <1>2, <2>2, <3>3 DEF ReplyUnits
    <3>5. lo[1].cursor <= y[2]
      BY <3>2, <3>4 DEF Answers
    <3>6. x[1] = y[1] /\ x[2] < h.off + h.count /\ lo[1].cursor = h.off + h.count
      BY <1>4, <1>5, <2>1, <2>2, <3>1 DEF Continues
    <3>7. lo[1].cursor \in Nat
      BY <3>2 DEF Answers
    <3> QED
      BY <1>4, <1>5, <3>5, <3>6, <3>7 DEF Before
  <2>3. CASE i # 1
    <3>1. 1 \in 1..Len(lo) /\ 1 < i
      BY <1>3, <2>3
    <3>2. lo[1].id < lo[i].id
      BY <3>1 DEF Ids
    <3> QED
      BY <1>4, <1>5, <2>1, <3>2 DEF Before, Continues
  <2> QED
    BY <2>2, <2>3
<1> QED
  BY <1>6, <1>7

LEMMA SplitUnits ==
    ASSUME NEW n, NEW from \in Nat, NEW count \in Nat, NEW to \in Nat, from + count <= to
    PROVE  ReplyUnits(n, from, to) = ReplyUnits(n, from, from + count) \cup ReplyUnits(n, from + count, to)
<1>1. from..(to - 1) = (from..((from + count) - 1)) \cup ((from + count)..(to - 1))
  OBVIOUS
<1> QED
  BY <1>1 DEF ReplyUnits

\* take(): what was queued is now in hand or still queued, and in the same order.
LEMMA TakeUnits ==
    ASSUME NEW u, QueueGood(u), NEW n \in Nat, Ids(u.lo, n), ~idle(u)
    PROVE  /\ Coming(item(u), rest(u).lo) = InQueue(u.lo)
           /\ Ids(rest(u).lo, n) /\ Ready(item(u), rest(u).lo, n)
           /\ item(u).kind # "none"
           /\ item(u).kind = "line" => rest(u).lo = u.lo
           /\ IsPiece(item(u)) => /\ u.lo # << >> /\ u.lo[1].kind # "blob"
                                  /\ item(u).id = u.lo[1].id /\ item(u).off = u.lo[1].cursor
           /\ u.lo = << >> => item(u).kind = "line"
<1> DEFINE v == rest(u)
           h == item(u)
<1>0. u.lo \in Seq(LoEntries)
  BY DEF QueueGood
<1>1. CASE u.hi # << >>
  <2>1. v.lo = u.lo
    BY <1>1 DEF rest, QueueGood, Shaped
  <2>2. h.kind = "line" /\ ItemUnits(h) = {}
    BY <1>1 DEF item, ItemUnits
  <2> HIDE DEF v, h
  <2>3. Coming(h, v.lo) = InQueue(u.lo) /\ Ready(h, v.lo, n) /\ ~IsPiece(h)
    BY <2>1, <2>2 DEF Coming, Ready, InHand, IsPiece
  <2> QED
    BY <2>1, <2>2, <2>3 DEF v, h
<1>2. CASE u.hi = << >>
  <2> DEFINE s == u.lo[1]
  <2>1. u.lo # << >> /\ 1 \in 1..Len(u.lo)
    BY <1>0, <1>2 DEF idle
  <2>2. /\ InQueue(u.lo) = EntryUnits(s) \cup InQueue(Tail(u.lo))
        /\ Tail(u.lo) \in Seq(LoEntries) /\ Head(u.lo) = s /\ s \in LoEntries
        /\ Ids(Tail(u.lo), n) /\ s.id \in 1..n /\ BehindIt(s.id, Tail(u.lo))
    BY <1>0, <2>1, TailUnits
  <2>3. CASE s.kind = "blob"
    <3>1. h = s /\ v.lo = Tail(u.lo)
      BY <1>2, <2>2, <2>3 DEF item, rest, QueueGood, Shaped
    <3> HIDE DEF v, h, s
    <3>2. ItemUnits(s) = EntryUnits(s)
      BY <2>3 DEF ItemUnits, EntryUnits
    <3>3. s \in [kind : {"blob"}, id : Nat, size : Nat]
      BY <2>2, <2>3 DEF LoEntries
    <3>4. Ready(s, Tail(u.lo), n) /\ ~IsPiece(s) /\ s.kind # "line" /\ s.kind # "none"
      BY <2>2, <2>3, <3>3 DEF Ready, InHand, IsPiece
    <3> QED
      BY <2>1, <2>2, <3>1, <3>2, <3>4 DEF Coming, v, h
  <2>4. CASE s.kind # "blob"
    <3> DEFINE k == s.cursor + h.count
    <3>0. s \in Answers /\ s.cursor <= s.total
      BY <2>1, <2>2, <2>4 DEF LoEntries, Answers, QueueGood, Sent
    <3>1. h = Frame(s)
      BY <1>2, <2>2, <2>4 DEF item
    <3>2. /\ h \in Pieces /\ h.total = s.total /\ h.off = s.cursor /\ h.id = s.id
          /\ h.off + h.count <= h.total /\ (h.last <=> h.off + h.count = h.total)
          /\ h.off < h.total => h.count > 0
          /\ h.first <=> h.off = 0
      <4> HIDE DEF h, s
      <4>1. h.count \in Nat /\ s.cursor + h.count <= s.total /\ (s.cursor < s.total => h.count > 0)
        BY <3>0, <3>1, LimitsAssumption DEF Frame, Answers
      <4>2. /\ h.total = s.total /\ h.off = s.cursor /\ h.id = s.id
            /\ (h.last <=> s.cursor + h.count = s.total) /\ h.last \in BOOLEAN
            /\ (h.first <=> s.cursor = 0) /\ h.first \in BOOLEAN /\ h.kind \in {"frame", "cached"}
        BY <3>1 DEF Frame
      <4>3. h \in Pieces
        BY <3>0, <3>1, <4>1 DEF Frame, Pieces, Answers
      <4> QED
        BY <4>1, <4>2, <4>3
    <3>3. PieceGood(h) /\ IsPiece(h) /\ InHand(h) /\ h.kind # "none" /\ h.kind # "line" /\ h.kind # "blob"
      BY <3>2 DEF PieceGood, IsPiece, InHand, Pieces
    <3>4. CASE h.last
      <4>1. v.lo = Tail(u.lo)
        BY <1>2, <2>2, <2>4, <3>1, <3>4 DEF rest, pop_region, QueueGood, Shaped
      <4> HIDE DEF v, h, s
      <4>2. ItemUnits(h) = EntryUnits(s)
        BY <2>4, <3>2, <3>3, <3>4 DEF ItemUnits, EntryUnits
      <4>3. Ready(h, v.lo, n)
        BY <2>2, <3>2, <3>3, <3>4, <4>1 DEF Ready
      <4> QED
        BY <2>1, <2>2, <2>4, <3>2, <3>3, <4>1, <4>2, <4>3 DEF Coming, v, h, s
    <3>5. CASE ~h.last
      <4>1. v.lo = Rewound(u.lo, k)
        BY <1>2, <2>1, <2>2, <2>4, <3>1, <3>5 DEF rest, QueueGood, Shaped, Rewound
      <4>2. k \in Nat /\ k = h.off + h.count /\ k <= s.total /\ s.total # 0
        BY <3>0, <3>2, <3>5 DEF Answers, Pieces
      <4> HIDE DEF v, h, s, k
      <4>3. /\ InQueue(v.lo) = EntryUnits([s EXCEPT !.cursor = k]) \cup InQueue(Tail(u.lo))
            /\ Ids(v.lo, n)
        BY <1>0, <2>1, <2>4, <4>1, <4>2, HeadUnits DEF s
      <4>4. /\ EntryUnits([s EXCEPT !.cursor = k]) = ReplyUnits(s.id, k, s.total)
            /\ EntryUnits(s) = ReplyUnits(s.id, s.cursor, s.total)
        BY <2>4, <3>0, <4>2 DEF EntryUnits, Answers
      <4>5. ItemUnits(h) = ReplyUnits(s.id, s.cursor, s.cursor + h.count)
        BY <3>2, <3>3, <4>2 DEF ItemUnits
      <4>6. s.cursor \in Nat /\ s.total \in Nat /\ h.count \in Nat /\ s.cursor + h.count = k
        BY <3>0, <3>2, <4>2 DEF Answers, Pieces
      <4>7. EntryUnits(s) = ItemUnits(h) \cup EntryUnits([s EXCEPT !.cursor = k])
        BY <4>2, <4>4, <4>5, <4>6, SplitUnits
      <4>8. v.lo # << >> /\ v.lo[1] = [s EXCEPT !.cursor = k]
        <5>1. Len(v.lo) = Len(u.lo) /\ v.lo[1] = [s EXCEPT !.cursor = k] /\ v.lo \in Seq(LoEntries)
          BY <1>0, <2>1, <2>4, <4>1, <4>2, JobsOfRewound DEF s
        <5> QED
          BY <2>1, <5>1
      <4>9. Continues(h, v.lo)
        BY <2>4, <3>0, <3>2, <4>2, <4>8 DEF Continues, Answers
      <4>10. Ready(h, v.lo, n)
        BY <2>2, <3>2, <3>3, <3>5, <4>9 DEF Ready
      <4> QED
        BY <2>1, <2>2, <2>4, <3>2, <3>3, <4>3, <4>7, <4>10 DEF Coming, v, h, s
    <3> QED
      BY <3>4, <3>5
  <2> QED
    BY <2>3, <2>4
<1> QED
  BY <1>1, <1>2

\* requeue_front(): the frame is the head of the queue again.
LEMMA RequeueUnits ==
    ASSUME NEW u, QueueGood(u), NEW n \in Nat, Ids(u.lo, n), NEW h \in Frames, Ready(h, u.lo, n)
    PROVE  /\ InQueue(requeue_front(u, h).lo) = Coming(h, u.lo)
           /\ Ids(requeue_front(u, h).lo, n)
           /\ requeue_front(u, h).lo # << >> /\ requeue_front(u, h).lo[1].kind # "blob"
           /\ requeue_front(u, h).lo[1].id = h.id /\ requeue_front(u, h).lo[1].cursor = h.off
<1> DEFINE v == requeue_front(u, h)
<1>0. u.lo \in Seq(LoEntries)
  BY DEF QueueGood
<1>1. h.kind = "frame" /\ IsPiece(h) /\ PieceGood(h) /\ h \in Pieces /\ h.id \in 1..n
  BY DEF Frames, IsPiece, Ready, Pieces
<1>2. CASE ~h.last
  <2> DEFINE s == u.lo[1]
             w == [s EXCEPT !.cursor = h.off]
  <2>1. Continues(h, u.lo)
    BY <1>1, <1>2 DEF Ready
  <2>2. u.lo # << >> /\ s.kind # "blob" /\ s.id = h.id /\ s.total = h.total /\ s.cursor = h.off + h.count
    BY <2>1 DEF Continues
  <2>3. s \in Answers
    BY <1>0, <2>2 DEF LoEntries, Answers
  <2>4. v.lo = Rewound(u.lo, h.off)
    BY <1>2 DEF requeue_front, QueueGood, Shaped, Rewound
  <2>5. h.off \in Nat /\ h.count \in Nat /\ h.total \in Nat /\ h.off + h.count <= h.total /\ h.total # 0
    BY <1>1, <1>2 DEF PieceGood, Pieces
  <2> HIDE DEF v
  <2>6. /\ InQueue(v.lo) = EntryUnits(w) \cup InQueue(Tail(u.lo))
        /\ Ids(v.lo, n)
    BY <1>0, <2>2, <2>4, <2>5, HeadUnits
  <2>7. v.lo # << >> /\ v.lo[1] = w
    <3>1. Len(v.lo) = Len(u.lo) /\ v.lo[1] = w /\ v.lo \in Seq(LoEntries)
      BY <1>0, <2>2, <2>4, <2>5, JobsOfRewound
    <3> QED
      BY <1>0, <2>2, <3>1
  <2>8. w.kind # "blob" /\ w.id = h.id /\ w.total = h.total /\ w.cursor = h.off
    BY <2>2, <2>3 DEF Answers
  <2> HIDE DEF s, w
  <2>9. /\ EntryUnits(w) = ReplyUnits(h.id, h.off, h.total)
        /\ EntryUnits(s) = ReplyUnits(h.id, h.off + h.count, h.total)
        /\ ItemUnits(h) = ReplyUnits(h.id, h.off, h.off + h.count)
    BY <1>1, <2>2, <2>5, <2>8 DEF EntryUnits, ItemUnits
  <2>10. EntryUnits(w) = ItemUnits(h) \cup EntryUnits(s)
    <3>1. ReplyUnits(h.id, h.off, h.total)
            = ReplyUnits(h.id, h.off, h.off + h.count) \cup ReplyUnits(h.id, h.off + h.count, h.total)
      BY <2>5, SplitUnits
    <3> QED
      BY <2>9, <3>1
  <2>11. InQueue(u.lo) = EntryUnits(s) \cup InQueue(Tail(u.lo))
    BY <1>0, <2>2, TailUnits DEF s
  <2> QED
    BY <2>6, <2>7, <2>8, <2>10, <2>11 DEF Coming, v
<1>3. CASE h.last
  <2> DEFINE w == [kind |-> "job", id |-> h.id, total |-> h.total, cursor |-> h.off]
  <2>1. v.lo = <<w>> \o u.lo
    BY <1>3 DEF requeue_front, QueueGood, Shaped
  <2>2. w \in LoEntries /\ w.kind # "blob" /\ w.id = h.id /\ w.total = h.total /\ w.cursor = h.off
    BY DEF Frames, LoEntries
  <2>3. BehindIt(h.id, u.lo)
    BY <1>1, <1>3 DEF Ready
  <2> HIDE DEF v, w
  <2>4. InQueue(v.lo) = EntryUnits(w) \cup InQueue(u.lo) /\ Ids(v.lo, n)
    BY <1>0, <1>1, <2>1, <2>2, <2>3, ConsUnits
  <2>5. EntryUnits(w) = ItemUnits(h)
    BY <1>1, <1>3, <2>2 DEF EntryUnits, ItemUnits, PieceGood
  <2>6. v.lo # << >> /\ v.lo[1] = w
    <3>1. <<w>> \in Seq(LoEntries) /\ Len(<<w>>) = 1 /\ <<w>>[1] = w
      BY <2>2
    <3>2. v.lo \in Seq(LoEntries) /\ Len(v.lo) = 1 + Len(u.lo) /\ v.lo[1] = w
      BY <1>0, <2>1, <3>1, ConcatProperties
    <3>3. Len(u.lo) \in Nat
      BY <1>0
    <3> QED
      BY <3>2, <3>3
  <2> QED
    BY <2>2, <2>4, <2>5, <2>6 DEF Coming, v
<1> QED
  BY <1>2, <1>3

-----------------------------------------------------------------------------
(* The stream of one client, as values: what was sent, what is in hand, what is queued, *)
(* the units accepted, those lost, and the number of entries accepted.                  *)

Pairs == Nat \X Nat
Good(w, h, lo, acc, los, n) ==
    /\ w \in Seq(SUBSET Pairs) /\ InOrder(w)
    /\ acc \subseteq (1..n) \X Nat /\ los \subseteq acc
    /\ Ids(lo, n) /\ Ready(h, lo, n)
Whole(w, h, lo, acc, los) ==
    /\ Units(w) \cup Coming(h, lo) = acc \ los
    /\ Ahead(Units(w) \cup los, Coming(h, lo))
Sound(w, acc, los) == Units(w) \subseteq acc \ los /\ Ahead(Units(w), (acc \ los) \ Units(w))

LEMMA OrderOfConcat ==
    ASSUME NEW s \in Seq(SUBSET Pairs), NEW t \in Seq(SUBSET Pairs)
    PROVE  /\ Units(s \o t) = Units(s) \cup Units(t)
           /\ InOrder(s) /\ InOrder(t) /\ Ahead(Units(s), Units(t)) => InOrder(s \o t)
<1> DEFINE u == s \o t
<1>1. /\ DOMAIN s = 1..Len(s) /\ DOMAIN t = 1..Len(t) /\ Len(s) \in Nat /\ Len(t) \in Nat
      /\ u \in Seq(SUBSET Pairs) /\ Len(u) = Len(s) + Len(t)
  BY ConcatProperties
<1>2. /\ DOMAIN u = 1..(Len(s) + Len(t))
      /\ \A i \in 1..Len(s) : u[i] = s[i]
      /\ \A i \in 1..Len(t) : u[Len(s) + i] = t[i]
  BY <1>1, ConcatProperties
<1> HIDE DEF u
<1>3. \A i \in DOMAIN u : i \in DOMAIN s \/ (i - Len(s) \in DOMAIN t /\ i > Len(s) /\ u[i] = t[i - Len(s)])
  <2> TAKE i \in DOMAIN u
  <2>1. i \in DOMAIN s \/ (i - Len(s) \in 1..Len(t) /\ i > Len(s) /\ Len(s) + (i - Len(s)) = i)
    BY <1>1, <1>2
  <2> QED
    BY <1>1, <1>2, <2>1
<1>4. Units(u) = Units(s) \cup Units(t)
  <2>1. ASSUME NEW x \in Units(u)
        PROVE  x \in Units(s) \cup Units(t)
    <3>1. PICK i \in DOMAIN u : x \in u[i]
      BY <2>1 DEF Units
    <3> QED
      BY <1>1, <1>2, <1>3, <3>1 DEF Units
  <2>2. ASSUME NEW x \in Units(s)
        PROVE  x \in Units(u)
    <3>1. PICK i \in DOMAIN s : x \in s[i]
      BY <2>2 DEF Units
    <3>2. i \in DOMAIN u /\ u[i] = s[i]
      BY <1>1, <1>2
    <3> QED
      BY <3>1, <3>2 DEF Units
  <2>3. ASSUME NEW x \in Units(t)
        PROVE  x \in Units(u)
    <3>1. PICK i \in DOMAIN t : x \in t[i]
      BY <2>3 DEF Units
    <3>2. Len(s) + i \in DOMAIN u /\ u[Len(s) + i] = t[i]
      BY <1>1, <1>2
    <3> QED
      BY <3>1, <3>2 DEF Units
  <2> QED
    BY <2>1, <2>2, <2>3
<1>5. ASSUME InOrder(s), InOrder(t), Ahead(Units(s), Units(t))
      PROVE  InOrder(u)
  <2> SUFFICES ASSUME NEW i \in DOMAIN u, NEW j \in DOMAIN u, i < j,
                      NEW x \in u[i], NEW y \in u[j]
               PROVE  Before(x, y)
    BY DEF InOrder, Ahead
  <2>1. CASE i \in DOMAIN s /\ j \in DOMAIN s
    BY <1>1, <1>2, <1>5, <2>1 DEF InOrder, Ahead
  <2>2. CASE i \in DOMAIN s /\ j \notin DOMAIN s
    <3>1. x \in Units(s)
      BY <1>1, <1>2, <2>2 DEF Units
    <3>2. y \in Units(t)
      BY <1>3, <2>2 DEF Units
    <3> QED
      BY <1>5, <3>1, <3>2 DEF Ahead
  <2>3. CASE i \notin DOMAIN s
    <3>1. j \notin DOMAIN s
      BY <1>1, <1>2, <2>3
    <3>2. /\ i - Len(s) \in DOMAIN t /\ u[i] = t[i - Len(s)]
          /\ j - Len(s) \in DOMAIN t /\ u[j] = t[j - Len(s)]
      BY <1>3, <2>3, <3>1
    <3>3. i - Len(s) < j - Len(s)
      BY <1>1, <1>2
    <3> QED
      BY <1>5, <3>2, <3>3 DEF InOrder, Ahead
  <2> QED
    BY <2>1, <2>2, <2>3
<1> QED
  BY <1>4, <1>5 DEF u

LEMMA SingleOrder ==
    ASSUME NEW X \in SUBSET Pairs
    PROVE  <<X>> \in Seq(SUBSET Pairs) /\ Units(<<X>>) = X /\ InOrder(<<X>>)
<1>1. <<X>> \in Seq(SUBSET Pairs) /\ DOMAIN <<X>> = {1} /\ <<X>>[1] = X
  OBVIOUS
<1> QED
  BY <1>1 DEF Units, InOrder

LEMMA AppendOrder ==
    ASSUME NEW w \in Seq(SUBSET Pairs), NEW X \in SUBSET Pairs
    PROVE  /\ Append(w, X) \in Seq(SUBSET Pairs) /\ Units(Append(w, X)) = Units(w) \cup X
           /\ InOrder(w) /\ Ahead(Units(w), X) => InOrder(Append(w, X))
<1>1. Append(w, X) = w \o <<X>>
  BY AppendIsConcat
<1>2. <<X>> \in Seq(SUBSET Pairs) /\ Units(<<X>>) = X /\ InOrder(<<X>>)
  BY SingleOrder
<1> QED
  BY <1>1, <1>2, OrderOfConcat, AppendProperties

LEMMA ItemsArePairs ==
    ASSUME NEW h, InHand(h)
    PROVE  ItemUnits(h) \in SUBSET Pairs
BY ItemIds DEF Pairs

LEMMA QueueOrder ==
    ASSUME NEW lo \in Seq(LoEntries), NEW n \in Nat, Ids(lo, n)
    PROVE  QueueUnits(lo) \in Seq(SUBSET Pairs) /\ InOrder(QueueUnits(lo)) /\ InQueue(lo) \subseteq Pairs
<1>1. /\ DOMAIN QueueUnits(lo) = 1..Len(lo) /\ Len(lo) \in Nat /\ QueueUnits(lo) = [i \in 1..Len(lo) |-> QueueUnits(lo)[i]]
      /\ \A i \in 1..Len(lo) : QueueUnits(lo)[i] = EntryUnits(lo[i])
  BY QueuedUnits DEF QueueUnits
<1>2. \A i \in 1..Len(lo) : lo[i] \in LoEntries
  OBVIOUS
<1>3. \A i \in 1..Len(lo) : EntryUnits(lo[i]) \in SUBSET Pairs
  BY <1>2, EntryIds DEF Pairs
<1>4. QueueUnits(lo) \in Seq(SUBSET Pairs)
  BY <1>1, <1>3, IsASeq
<1>5. ASSUME NEW i \in 1..Len(lo), NEW j \in 1..Len(lo), i < j,
             NEW x \in EntryUnits(lo[i]), NEW y \in EntryUnits(lo[j])
      PROVE  Before(x, y)
  <2>1. x[1] = lo[i].id /\ y[1] = lo[j].id /\ lo[i].id < lo[j].id
    BY <1>2, <1>5, EntryIds DEF Ids
  <2> QED
    BY <2>1 DEF Before
<1>6. InOrder(QueueUnits(lo))
  BY <1>1, <1>5 DEF InOrder, Ahead
<1>7. InQueue(lo) \subseteq Pairs
  BY <1>3 DEF InQueue
<1> QED
  BY <1>4, <1>6, <1>7

\* What the stream property says of a whole stream.
LEMMA WholeStream ==
    ASSUME NEW w, NEW h, NEW lo \in Seq(LoEntries), NEW acc, NEW los, NEW n \in Nat,
           Good(w, h, lo, acc, los, n), Whole(w, h, lo, acc, los)
    PROVE  /\ InOrder(w \o <<ItemUnits(h)>> \o QueueUnits(lo))
           /\ Units(w \o <<ItemUnits(h)>> \o QueueUnits(lo)) = acc \ los
<1> DEFINE X == ItemUnits(h)
           Q == QueueUnits(lo)
<1>1. w \in Seq(SUBSET Pairs) /\ InOrder(w) /\ InHand(h) /\ Ids(lo, n) /\ Ready(h, lo, n)
  BY DEF Good, Ready
<1>2. X \in SUBSET Pairs /\ <<X>> \in Seq(SUBSET Pairs) /\ Units(<<X>>) = X /\ InOrder(<<X>>)
  BY <1>1, ItemsArePairs, SingleOrder
<1>3. Q \in Seq(SUBSET Pairs) /\ InOrder(Q) /\ Units(Q) = InQueue(lo)
  BY <1>1, QueueOrder, QueuedUnits
<1>4. /\ Ahead(Units(w), X) /\ Ahead(Units(w), Units(Q)) /\ Ahead(X, Units(Q))
      /\ Units(w) \cup X \cup Units(Q) = acc \ los
  BY <1>1, <1>3, HandAhead DEF Whole, Coming, Ahead
<1> HIDE DEF X, Q
<1>5. w \o <<X>> \in Seq(SUBSET Pairs)
  BY <1>1, <1>2, ConcatProperties
<1>6. InOrder(w \o <<X>>) /\ Units(w \o <<X>>) = Units(w) \cup X
  BY <1>1, <1>2, <1>4, OrderOfConcat
<1>7. Ahead(Units(w \o <<X>>), Units(Q))
  BY <1>4, <1>6 DEF Ahead
<1>8. InOrder((w \o <<X>>) \o Q) /\ Units((w \o <<X>>) \o Q) = acc \ los
  BY <1>3, <1>4, <1>5, <1>6, <1>7, OrderOfConcat
<1> QED
  BY <1>8 DEF X, Q

LEMMA WholeSound ==
    ASSUME NEW w, NEW h, NEW lo, NEW acc, NEW los, Whole(w, h, lo, acc, los)
    PROVE  Sound(w, acc, los)
BY DEF Whole, Sound, Ahead

\* An entry accepted.
LEMMA StreamGrows ==
    ASSUME NEW w, NEW h, NEW lo \in Seq(LoEntries), NEW acc, NEW los, NEW n \in Nat,
           Good(w, h, lo, acc, los, n), Whole(w, h, lo, acc, los),
           NEW s \in LoEntries, s.id = n + 1
    PROVE  /\ Good(w, h, Append(lo, s), acc \cup EntryUnits(s), los, n + 1)
           /\ Whole(w, h, Append(lo, s), acc \cup EntryUnits(s), los)
<1> DEFINE new == Append(lo, s)
           X == EntryUnits(s)
<1>1. InQueue(new) = InQueue(lo) \cup X /\ Ids(new, n + 1)
  BY AppendUnits DEF Good
<1>2. \A x \in X : x = <<x[1], x[2]>> /\ x[1] = n + 1 /\ x[2] \in Nat
  BY EntryIds
<1>3. X \subseteq (1..(n + 1)) \X Nat
  BY <1>2
<1>4. \A y \in acc : y = <<y[1], y[2]>> /\ y[1] \in 1..n /\ y[2] \in Nat
  BY DEF Good
<1>5. acc \subseteq (1..(n + 1)) \X Nat
  BY <1>4
<1>6. acc \cap X = {}
  BY <1>2, <1>4
<1>7. los \subseteq acc /\ Units(w) \subseteq acc
  BY DEF Good, Whole
<1>8. Ahead(Units(w) \cup los, X)
  BY <1>2, <1>4, <1>7 DEF Ahead, Before
<1>9. Ready(h, new, n + 1)
  <2>1. Ready(h, lo, n)
    BY DEF Good
  <2>2. /\ Len(new) = Len(lo) + 1 /\ Len(lo) \in Nat /\ new[Len(lo) + 1] = s
        /\ \A i \in 1..Len(lo) : new[i] = lo[i]
    OBVIOUS
  <2> HIDE DEF new
  <2>3. ASSUME NEW id \in 1..n, BehindIt(id, lo)
        PROVE  BehindIt(id, new)
    <3> SUFFICES ASSUME NEW i \in 1..Len(new) PROVE id < new[i].id
      BY DEF BehindIt
    <3>1. i \in 1..Len(lo) \/ i = Len(lo) + 1
      BY <2>2
    <3> QED
      BY <2>2, <2>3, <3>1 DEF BehindIt
  <2>4. Continues(h, lo) => Continues(h, new)
    <3> SUFFICES ASSUME Continues(h, lo) PROVE Continues(h, new)
      OBVIOUS
    <3>1. 1 \in 1..Len(lo)
      BY DEF Continues
    <3> QED
      BY <2>2, <3>1 DEF Continues
  <2>5. \A id \in 1..n : id \in 1..(n + 1)
    OBVIOUS
  <2> QED
    BY <2>1, <2>3, <2>4, <2>5 DEF Ready
<1> HIDE DEF new, X
<1>10. Good(w, h, new, acc \cup X, los, n + 1)
  BY <1>1, <1>3, <1>5, <1>9 DEF Good
<1>11. Whole(w, h, new, acc \cup X, los)
  BY <1>1, <1>6, <1>7, <1>8 DEF Whole, Coming, Ahead
<1> QED
  BY <1>10, <1>11 DEF new, X

\* The same units, some of them moved from the queue to the hand or back.
LEMMA StreamMoves ==
    ASSUME NEW w, NEW h, NEW lo, NEW acc, NEW los, NEW n, NEW h2, NEW lo2,
           Good(w, h, lo, acc, los, n), Coming(h2, lo2) = Coming(h, lo),
           Ids(lo2, n), Ready(h2, lo2, n)
    PROVE  /\ Good(w, h2, lo2, acc, los, n)
           /\ Whole(w, h, lo, acc, los) => Whole(w, h2, lo2, acc, los)
BY DEF Good, Whole

LEMMA HandEmpty ==
    ASSUME NEW lo, NEW n
    PROVE  Ready(NoItem, lo, n) /\ ItemUnits(NoItem) = {} /\ Coming(NoItem, lo) = InQueue(lo)
BY DEF Ready, InHand, IsPiece, NoItem, ItemUnits, Coming

\* What is in hand is sent, or lost.
LEMMA StreamSends ==
    ASSUME NEW w, NEW h, NEW lo \in Seq(LoEntries), NEW acc, NEW los, NEW n \in Nat,
           Good(w, h, lo, acc, los, n), Whole(w, h, lo, acc, los)
    PROVE  /\ Good(Append(w, ItemUnits(h)), NoItem, lo, acc, los, n)
           /\ Whole(Append(w, ItemUnits(h)), NoItem, lo, acc, los)
<1> DEFINE X == ItemUnits(h)
           v == Append(w, X)
<1>1. InHand(h) /\ Ids(lo, n) /\ Ready(h, lo, n) /\ w \in Seq(SUBSET Pairs) /\ InOrder(w)
  BY DEF Good, Ready
<1>2. X \in SUBSET Pairs
  BY <1>1, ItemsArePairs
<1>3. Ahead(X, InQueue(lo))
  BY <1>1, HandAhead
<1>4. Ahead(Units(w), X)
  BY DEF Whole, Coming, Ahead
<1>5. v \in Seq(SUBSET Pairs) /\ Units(v) = Units(w) \cup X /\ InOrder(v)
  BY <1>1, <1>2, <1>4, AppendOrder
<1> HIDE DEF v
<1>6. Good(v, NoItem, lo, acc, los, n)
  BY <1>1, <1>5, HandEmpty DEF Good
<1>7. Coming(NoItem, lo) = InQueue(lo)
  BY HandEmpty
<1>8. Whole(v, NoItem, lo, acc, los)
  BY <1>3, <1>5, <1>7 DEF Whole, Coming, Ahead
<1> QED
  BY <1>6, <1>8 DEF v

LEMMA AheadDisjoint ==
    ASSUME NEW X \in SUBSET Pairs, NEW Y, Ahead(X, Y)
    PROVE  X \cap Y = {}
<1> SUFFICES ASSUME NEW x \in X, x \in Y PROVE FALSE
  OBVIOUS
<1>1. Before(x, x) /\ x[1] \in Nat /\ x[2] \in Nat
  BY DEF Ahead, Pairs
<1> QED
  BY <1>1 DEF Before

LEMMA StreamLoses ==
    ASSUME NEW w, NEW h, NEW lo \in Seq(LoEntries), NEW acc, NEW los, NEW n \in Nat,
           Good(w, h, lo, acc, los, n), Whole(w, h, lo, acc, los)
    PROVE  /\ Good(w, NoItem, lo, acc, los \cup ItemUnits(h), n)
           /\ Whole(w, NoItem, lo, acc, los \cup ItemUnits(h))
<1> DEFINE X == ItemUnits(h)
<1>1. InHand(h) /\ Ids(lo, n) /\ Ready(h, lo, n) /\ w \in Seq(SUBSET Pairs) /\ InOrder(w)
  BY DEF Good, Ready
<1>2. X \in SUBSET Pairs
  BY <1>1, ItemsArePairs
<1>3. Ahead(X, InQueue(lo))
  BY <1>1, HandAhead
<1>4. X \cap InQueue(lo) = {}
  BY <1>2, <1>3, AheadDisjoint
<1>5. Units(w) \in SUBSET Pairs
  BY <1>1 DEF Units
<1>6. Ahead(Units(w), X)
  BY DEF Whole, Coming, Ahead
<1>7. Units(w) \cap X = {}
  BY <1>5, <1>6, AheadDisjoint
<1>8. X \subseteq acc \ los
  BY DEF Whole, Coming
<1>9. Coming(NoItem, lo) = InQueue(lo)
  BY HandEmpty
<1>10. Good(w, NoItem, lo, acc, los \cup X, n)
  BY <1>1, <1>8, HandEmpty DEF Good
<1> HIDE DEF X
<1>11. Units(w) \cup X \cup InQueue(lo) = acc \ los /\ Ahead(Units(w) \cup los, InQueue(lo))
  BY DEF Whole, Coming, Ahead, X
<1>12. Whole(w, NoItem, lo, acc, los \cup X)
  BY <1>3, <1>4, <1>7, <1>9, <1>11 DEF Whole, Ahead
<1> QED
  BY <1>10, <1>12 DEF X

-----------------------------------------------------------------------------
(* World state is one FIFO. *)

Stage(c) ==
    /\ wpc[c] \in {"slot", "encode"} => hand[c].kind = "frame"
    /\ wpc[c] = "write" => hand[c].kind # "none"
GoodAt(c) == Good(wire[c], hand[c], q[c].lo, accepted[c], lost[c], entries[c])
WholeAt(c) == Whole(wire[c], hand[c], q[c].lo, accepted[c], lost[c])
SoundAt(c) == Sound(wire[c], accepted[c], lost[c])

\* A client on its way out has its world state dropped, and its writer sends only lines.
Over(c) ==
    /\ ~Accepting(c) /\ hand[c].kind \in {"none", "line"}
    /\ q[c].lo = << >> \/ wpc[c] \in Past
Cut(c) == Over(c) /\ SoundAt(c)
StreamGood(c) == Stage(c) /\ GoodAt(c) /\ (WholeAt(c) \/ Cut(c))
StreamTyped ==
    /\ accepted = [c \in Clients |-> accepted[c]] /\ wire = [c \in Clients |-> wire[c]]
    /\ lost = [c \in Clients |-> lost[c]]
StreamInv == StreamTyped /\ \A c \in Clients : StreamGood(c)

LEMMA StreamInit == Init => StreamInv
<1> SUFFICES ASSUME Init PROVE StreamInv
  OBVIOUS
<1>1. /\ Units(<< >>) = {} /\ InOrder(<< >>) /\ InQueue(<< >>) = {} /\ Ids(<< >>, 0)
      /\ << >> \in Seq(SUBSET Pairs)
  BY EmptySeq DEF Units, InOrder, InQueue, Ids
<1>2. Good(<< >>, NoItem, << >>, {}, {}, 0)
  BY <1>1, HandEmpty DEF Good
<1>3. Whole(<< >>, NoItem, << >>, {}, {})
  BY <1>1, HandEmpty DEF Whole, Ahead
<1>4. EmptyQueue.lo = << >>
  BY DEF EmptyQueue
<1>5. StreamTyped
  BY DEF Init, StreamTyped
<1> QED
  BY <1>2, <1>3, <1>4, <1>5 DEF Init, StreamInv, StreamGood, GoodAt, WholeAt, Stage

\* Nothing of another client's stream changes.
StreamApart(c) ==
    \A d \in Clients \ {c} :
        UNCHANGED <<q[d], hand[d], wpc[d], closing[d], tooSlow[d], dead[d], entries[d], accepted[d],
                    wire[d], lost[d]>>

LEMMA StreamElsewhere ==
    ASSUME StreamInv, NEW c \in Clients, StreamGood(c)', StreamApart(c), StreamTyped'
    PROVE  StreamInv'
BY DEF StreamInv, StreamGood, Stage, GoodAt, WholeAt, SoundAt, Cut, Over, Accepting, StreamApart

\* A step of the client that leaves its stream alone.
LEMMA StreamSame ==
    ASSUME StreamInv, NEW c \in Clients, Stage(c)', q'[c].lo = q[c].lo,
           UNCHANGED <<hand[c], entries[c], accepted[c], wire[c], lost[c]>>,
           ~Accepting(c) => ~Accepting(c)', wpc[c] \in Past => wpc'[c] \in Past
    PROVE  StreamGood(c)'
BY DEF StreamInv, StreamGood, GoodAt, WholeAt, SoundAt, Cut, Over

LEMMA ProducerApart ==
    ASSUME WriterInv, JobsInv, StreamInv, NEW c \in Clients, Producer(c)
    PROVE  StreamApart(c) /\ StreamTyped'
<1> USE DEF WriterInv, Typed, JobsInv, StreamInv, StreamTyped, StreamApart, flags, history, Accept
<1>1. ASSUME NEW size, PushHi(c, size) PROVE StreamApart(c) /\ StreamTyped'
  BY <1>1 DEF PushHi
<1>2. ASSUME NEW size, PushWorld(c, size) \/ PushReply(c, size) PROVE StreamApart(c) /\ StreamTyped'
  BY <1>2 DEF PushWorld, PushReply
<1>3. ASSUME NEW total, NEW kind, PushRegion(c, kind, total) PROVE StreamApart(c) /\ StreamTyped'
  BY <1>3 DEF PushRegion
<1>4. ASSUME PushWorldRefused(c) PROVE StreamApart(c) /\ StreamTyped'
  BY <1>4 DEF PushWorldRefused
<1>5. ASSUME dropTooSlow(c) PROVE StreamApart(c) /\ StreamTyped'
  BY <1>5 DEF dropTooSlow
<1> QED
  BY <1>1, <1>2, <1>3, <1>4, <1>5 DEF Producer

LEMMA ProducerStream ==
    ASSUME JobsInv, WriterInv, StreamInv, NEW c \in Clients, Producer(c)
    PROVE  StreamInv'
<1>0. /\ QueueGood(q[c]) /\ q[c].lo \in Seq(LoEntries) /\ entries[c] \in Nat /\ NextId(c) = entries[c] + 1
      /\ q = [d \in Clients |-> q[d]] /\ entries = [d \in Clients |-> entries[d]]
      /\ accepted = [d \in Clients |-> accepted[d]] /\ closing \in [Clients -> BOOLEAN]
      /\ tooSlow \in [Clients -> BOOLEAN] /\ dead \in [Clients -> BOOLEAN]
  BY DEF JobsInv, JobsGood, WriterInv, Typed, QueueGood, NextId, StreamInv, StreamTyped
<1>1. StreamApart(c) /\ StreamTyped'
  BY ProducerApart
<1>2. ASSUME NEW size, q' = [q EXCEPT ![c] = push_hi(@, size)],
             UNCHANGED <<closing, dead, hand, wpc, history>>, tooSlow'[c] = tooSlow[c] \/ tooSlow'[c] = TRUE
      PROVE  StreamGood(c)'
  <2>1. q'[c].lo = q[c].lo
    BY <1>0, <1>2, PushKeepsLo
  <2>2. ~Accepting(c) => ~Accepting(c)'
    BY <1>2 DEF Accepting
  <2>3. Stage(c)'
    BY <1>2 DEF StreamInv, StreamGood, Stage
  <2> QED
    BY <1>2, <2>1, <2>2, <2>3, StreamSame DEF history
<1>3. ASSUME NEW s \in LoEntries, s.id = NextId(c), q'[c].lo = Append(q[c].lo, s), Accept(c, s),
             Accepting(c), UNCHANGED <<flags, hand, wpc, wire, lost>>
      PROVE  StreamGood(c)'
  <2>1. GoodAt(c) /\ WholeAt(c) /\ Stage(c)
    BY <1>3 DEF StreamInv, StreamGood, Cut, Over
  <2>2. entries'[c] = entries[c] + 1 /\ accepted'[c] = accepted[c] \cup EntryUnits(s)
    BY <1>0, <1>3 DEF Accept
  <2>3. GoodAt(c)' /\ WholeAt(c)'
    BY <1>0, <1>3, <2>1, <2>2, StreamGrows DEF GoodAt, WholeAt
  <2> QED
    BY <1>3, <2>1, <2>3 DEF StreamGood, Stage
<1>4. ASSUME NEW size \in BlobSizes, PushWorld(c, size) \/ PushReply(c, size)
      PROVE  StreamGood(c)'
  <2> DEFINE s == Blob(NextId(c), size)
  <2>1. /\ q' = [q EXCEPT ![c] = push_blob(@, NextId(c), size)] /\ Accept(c, s)
        /\ UNCHANGED <<hand, wpc, flags, wire, lost>> /\ Accepting(c)
    BY <1>4 DEF PushWorld, PushReply
  <2>2. s \in LoEntries /\ s.id = NextId(c)
    BY <1>0, SizesAssumption DEF Blob, LoEntries
  <2>3. q'[c].lo = Append(q[c].lo, s)
    BY <1>0, <2>1 DEF push_blob, QueueGood, Shaped
  <2> HIDE DEF s
  <2> QED
    BY <1>3, <2>1, <2>2, <2>3
<1>5. ASSUME NEW total \in Totals, NEW kind \in {"job", "cached"}, PushRegion(c, kind, total)
      PROVE  StreamGood(c)'
  <2> DEFINE s == Reply(kind, NextId(c), total)
  <2>1. /\ q' = [q EXCEPT ![c] = push_job(@, kind, NextId(c), total)] /\ Accept(c, s)
        /\ UNCHANGED <<hand, wpc, flags, wire, lost>> /\ Accepting(c)
    BY <1>5 DEF PushRegion
  <2>2. s \in LoEntries /\ s.id = NextId(c)
    BY <1>0, SizesAssumption DEF Reply, LoEntries
  <2>3. q'[c].lo = Append(q[c].lo, s)
    BY <1>0, <2>1 DEF push_job, QueueGood, Shaped
  <2> HIDE DEF s
  <2> QED
    BY <1>3, <2>1, <2>2, <2>3
<1>6. ASSUME UNCHANGED <<q, flags, hand, wpc, history>>
      PROVE  StreamGood(c)'
  BY <1>6 DEF StreamInv, StreamGood, Stage, GoodAt, WholeAt, SoundAt, Cut, Over, Accepting, flags, history
<1>7. ASSUME dropTooSlow(c)
      PROVE  StreamGood(c)'
  <2>1. CASE Accepting(c)
    <3>1. PICK size \in LineSizes : /\ tooSlow' = [tooSlow EXCEPT ![c] = TRUE]
                                    /\ q' = [q EXCEPT ![c] = push_hi(@, size)]
      BY <1>7, <2>1 DEF dropTooSlow
    <3>2. tooSlow'[c] = TRUE /\ UNCHANGED <<closing, dead, hand, wpc, history>>
      BY <1>0, <1>7, <3>1 DEF dropTooSlow
    <3> QED
      BY <1>2, <3>1, <3>2
  <2>2. CASE ~Accepting(c)
    BY <1>6, <1>7, <2>2 DEF dropTooSlow, flags
  <2> QED
    BY <2>1, <2>2
<1>8. ASSUME NEW size, PushHi(c, size)
      PROVE  StreamGood(c)'
  BY <1>2, <1>8 DEF PushHi, flags
<1>9. ASSUME PushWorldRefused(c)
      PROVE  StreamGood(c)'
  BY <1>6, <1>9 DEF PushWorldRefused
<1>10. StreamGood(c)'
  BY <1>4, <1>5, <1>7, <1>8, <1>9 DEF Producer
<1> QED
  BY <1>1, <1>10, StreamElsewhere

LEMMA WriterApart ==
    ASSUME WriterInv, JobsInv, StreamInv, NEW c \in Clients,
           Writer(c) \/ WriteReturns(c) \/ CloseOut(c) \/ Join(c)
    PROVE  StreamApart(c) /\ StreamTyped'
<1> USE DEF WriterInv, Typed, JobsInv, StreamInv, StreamTyped, StreamApart, flags, history
<1>1. CASE WriterTake(c) \/ WriterLeave(c) \/ AcquireSlot(c) \/ SlotTimeout(c)
  BY <1>1 DEF WriterTake, WriterLeave, AcquireSlot, SlotTimeout
<1>2. CASE EncodeDone(c) \/ EncodeFail(c) \/ Cleanup(c)
  BY <1>2 DEF EncodeDone, EncodeFail, Cleanup
<1>3. CASE WriteOk(c) \/ WriteFail(c) \/ CloseOut(c) \/ Join(c)
  BY <1>3 DEF WriteOk, WriteFail, CloseOut, Join
<1> QED
  BY <1>1, <1>2, <1>3 DEF Writer, WriteReturns

\* The writer takes nothing but lines from a client on its way out.
LEMMA LeavingTakes ==
    ASSUME NEW u, u.lo = << >>, QueueGood(u), ~idle(u)
    PROVE  item(u).kind = "line" /\ rest(u).lo = << >>
BY DEF item, rest, idle, QueueGood, Shaped

LEMMA NothingQueued ==
    ASSUME NEW n
    PROVE  Ids(<< >>, n) /\ InQueue(<< >>) = {}
BY DEF Ids, InQueue

LEMMA LineInHand ==
    ASSUME NEW h, h.kind \in {"none", "line"}, NEW lo, NEW n
    PROVE  Ready(h, lo, n) /\ ItemUnits(h) = {} /\ Coming(h, lo) = InQueue(lo)
BY DEF Ready, InHand, IsPiece, ItemUnits, Coming

\* The client is on its way out and its world state is dropped.
LEMMA StreamCut ==
    ASSUME StreamInv, NEW c \in Clients, q'[c].lo = << >> \/ (q'[c].lo = q[c].lo /\ wpc'[c] \in Past),
           UNCHANGED <<entries[c], accepted[c], wire[c], lost[c]>>,
           ~Accepting(c)', hand'[c].kind \in {"none", "line"}, Stage(c)'
    PROVE  StreamGood(c)'
<1>1. GoodAt(c) /\ SoundAt(c)
  BY WholeSound DEF StreamInv, StreamGood, WholeAt, Cut, Over, SoundAt
<1>2. Ids(q'[c].lo, entries[c])
  BY <1>1, NothingQueued DEF GoodAt, Good
<1>3. Ready(hand'[c], q'[c].lo, entries[c])
  BY LineInHand
<1>4. GoodAt(c)'
  BY <1>1, <1>2, <1>3 DEF GoodAt, Good
<1>5. Cut(c)'
  BY <1>1 DEF Cut, Over, SoundAt
<1> QED
  BY <1>4, <1>5 DEF StreamGood

\* The client's units move between the queue and the hand.
LEMMA StreamMoved ==
    ASSUME StreamInv, NEW c \in Clients, WholeAt(c),
           Coming(hand'[c], q'[c].lo) = Coming(hand[c], q[c].lo),
           Ids(q'[c].lo, entries[c]), Ready(hand'[c], q'[c].lo, entries[c]),
           UNCHANGED <<entries[c], accepted[c], wire[c], lost[c]>>, Stage(c)'
    PROVE  StreamGood(c)'
<1>1. GoodAt(c)
  BY DEF StreamInv, StreamGood
<1>2. GoodAt(c)' /\ WholeAt(c)'
  BY <1>1, StreamMoves DEF GoodAt, WholeAt
<1> QED
  BY <1>2 DEF StreamGood

LEMMA WriterStream ==
    ASSUME JobsInv, WriterInv, StreamInv, NEW c \in Clients,
           Writer(c) \/ WriteReturns(c) \/ CloseOut(c) \/ Join(c)
    PROVE  StreamInv'
<1>0. /\ QueueGood(q[c]) /\ q[c].lo \in Seq(LoEntries) /\ entries[c] \in Nat
      /\ q = [d \in Clients |-> q[d]] /\ hand = [d \in Clients |-> hand[d]]
      /\ lost = [d \in Clients |-> lost[d]] /\ wire = [d \in Clients |-> wire[d]]
      /\ wpc \in [Clients -> WriterStages] /\ closing \in [Clients -> BOOLEAN]
      /\ tooSlow \in [Clients -> BOOLEAN] /\ dead \in [Clients -> BOOLEAN]
      /\ Stage(c) /\ GoodAt(c) /\ (WholeAt(c) \/ Cut(c))
      /\ Ids(q[c].lo, entries[c]) /\ Ready(hand[c], q[c].lo, entries[c])
  BY DEF JobsInv, JobsGood, WriterInv, Typed, QueueGood, StreamInv, StreamTyped, StreamGood, GoodAt, Good
<1>1. ASSUME WriterTake(c)
      PROVE  StreamGood(c)'
  <2> DEFINE u == IF leaving(c) THEN drop_lo(q[c]) ELSE q[c]
             it == item(u)
  <2>1. /\ wpc' = [wpc EXCEPT ![c] = IF it.kind = "frame" THEN "slot" ELSE "write"]
        /\ q' = [q EXCEPT ![c] = rest(u)] /\ hand' = [hand EXCEPT ![c] = it]
        /\ UNCHANGED <<flags, history>> /\ ~idle(u)
    BY <1>1 DEF WriterTake
  <2>2. hand[c] = NoItem /\ wpc[c] \notin Past
    BY <1>1 DEF WriterTake, WriterInv, WriterGood, Empty, Past
  <2>3. QueueGood(u)
    BY <1>0, Dropped
  <2> HIDE DEF u, it
  <2>4. q'[c] = rest(u) /\ hand'[c] = it /\ wpc'[c] = (IF it.kind = "frame" THEN "slot" ELSE "write")
    BY <1>0, <2>1
  <2>5. CASE u.lo = << >> /\ ~Accepting(c)
    <3>1. it.kind = "line" /\ rest(u).lo = << >>
      BY <2>1, <2>3, <2>5, LeavingTakes DEF it
    <3>2. Stage(c)' /\ ~Accepting(c)'
      BY <2>1, <2>4, <2>5, <3>1 DEF Stage, Accepting, flags
    <3> QED
      BY <2>1, <2>4, <3>1, <3>2, StreamCut DEF history
  <2>6. CASE u = q[c] /\ WholeAt(c)
    <3>1. /\ Coming(it, rest(u).lo) = InQueue(q[c].lo)
          /\ Ids(rest(u).lo, entries[c]) /\ Ready(it, rest(u).lo, entries[c]) /\ it.kind # "none"
      BY <1>0, <2>1, <2>3, <2>6, TakeUnits DEF it
    <3>2. Coming(hand[c], q[c].lo) = InQueue(q[c].lo)
      BY <2>2, HandEmpty
    <3>3. Stage(c)'
      BY <2>4, <3>1 DEF Stage
    <3> QED
      BY <2>1, <2>4, <2>6, <3>1, <3>2, <3>3, StreamMoved DEF history
  <2>7. CASE leaving(c)
    <3>1. u = drop_lo(q[c])
      BY <2>7 DEF u
    <3>2. u.lo = << >> /\ ~Accepting(c)
      BY <1>0, <2>7, <3>1 DEF drop_lo, leaving, Accepting, QueueGood, Shaped
    <3> QED
      BY <2>5, <3>2
  <2>8. CASE ~leaving(c)
    <3>1. u = q[c]
      BY <2>8 DEF u
    <3> QED
      BY <1>0, <2>2, <2>5, <2>6, <3>1 DEF Cut, Over
  <2> QED
    BY <2>7, <2>8
<1>2. ASSUME WriterLeave(c) \/ Cleanup(c)
      PROVE  StreamGood(c)'
  <2>1. q' = [q EXCEPT ![c] = drop_lo(@)] /\ UNCHANGED <<flags, hand, history>>
    BY <1>2 DEF WriterLeave, Cleanup
  <2>2. q'[c].lo = << >>
    BY <1>0, <2>1 DEF drop_lo, QueueGood, Shaped
  <2>3. hand[c] = NoItem /\ ~Accepting(c)
    BY <1>2 DEF WriterLeave, Cleanup, WriterInv, WriterGood, Empty, Past, leaving, Accepting
  <2>4. wpc'[c] \in Past
    BY <1>0, <1>2 DEF WriterLeave, Cleanup, Past
  <2>5. Stage(c)' /\ hand'[c].kind = "none" /\ ~Accepting(c)'
    BY <2>1, <2>3, <2>4 DEF Stage, Past, NoItem, Accepting, flags
  <2> QED
    BY <2>1, <2>2, <2>5, StreamCut DEF history
<1>3. ASSUME SlotTimeout(c)
      PROVE  StreamGood(c)'
  <2>1. /\ q' = [q EXCEPT ![c] = requeue_front(@, hand[c])] /\ hand' = [hand EXCEPT ![c] = NoItem]
        /\ wpc' = [wpc EXCEPT ![c] = "top"] /\ UNCHANGED <<flags, history>> /\ InSlot(c)
    BY <1>3 DEF SlotTimeout, InSlot
  <2>2. hand[c] \in Frames /\ hand[c].kind = "frame"
    BY <2>1 DEF JobsInv, JobsGood, Frames
  <2>3. WholeAt(c)
    BY <1>0, <2>2 DEF Cut, Over
  <2>4. q'[c] = requeue_front(q[c], hand[c]) /\ hand'[c] = NoItem /\ wpc'[c] = "top"
    BY <1>0, <2>1
  <2>5. InQueue(q'[c].lo) = Coming(hand[c], q[c].lo) /\ Ids(q'[c].lo, entries[c])
    BY <1>0, <2>2, <2>4, RequeueUnits
  <2>6. Ready(hand'[c], q'[c].lo, entries[c]) /\ Coming(hand'[c], q'[c].lo) = InQueue(q'[c].lo)
    BY <2>4, HandEmpty
  <2>7. Stage(c)'
    BY <2>4 DEF Stage
  <2> QED
    BY <2>1, <2>3, <2>5, <2>6, <2>7, StreamMoved DEF history
<1>4. ASSUME EncodeFail(c)
      PROVE  StreamGood(c)'
  <2>1. /\ lost' = [lost EXCEPT ![c] = @ \cup ItemUnits(hand[c])] /\ hand' = [hand EXCEPT ![c] = NoItem]
        /\ wpc' = [wpc EXCEPT ![c] = "top"] /\ UNCHANGED <<q, entries, accepted, wire>>
        /\ wpc[c] = "encode"
    BY <1>4 DEF EncodeFail
  <2>2. WholeAt(c)
    BY <1>0, <2>1 DEF Cut, Over, Stage
  <2>3. hand'[c] = NoItem /\ wpc'[c] = "top" /\ lost'[c] = lost[c] \cup ItemUnits(hand[c])
    BY <1>0, <2>1
  <2>4. GoodAt(c)' /\ WholeAt(c)'
    BY <1>0, <2>1, <2>2, <2>3, StreamLoses DEF GoodAt, WholeAt
  <2> QED
    BY <2>3, <2>4 DEF StreamGood, Stage
<1>5. ASSUME WriteOk(c)
      PROVE  StreamGood(c)'
  <2>1. /\ wire' = IF hand[c].kind = "line" THEN wire
                   ELSE [wire EXCEPT ![c] = Append(@, ItemUnits(hand[c]))]
        /\ hand' = [hand EXCEPT ![c] = NoItem] /\ wpc' = [wpc EXCEPT ![c] = "top"]
        /\ UNCHANGED <<q, flags, entries, accepted, lost>> /\ wpc[c] = "write"
    BY <1>5 DEF WriteOk
  <2>2. hand'[c] = NoItem /\ wpc'[c] = "top" /\ Stage(c)'
    BY <1>0, <2>1 DEF Stage
  <2>3. CASE hand[c].kind = "line"
    <3>1. Ready(hand'[c], q'[c].lo, entries[c]) /\ Coming(hand'[c], q'[c].lo) = InQueue(q[c].lo)
      BY <2>1, <2>2, HandEmpty
    <3>2. Coming(hand[c], q[c].lo) = InQueue(q[c].lo)
      BY <2>3, LineInHand
    <3>3. CASE WholeAt(c)
      BY <1>0, <2>1, <2>2, <2>3, <3>1, <3>2, <3>3, StreamMoved
    <3>4. CASE Cut(c)
      <4>1. ~Accepting(c)' /\ q'[c].lo = << >>
        BY <1>0, <2>1, <3>4 DEF Cut, Over, Accepting, flags, Past
      <4>2. hand'[c].kind = "none"
        BY <2>2 DEF NoItem
      <4> QED
        BY <2>1, <2>2, <2>3, <4>1, <4>2, StreamCut
    <3> QED
      BY <1>0, <3>3, <3>4
  <2>4. CASE hand[c].kind # "line"
    <3>1. WholeAt(c)
      BY <1>0, <2>1, <2>4 DEF Cut, Over, Stage
    <3>2. wire'[c] = Append(wire[c], ItemUnits(hand[c]))
      BY <1>0, <2>1, <2>4
    <3>3. GoodAt(c)' /\ WholeAt(c)'
      BY <1>0, <2>1, <2>2, <3>1, <3>2, StreamSends DEF GoodAt, WholeAt
    <3> QED
      BY <2>2, <3>3 DEF StreamGood
  <2> QED
    BY <2>3, <2>4
<1>6. ASSUME WriteFail(c)
      PROVE  StreamGood(c)'
  <2>1. /\ dead' = [dead EXCEPT ![c] = TRUE] /\ hand' = [hand EXCEPT ![c] = NoItem]
        /\ wpc' = [wpc EXCEPT ![c] = "cleanup"] /\ UNCHANGED <<q, history>>
    BY <1>6 DEF WriteFail
  <2>2. hand'[c].kind = "none" /\ wpc'[c] = "cleanup" /\ ~Accepting(c)'
    BY <1>0, <2>1 DEF NoItem, Accepting
  <2>3. Stage(c)' /\ wpc'[c] \in Past
    BY <2>2 DEF Stage, Past
  <2> QED
    BY <2>1, <2>2, <2>3, StreamCut DEF history
<1>7. ASSUME AcquireSlot(c) \/ EncodeDone(c) \/ CloseOut(c) \/ Join(c)
      PROVE  StreamGood(c)'
  <2>1. /\ UNCHANGED <<q, hand, history, tooSlow, dead>> /\ (closing'[c] = closing[c] \/ closing'[c] = TRUE)
        /\ wpc[c] \in Past => wpc'[c] \in Past
    BY <1>0, <1>7 DEF AcquireSlot, EncodeDone, CloseOut, Join, flags, Past
  <2>2. Stage(c)'
    BY <1>0, <1>7 DEF AcquireSlot, EncodeDone, CloseOut, Join, Stage
  <2>3. ~Accepting(c) => ~Accepting(c)'
    BY <2>1 DEF Accepting
  <2> QED
    BY <2>1, <2>2, <2>3, StreamSame DEF history
<1>8. StreamGood(c)'
  BY <1>1, <1>2, <1>3, <1>4, <1>5, <1>6, <1>7 DEF Writer, WriteReturns
<1> QED
  BY <1>8, WriterApart, StreamElsewhere

LEMMA StreamStep == JobsInv /\ WriterInv /\ StreamInv /\ [Next]_vars => StreamInv'
<1> SUFFICES ASSUME JobsInv, WriterInv, StreamInv, [Next]_vars PROVE StreamInv'
  OBVIOUS
<1>1. ASSUME NEW c \in Clients,
             Producer(c) \/ Writer(c) \/ WriteReturns(c) \/ CloseOut(c) \/ Join(c)
      PROVE  StreamInv'
  BY <1>1, ProducerStream, WriterStream
<1>2. CASE OtherAcquires \/ OtherReleases \/ UNCHANGED vars
  <2>1. UNCHANGED <<q, flags, hand, wpc, history>>
    BY <1>2 DEF OtherAcquires, OtherReleases, vars
  <2> QED
    BY <2>1 DEF StreamInv, StreamTyped, StreamGood, Stage, GoodAt, WholeAt, SoundAt, Cut, Over, Accepting, flags, history
<1> QED
  BY <1>1, <1>2 DEF Next

LEMMA StreamKept == Spec => [](WriterInv /\ JobsInv /\ StreamInv)
BY WriterInit, WriterNext, JobsInit, JobsStep, StreamInit, StreamStep, PTL DEF Spec

\* "World state must never be silently dropped": what a client was sent, what its writer holds
\* and what is queued are all of what was accepted, in order, but for the frames whose encode
\* failed; and what one on its way out was sent is a prefix of it.
THEOREM StreamIsExact == Spec => []StreamExact
<1>1. JobsInv /\ StreamInv => StreamExact
  <2> SUFFICES ASSUME JobsInv, StreamInv, NEW c \in Clients
               PROVE  IF Accepting(c) THEN InOrder(Pipeline(c)) /\ Units(Pipeline(c)) = Due(c)
                      ELSE /\ InOrder(wire[c]) /\ Units(wire[c]) \subseteq Due(c)
                           /\ Ahead(Units(wire[c]), Due(c) \ Units(wire[c]))
    BY DEF StreamExact
  <2>1. /\ q[c].lo \in Seq(LoEntries) /\ entries[c] \in Nat
        /\ GoodAt(c) /\ (WholeAt(c) \/ Cut(c))
    BY DEF JobsInv, JobsGood, QueueGood, StreamInv, StreamGood
  <2>2. CASE WholeAt(c)
    <3>1. InOrder(Pipeline(c)) /\ Units(Pipeline(c)) = Due(c)
      BY <2>1, <2>2, WholeStream DEF GoodAt, WholeAt, Pipeline, Due
    <3>2. Sound(wire[c], accepted[c], lost[c]) /\ InOrder(wire[c])
      BY <2>1, <2>2, WholeSound DEF GoodAt, WholeAt, Good
    <3> QED
      BY <3>1, <3>2 DEF Sound, Due
  <2>3. CASE Cut(c)
    BY <2>1, <2>3 DEF Cut, Over, SoundAt, Sound, GoodAt, Good, Due
  <2> QED
    BY <2>1, <2>2, <2>3
<1> QED
  BY <1>1, StreamKept, PTL

-----------------------------------------------------------------------------
(* A reply is cached whole. *)

Named(S, id) == {x \in S : x[1] = id}
Fills == [kind : {"fill"}, id : Nat, frames : Seq(SUBSET Pairs), bytes : Nat]

\* The reply being collected is the one in hand, or the one cut open at the head.
Opened(c) ==
    \/ /\ IsPiece(hand[c]) /\ hand[c].id = fill[c].id
       /\ wpc[c] = "slot" => hand[c].off > 0
    \/ /\ hand[c].kind \in {"none", "line"} /\ q[c].lo # << >>
       /\ q[c].lo[1].kind # "blob" /\ q[c].lo[1].id = fill[c].id /\ q[c].lo[1].cursor > 0

\* It has every frame of the reply that was sent, and none of the reply was lost.
Collects(f, w, los, n) ==
    /\ f \in Fills /\ f.id \in 1..n /\ f.bytes <= FillMax
    /\ InOrder(f.frames) /\ Units(f.frames) = Named(Units(w), f.id) /\ Named(los, f.id) = {}
FillOk(c) ==
    fill[c] = NoItem \/ (Collects(fill[c], wire[c], lost[c], entries[c]) /\ Opened(c))
FiledOk(c) ==
    \A f \in filed[c] :
        /\ f.id \in 1..entries[c] /\ f.bytes <= FillMax
        /\ InOrder(f.frames) /\ Units(f.frames) = Named(accepted[c], f.id)
FillGood(c) == (FillOk(c) \/ Over(c)) /\ FiledOk(c)
FillTyped == fill = [c \in Clients |-> fill[c]] /\ filed = [c \in Clients |-> filed[c]]
FillInv == FillTyped /\ \A c \in Clients : FillGood(c)

LEMMA FillInit == Init => FillInv
BY DEF Init, FillInv, FillTyped, FillGood, FillOk, FiledOk

LEMMA FillElsewhere ==
    ASSUME FillInv, NEW c \in Clients, FillGood(c)', FillTyped', StreamApart(c),
           \A d \in Clients \ {c} : UNCHANGED <<fill[d], filed[d]>>
    PROVE  FillInv'
BY DEF FillInv, FillGood, FillOk, FiledOk, Opened, Over, Accepting, StreamApart

\* The first frame of a reply finds none of it sent or lost.
LEMMA FreshReply ==
    ASSUME NEW w, NEW h, NEW lo, NEW acc, NEW los, NEW n \in Nat,
           Good(w, h, lo, acc, los, n), Whole(w, h, lo, acc, los), IsPiece(h), h.first
    PROVE  Named(Units(w), h.id) = {} /\ Named(los, h.id) = {}
<1>1. PieceGood(h) /\ h \in Pieces /\ h.off = 0 /\ h.kind \notin {"none", "line", "blob"}
  BY DEF Good, Ready, PieceGood, IsPiece
<1>2. <<h.id, 0>> \in ItemUnits(h)
  <2>1. CASE h.total = 0
    BY <1>1, <2>1 DEF ItemUnits
  <2>2. CASE h.total # 0
    <3>1. ItemUnits(h) = ReplyUnits(h.id, 0, h.count)
      BY <1>1, <2>2 DEF ItemUnits, Pieces
    <3>2. h.count > 0 /\ h.count \in Nat
      BY <1>1, <2>2 DEF PieceGood, Pieces
    <3>3. 0 \in 0..(h.count - 1)
      BY <3>2
    <3> QED
      BY <3>1, <3>3 DEF ReplyUnits
  <2> QED
    BY <2>1, <2>2
<1>3. ASSUME NEW x \in Units(w) \cup los, x[1] = h.id
      PROVE  FALSE
  <2>1. Before(x, <<h.id, 0>>)
    BY <1>2 DEF Whole, Coming, Ahead
  <2>2. x \in acc
    BY <1>3 DEF Whole, Good
  <2>3. x[2] \in Nat /\ x[1] \in Nat
    BY <2>2 DEF Good
  <2> QED
    BY <1>3, <2>1, <2>3 DEF Before
<1> QED
  BY <1>3 DEF Named

\* The frame just sent, added to the reply being collected.
Longer(g, f, h) ==
    /\ g = [f EXCEPT !.frames = Append(@, ItemUnits(h)), !.bytes = @ + FrameBytes(h)]
    /\ ~(f.bytes + FrameBytes(h) > FillMax)

LEMMA CollectsMore ==
    ASSUME NEW w, NEW h, NEW lo \in Seq(LoEntries), NEW acc, NEW los, NEW n \in Nat,
           Good(w, h, lo, acc, los, n), Whole(w, h, lo, acc, los), IsPiece(h),
           NEW f, Collects(f, w, los, n), f.id = h.id, NEW g, Longer(g, f, h)
    PROVE  Collects(g, Append(w, ItemUnits(h)), los, n) /\ g.id = h.id /\ g # NoItem
<1> DEFINE X == ItemUnits(h)
<1>1. InHand(h) /\ PieceGood(h) /\ h \in Pieces /\ w \in Seq(SUBSET Pairs)
  BY DEF Good, Ready, PieceGood
<1>2. X \in SUBSET Pairs /\ \A x \in X : x[1] = h.id
  BY <1>1, ItemsArePairs, ItemIds
<1>3. FrameBytes(h) \in Nat
  BY <1>1 DEF FrameBytes, Pieces
<1>4. f \in Fills /\ f.frames \in Seq(SUBSET Pairs) /\ f.bytes \in Nat /\ FillMax \in Nat
  BY LimitsAssumption DEF Collects, Fills
<1> HIDE DEF X
<1>5. /\ g.frames = Append(f.frames, X) /\ g.bytes = f.bytes + FrameBytes(h) /\ g.id = f.id
      /\ g.kind = "fill" /\ g = [kind |-> g.kind, id |-> g.id, frames |-> g.frames, bytes |-> g.bytes]
  BY <1>4 DEF Fills, X, Longer
<1>6. Units(f.frames) \subseteq Units(w)
  BY DEF Collects, Named
<1>7. Ahead(Units(f.frames), X)
  BY <1>6 DEF Whole, Coming, Ahead, X
<1>8. /\ g.frames \in Seq(SUBSET Pairs) /\ Units(g.frames) = Units(f.frames) \cup X /\ InOrder(g.frames)
  BY <1>2, <1>4, <1>5, <1>7, AppendOrder DEF Collects
<1>9. Units(Append(w, X)) = Units(w) \cup X
  BY <1>1, <1>2, AppendOrder
<1>10. Units(g.frames) = Named(Units(Append(w, X)), g.id)
  BY <1>2, <1>5, <1>8, <1>9 DEF Collects, Named
<1>11. g \in Fills
  <2>1. g.id \in Nat /\ g.bytes \in Nat
    BY <1>3, <1>4, <1>5 DEF Fills
  <2> QED
    BY <1>5, <1>8, <2>1 DEF Fills
<1>12. g.bytes <= FillMax
  BY <1>3, <1>4, <1>5 DEF Longer
<1> QED
  BY <1>5, <1>8, <1>10, <1>11, <1>12 DEF Collects, NoItem, X

\* With the last frame it is the whole reply.
LEMMA CollectsAll ==
    ASSUME NEW w, NEW h, NEW lo \in Seq(LoEntries), NEW acc, NEW los, NEW n \in Nat,
           Good(w, h, lo, acc, los, n), Whole(w, h, lo, acc, los), IsPiece(h), h.last,
           NEW g, Collects(g, Append(w, ItemUnits(h)), los, n), g.id = h.id
    PROVE  Units(g.frames) = Named(acc, g.id)
<1>1. InHand(h) /\ w \in Seq(SUBSET Pairs) /\ BehindIt(h.id, lo) /\ h.id \in 1..n
  BY DEF Good, Ready
<1>2. Units(Append(w, ItemUnits(h))) = Units(w) \cup ItemUnits(h)
  BY <1>1, ItemsArePairs, AppendOrder
<1>3. ASSUME NEW x \in InQueue(lo) PROVE x[1] # h.id
  <2>1. PICK i \in 1..Len(lo) : x \in EntryUnits(lo[i])
    BY DEF InQueue
  <2>2. lo[i] \in LoEntries /\ h.id < lo[i].id
    BY <1>1 DEF BehindIt
  <2>3. x[1] = lo[i].id /\ lo[i].id \in Nat
    BY <2>1, <2>2, EntryIds
  <2> QED
    BY <1>1, <2>2, <2>3
<1>4. Units(w) \cup ItemUnits(h) \cup InQueue(lo) = acc \ los
  BY DEF Whole, Coming
<1>5. Named(acc, g.id) = Named(Units(w) \cup ItemUnits(h), g.id)
  BY <1>3, <1>4 DEF Collects, Named
<1> QED
  BY <1>2, <1>5 DEF Collects

\* A step that leaves the reply being collected alone.
LEMMA FillSame ==
    ASSUME FillInv, NEW c \in Clients,
           UNCHANGED <<fill[c], filed[c], wire[c], lost[c], hand[c], wpc[c], accepted[c], entries[c]>>,
           q'[c].lo = q[c].lo, ~Accepting(c) => ~Accepting(c)'
    PROVE  FillGood(c)'
BY DEF FillInv, FillGood, FillOk, FiledOk, Opened, Over

\* Everything collected stays so when the client is on its way out.
LEMMA FillOver ==
    ASSUME FillInv, NEW c \in Clients, UNCHANGED <<filed[c], accepted[c], entries[c]>>, Over(c)'
    PROVE  FillGood(c)'
BY DEF FillInv, FillGood, FiledOk

LEMMA FillGrows ==
    ASSUME FillInv, StreamInv, NEW c \in Clients, Accepting(c), q[c].lo \in Seq(LoEntries), entries[c] \in Nat,
           NEW s \in LoEntries, s.id = entries[c] + 1, q'[c].lo = Append(q[c].lo, s),
           entries'[c] = entries[c] + 1, accepted'[c] = accepted[c] \cup EntryUnits(s),
           UNCHANGED <<fill[c], filed[c], wire[c], lost[c], hand[c], wpc[c]>>
    PROVE  FillGood(c)'
<1>1. q[c].lo # << >> => q'[c].lo # << >> /\ q'[c].lo[1] = q[c].lo[1]
  OBVIOUS
<1>2. FillOk(c) /\ FiledOk(c)
  BY DEF FillInv, FillGood, Over
<1>3. \A id : id \in 1..entries[c] => id \in 1..entries'[c]
  OBVIOUS
<1>4. FillOk(c)'
  BY <1>1, <1>2, <1>3 DEF FillOk, Collects, Opened
<1>5. \A x \in EntryUnits(s) : x[1] = entries[c] + 1
  BY EntryIds
<1>6. \A id \in 1..entries[c] : Named(accepted'[c], id) = Named(accepted[c], id)
  BY <1>5 DEF Named
<1>7. FiledOk(c)'
  BY <1>2, <1>3, <1>6 DEF FiledOk
<1> QED
  BY <1>4, <1>7 DEF FillGood

LEMMA ProducerFill ==
    ASSUME JobsInv, WriterInv, StreamInv, FillInv, NEW c \in Clients, Producer(c)
    PROVE  FillInv'
<1>0. /\ QueueGood(q[c]) /\ q[c].lo \in Seq(LoEntries) /\ entries[c] \in Nat /\ NextId(c) = entries[c] + 1
      /\ q = [d \in Clients |-> q[d]] /\ entries = [d \in Clients |-> entries[d]]
      /\ accepted = [d \in Clients |-> accepted[d]] /\ closing \in [Clients -> BOOLEAN]
      /\ tooSlow \in [Clients -> BOOLEAN] /\ dead \in [Clients -> BOOLEAN]
  BY DEF JobsInv, JobsGood, WriterInv, Typed, QueueGood, NextId, StreamInv, StreamTyped
<1>1. UNCHANGED <<fill, filed, wire, lost, hand, wpc>> /\ StreamApart(c)
  BY ProducerApart DEF Producer, PushHi, PushWorld, PushReply, PushRegion, PushWorldRefused, dropTooSlow, history
<1>2. ASSUME NEW size, q' = [q EXCEPT ![c] = push_hi(@, size)], UNCHANGED history,
             ~Accepting(c) => ~Accepting(c)'
      PROVE  FillGood(c)'
  <2>1. q'[c].lo = q[c].lo
    BY <1>0, <1>2, PushKeepsLo
  <2> QED
    BY <1>1, <1>2, <2>1, FillSame DEF history
<1>3. ASSUME NEW s \in LoEntries, s.id = NextId(c), q'[c].lo = Append(q[c].lo, s), Accept(c, s), Accepting(c)
      PROVE  FillGood(c)'
  <2>1. entries'[c] = entries[c] + 1 /\ accepted'[c] = accepted[c] \cup EntryUnits(s)
    BY <1>0, <1>3 DEF Accept
  <2> QED
    BY <1>0, <1>1, <1>3, <2>1, FillGrows
<1>4. ASSUME NEW size \in BlobSizes, PushWorld(c, size) \/ PushReply(c, size)
      PROVE  FillGood(c)'
  <2> DEFINE s == Blob(NextId(c), size)
  <2>1. q' = [q EXCEPT ![c] = push_blob(@, NextId(c), size)] /\ Accept(c, s) /\ Accepting(c)
    BY <1>4 DEF PushWorld, PushReply
  <2>2. s \in LoEntries /\ s.id = NextId(c)
    BY <1>0, SizesAssumption DEF Blob, LoEntries
  <2>3. q'[c].lo = Append(q[c].lo, s)
    BY <1>0, <2>1 DEF push_blob, QueueGood, Shaped
  <2> HIDE DEF s
  <2> QED
    BY <1>3, <2>1, <2>2, <2>3
<1>5. ASSUME NEW total \in Totals, NEW kind \in {"job", "cached"}, PushRegion(c, kind, total)
      PROVE  FillGood(c)'
  <2> DEFINE s == Reply(kind, NextId(c), total)
  <2>1. q' = [q EXCEPT ![c] = push_job(@, kind, NextId(c), total)] /\ Accept(c, s) /\ Accepting(c)
    BY <1>5 DEF PushRegion
  <2>2. s \in LoEntries /\ s.id = NextId(c)
    BY <1>0, SizesAssumption DEF Reply, LoEntries
  <2>3. q'[c].lo = Append(q[c].lo, s)
    BY <1>0, <2>1 DEF push_job, QueueGood, Shaped
  <2> HIDE DEF s
  <2> QED
    BY <1>3, <2>1, <2>2, <2>3
<1>6. ASSUME UNCHANGED <<q, flags, history>>
      PROVE  FillGood(c)'
  BY <1>1, <1>6, FillSame DEF flags, history, Accepting
<1>7. ASSUME dropTooSlow(c)
      PROVE  FillGood(c)'
  <2>1. CASE Accepting(c)
    <3>1. PICK size \in LineSizes : q' = [q EXCEPT ![c] = push_hi(@, size)]
      BY <1>7, <2>1 DEF dropTooSlow
    <3> QED
      BY <1>2, <1>7, <2>1, <3>1 DEF dropTooSlow
  <2>2. CASE ~Accepting(c)
    BY <1>6, <1>7, <2>2 DEF dropTooSlow, flags
  <2> QED
    BY <2>1, <2>2
<1>8. ASSUME NEW size, PushHi(c, size)
      PROVE  FillGood(c)'
  BY <1>2, <1>8 DEF PushHi, flags, Accepting
<1>9. ASSUME PushWorldRefused(c)
      PROVE  FillGood(c)'
  BY <1>6, <1>9 DEF PushWorldRefused
<1>10. FillGood(c)'
  BY <1>4, <1>5, <1>7, <1>8, <1>9 DEF Producer
<1> QED
  BY <1>1, <1>10, FillElsewhere DEF FillInv, FillTyped

LEMMA WriterFillApart ==
    ASSUME WriterInv, FillInv, NEW c \in Clients,
           Writer(c) \/ WriteReturns(c) \/ CloseOut(c) \/ Join(c)
    PROVE  FillTyped' /\ \A d \in Clients \ {c} : UNCHANGED <<fill[d], filed[d]>>
<1> USE DEF FillInv, FillTyped, flags, history
<1>1. CASE WriterTake(c) \/ WriterLeave(c) \/ AcquireSlot(c) \/ SlotTimeout(c)
  BY <1>1 DEF WriterTake, WriterLeave, AcquireSlot, SlotTimeout
<1>2. CASE EncodeDone(c) \/ EncodeFail(c) \/ Cleanup(c)
  BY <1>2 DEF EncodeDone, EncodeFail, Cleanup
<1>3. CASE WriteOk(c) \/ WriteFail(c) \/ CloseOut(c) \/ Join(c)
  BY <1>3 DEF WriteOk, WriteFail, CloseOut, Join
<1> QED
  BY <1>1, <1>2, <1>3 DEF Writer, WriteReturns

\* take() takes a line, or from the head.
LEMMA TakesHead ==
    ASSUME NEW u, QueueGood(u), ~idle(u)
    PROVE  item(u).kind = "line" \/ IsPiece(item(u)) \/ (u.lo # << >> /\ u.lo[1].kind = "blob")
<1>1. CASE u.hi # << >>
  BY <1>1 DEF item
<1>2. CASE u.hi = << >>
  <2>1. u.lo # << >> /\ Head(u.lo) = u.lo[1]
    BY <1>2 DEF idle, QueueGood
  <2> QED
    BY <1>2, <2>1 DEF item, Frame, IsPiece
<1> QED
  BY <1>1, <1>2

LEMMA WriterFill ==
    ASSUME JobsInv, WriterInv, StreamInv, FillInv, NEW c \in Clients,
           Writer(c) \/ WriteReturns(c) \/ CloseOut(c) \/ Join(c)
    PROVE  FillInv'
<1>0. /\ QueueGood(q[c]) /\ q[c].lo \in Seq(LoEntries) /\ entries[c] \in Nat
      /\ q = [d \in Clients |-> q[d]] /\ hand = [d \in Clients |-> hand[d]]
      /\ fill = [d \in Clients |-> fill[d]] /\ filed = [d \in Clients |-> filed[d]]
      /\ lost = [d \in Clients |-> lost[d]] /\ wire = [d \in Clients |-> wire[d]]
      /\ wpc \in [Clients -> WriterStages] /\ closing \in [Clients -> BOOLEAN]
      /\ tooSlow \in [Clients -> BOOLEAN] /\ dead \in [Clients -> BOOLEAN]
      /\ Stage(c) /\ GoodAt(c) /\ (WholeAt(c) \/ Over(c))
      /\ Ids(q[c].lo, entries[c]) /\ Ready(hand[c], q[c].lo, entries[c])
  BY DEF JobsInv, JobsGood, WriterInv, Typed, QueueGood, StreamInv, StreamTyped, StreamGood, GoodAt, Good, Cut, FillInv, FillTyped
<1>a. (FillOk(c) \/ Over(c)) /\ FiledOk(c)
  BY DEF FillInv, FillGood
<1>1. ASSUME WriterTake(c)
      PROVE  FillGood(c)'
  <2> DEFINE u == IF leaving(c) THEN drop_lo(q[c]) ELSE q[c]
             it == item(u)
  <2>1. /\ wpc' = [wpc EXCEPT ![c] = IF it.kind = "frame" THEN "slot" ELSE "write"]
        /\ q' = [q EXCEPT ![c] = rest(u)] /\ hand' = [hand EXCEPT ![c] = it]
        /\ UNCHANGED <<flags, history>> /\ ~idle(u)
        /\ fill' = [fill EXCEPT ![c] = NoItem] \/ fill' = fill
    BY <1>1 DEF WriterTake
  <2>2. hand[c] = NoItem /\ wpc[c] \notin Past
    BY <1>1 DEF WriterTake, WriterInv, WriterGood, Empty, Past
  <2>3. QueueGood(u)
    BY <1>0, Dropped
  <2> HIDE DEF u, it
  <2>4. /\ q'[c] = rest(u) /\ hand'[c] = it /\ (fill'[c] = fill[c] \/ fill'[c] = NoItem)
        /\ UNCHANGED <<filed, accepted, entries, wire, lost>>
    BY <1>0, <2>1 DEF history
  <2>5. CASE u.lo = << >> /\ ~Accepting(c)
    <3>1. it.kind = "line" /\ rest(u).lo = << >>
      BY <2>1, <2>3, <2>5, LeavingTakes DEF it
    <3>2. Over(c)'
      BY <2>1, <2>4, <2>5, <3>1 DEF Over, Accepting, flags
    <3> QED
      BY <2>4, <3>2, FillOver
  <2>6. CASE u = q[c] /\ FillOk(c)
    <3>1. /\ Ready(it, rest(u).lo, entries[c])
          /\ it.kind = "line" => rest(u).lo = q[c].lo
          /\ IsPiece(it) => it.id = q[c].lo[1].id /\ it.off = q[c].lo[1].cursor
      BY <1>0, <2>1, <2>3, <2>6, TakeUnits DEF it
    <3>2. it.kind = "line" \/ IsPiece(it) \/ (q[c].lo # << >> /\ q[c].lo[1].kind = "blob")
      BY <2>1, <2>3, <2>6, TakesHead DEF it
    <3>3. fill[c] # NoItem => /\ q[c].lo # << >> /\ q[c].lo[1].kind # "blob"
                              /\ q[c].lo[1].id = fill[c].id /\ q[c].lo[1].cursor > 0
      BY <2>2, <2>6 DEF FillOk, Opened, IsPiece, NoItem
    <3>4. fill'[c] = NoItem \/ (fill'[c] = fill[c] /\ Opened(c)')
      BY <2>4, <3>1, <3>2, <3>3 DEF Opened
    <3>5. FillOk(c)'
      BY <2>4, <2>6, <3>4 DEF FillOk
    <3> QED
      BY <1>a, <2>4, <3>5 DEF FillGood, FiledOk
  <2>7. CASE leaving(c)
    <3>1. u = drop_lo(q[c])
      BY <2>7 DEF u
    <3>2. u.lo = << >> /\ ~Accepting(c)
      BY <1>0, <2>7, <3>1 DEF drop_lo, leaving, Accepting, QueueGood, Shaped
    <3> QED
      BY <2>5, <3>2
  <2>8. CASE ~leaving(c)
    <3>1. u = q[c]
      BY <2>8 DEF u
    <3> QED
      BY <1>a, <2>2, <2>5, <2>6, <3>1 DEF Over
  <2> QED
    BY <2>7, <2>8
<1>2. ASSUME WriterLeave(c) \/ Cleanup(c) \/ WriteFail(c)
      PROVE  FillGood(c)'
  <2>1. hand'[c] = NoItem /\ wpc'[c] \in Past /\ ~Accepting(c)'
    <3>1. CASE WriterLeave(c) \/ Cleanup(c)
      <4>1. hand[c] = NoItem /\ ~Accepting(c)
        BY <3>1 DEF WriterLeave, Cleanup, WriterInv, WriterGood, Empty, Past, leaving, Accepting
      <4> QED
        BY <1>0, <3>1, <4>1 DEF WriterLeave, Cleanup, Past, Accepting, flags
    <3>2. CASE WriteFail(c)
      BY <1>0, <3>2 DEF WriteFail, Past, Accepting
    <3> QED
      BY <1>2, <3>1, <3>2
  <2>2. Over(c)'
    BY <2>1 DEF Over, NoItem
  <2> QED
    BY <1>2, <2>2, FillOver DEF WriterLeave, Cleanup, WriteFail, history
<1>3. ASSUME SlotTimeout(c)
      PROVE  FillGood(c)'
  <2>1. /\ q' = [q EXCEPT ![c] = requeue_front(@, hand[c])] /\ hand' = [hand EXCEPT ![c] = NoItem]
        /\ UNCHANGED <<fill, history>> /\ wpc[c] = "slot"
    BY <1>3 DEF SlotTimeout
  <2>2. hand[c] \in Frames /\ hand[c].kind = "frame"
    BY <2>1 DEF JobsInv, JobsGood, Frames, InSlot
  <2>3. FillOk(c)
    BY <1>a, <2>2 DEF Over
  <2>4. q'[c] = requeue_front(q[c], hand[c]) /\ hand'[c] = NoItem
    BY <1>0, <2>1
  <2>5. /\ q'[c].lo # << >> /\ q'[c].lo[1].kind # "blob"
        /\ q'[c].lo[1].id = hand[c].id /\ q'[c].lo[1].cursor = hand[c].off
    BY <1>0, <2>2, <2>4, RequeueUnits
  <2>6. fill[c] # NoItem => Opened(c)'
    BY <2>1, <2>2, <2>3, <2>4, <2>5 DEF FillOk, Opened, NoItem
  <2> QED
    BY <1>a, <2>1, <2>3, <2>6 DEF FillGood, FillOk, FiledOk, history
<1>4. ASSUME EncodeFail(c)
      PROVE  FillGood(c)'
  <2>1. fill'[c] = NoItem /\ UNCHANGED <<filed, accepted, entries>>
    BY <1>0, <1>4 DEF EncodeFail
  <2> QED
    BY <1>a, <2>1 DEF FillGood, FillOk, FiledOk
<1>5. ASSUME AcquireSlot(c)
      PROVE  FillGood(c)'
  <2>1. /\ wpc'[c] = "encode" /\ UNCHANGED <<q, hand, history>>
        /\ fill' = IF ~hand[c].first THEN fill
                   ELSE [fill EXCEPT ![c] =
                          IF FillMax = 0 THEN NoItem
                          ELSE [kind |-> "fill", id |-> hand[c].id, frames |-> << >>, bytes |-> 0]]
    BY <1>0, <1>5 DEF AcquireSlot
  <2>2. IsPiece(hand[c]) /\ hand[c].kind = "frame"
    BY <1>0, <1>5 DEF AcquireSlot, Stage, IsPiece
  <2>3. FillOk(c) /\ WholeAt(c)
    BY <1>0, <1>a, <2>2 DEF Over
  <2>4. CASE ~hand[c].first
    <3>1. fill[c] # NoItem => Opened(c)'
      BY <2>1, <2>2, <2>3, <2>4 DEF FillOk, Opened
    <3> QED
      BY <1>a, <2>1, <2>3, <2>4, <3>1 DEF FillGood, FillOk, FiledOk, history
  <2>5. CASE hand[c].first /\ FillMax = 0
    BY <1>0, <1>a, <2>1, <2>5 DEF FillGood, FillOk, FiledOk, history
  <2>6. CASE hand[c].first /\ FillMax # 0
    <3> DEFINE f == [kind |-> "fill", id |-> hand[c].id, frames |-> << >>, bytes |-> 0]
    <3>1. fill'[c] = f
      BY <1>0, <2>1, <2>6
    <3>2. Named(Units(wire[c]), hand[c].id) = {} /\ Named(lost[c], hand[c].id) = {}
      BY <1>0, <2>2, <2>3, <2>6, FreshReply DEF GoodAt, WholeAt
    <3>3. hand[c].id \in 1..entries[c]
      BY <1>0, <2>2 DEF Ready
    <3>4. Units(<< >>) = {} /\ InOrder(<< >>) /\ << >> \in Seq(SUBSET Pairs)
      BY EmptySeq DEF Units, InOrder
    <3>5. f \in Fills /\ f.id = hand[c].id /\ f.frames = << >> /\ f.bytes <= FillMax
      BY <1>0, <3>3, <3>4, LimitsAssumption DEF Fills
    <3> HIDE DEF f
    <3>6. Collects(f, wire[c], lost[c], entries[c])
      BY <3>2, <3>3, <3>4, <3>5 DEF Collects
    <3>7. Opened(c)'
      BY <2>1, <2>2, <3>1, <3>5 DEF Opened
    <3> QED
      BY <1>a, <2>1, <3>1, <3>6, <3>7 DEF FillGood, FillOk, FiledOk, history
  <2> QED
    BY <2>4, <2>5, <2>6
<1>6. ASSUME EncodeDone(c)
      PROVE  FillGood(c)'
  <2>1. UNCHANGED <<q, hand, fill, flags, history>> /\ wpc[c] = "encode" /\ wpc'[c] = "write"
    BY <1>0, <1>6 DEF EncodeDone
  <2>2. FillOk(c)
    BY <1>0, <1>a, <2>1 DEF Over, Stage
  <2>3. fill[c] # NoItem => Opened(c)'
    BY <2>1, <2>2 DEF FillOk, Opened
  <2> QED
    BY <1>a, <2>1, <2>2, <2>3 DEF FillGood, FillOk, FiledOk, history
<1>7. ASSUME WriteOk(c)
      PROVE  FillGood(c)'
  <2>1. /\ hand'[c] = NoItem /\ wpc'[c] = "top" /\ wpc[c] = "write"
        /\ UNCHANGED <<q, flags, entries, accepted, lost>>
    BY <1>0, <1>7 DEF WriteOk
  <2>2. CASE hand[c].kind = "line"
    <3>1. UNCHANGED <<fill, filed, wire>>
      BY <1>7, <2>2 DEF WriteOk
    <3>2. FillOk(c) => FillOk(c)'
      BY <2>1, <2>2, <3>1 DEF FillOk, Opened, IsPiece, NoItem
    <3>3. Over(c) => Over(c)'
      BY <2>1 DEF Over, NoItem, Accepting, flags, Past
    <3> QED
      BY <1>a, <2>1, <3>1, <3>2, <3>3 DEF FillGood, FiledOk
  <2>3. CASE ~IsPiece(hand[c]) /\ hand[c].kind # "line"
    <3>1. UNCHANGED <<fill, filed>>
      BY <1>7, <2>3 DEF WriteOk, IsPiece
    <3>2. hand[c].kind # "none"
      BY <1>0, <2>1 DEF Stage
    <3>3. fill[c] = NoItem
      BY <1>a, <2>3, <3>2 DEF FillOk, Opened, Over
    <3> QED
      BY <1>a, <2>1, <3>1, <3>3 DEF FillGood, FillOk, FiledOk
  <2>4. CASE IsPiece(hand[c])
    <3> DEFINE g == Collected(c)
    <3>1. /\ fill' = [fill EXCEPT ![c] = IF hand[c].last THEN NoItem ELSE g]
          /\ filed' = IF hand[c].last /\ g # NoItem THEN [filed EXCEPT ![c] = @ \cup {g}] ELSE filed
          /\ wire'[c] = Append(wire[c], ItemUnits(hand[c]))
      BY <1>0, <1>7, <2>4 DEF WriteOk, IsPiece
    <3>2. FillOk(c) /\ WholeAt(c)
      BY <1>0, <1>a, <2>4 DEF Over, IsPiece
    <3>3. g # NoItem => Collects(g, wire'[c], lost[c], entries[c]) /\ g.id = hand[c].id
      <4> SUFFICES ASSUME g # NoItem
                   PROVE  Collects(g, wire'[c], lost[c], entries[c]) /\ g.id = hand[c].id
        OBVIOUS
      <4>1. fill[c] # NoItem /\ ~(fill[c].bytes + FrameBytes(hand[c]) > FillMax)
        BY DEF Collected
      <4>2. g = [fill[c] EXCEPT !.frames = Append(@, ItemUnits(hand[c])), !.bytes = @ + FrameBytes(hand[c])]
        BY <4>1 DEF Collected
      <4>3. Collects(fill[c], wire[c], lost[c], entries[c]) /\ fill[c].id = hand[c].id
        BY <2>4, <3>2, <4>1 DEF FillOk, Opened, IsPiece
      <4> HIDE DEF g
      <4>4. Longer(g, fill[c], hand[c])
        BY <4>1, <4>2 DEF Longer
      <4> QED
        BY <1>0, <2>4, <3>1, <3>2, <4>3, <4>4, CollectsMore DEF GoodAt, WholeAt
    <3> HIDE DEF g
    <3>4. CASE hand[c].last
      <4>1. fill'[c] = NoItem
        BY <1>0, <3>1, <3>4
      <4>2. filed'[c] = IF g # NoItem THEN filed[c] \cup {g} ELSE filed[c]
        BY <1>0, <3>1, <3>4
      <4>3. g # NoItem => Units(g.frames) = Named(accepted[c], g.id)
        BY <1>0, <2>4, <3>1, <3>2, <3>3, <3>4, CollectsAll DEF GoodAt, WholeAt
      <4>4. FiledOk(c)'
        BY <1>a, <2>1, <3>3, <4>2, <4>3 DEF FiledOk, Collects
      <4> QED
        BY <4>1, <4>4 DEF FillGood, FillOk
    <3>5. CASE ~hand[c].last
      <4>1. fill'[c] = g /\ filed' = filed
        BY <1>0, <3>1, <3>5
      <4>2. Continues(hand[c], q[c].lo) /\ PieceGood(hand[c])
        BY <1>0, <2>4, <3>5 DEF Ready
      <4>3. hand[c].off + hand[c].count > 0
        BY <3>5, <4>2 DEF PieceGood, Pieces
      <4>4. g # NoItem => Opened(c)'
        BY <2>1, <3>3, <4>1, <4>2, <4>3 DEF Opened, Continues, NoItem
      <4>5. FillOk(c)'
        BY <2>1, <3>3, <4>1, <4>4 DEF FillOk
      <4> QED
        BY <1>a, <2>1, <4>1, <4>5 DEF FillGood, FiledOk
    <3> QED
      BY <3>4, <3>5
  <2> QED
    BY <2>2, <2>3, <2>4
<1>8. ASSUME CloseOut(c) \/ Join(c)
      PROVE  FillGood(c)'
  BY <1>8, FillSame DEF CloseOut, Join, history, flags, Accepting
<1>9. FillGood(c)'
  BY <1>1, <1>2, <1>3, <1>4, <1>5, <1>6, <1>7, <1>8 DEF Writer, WriteReturns
<1> QED
  BY <1>9, WriterApart, WriterFillApart, FillElsewhere

LEMMA FillStep == JobsInv /\ WriterInv /\ StreamInv /\ FillInv /\ [Next]_vars => FillInv'
<1> SUFFICES ASSUME JobsInv, WriterInv, StreamInv, FillInv, [Next]_vars PROVE FillInv'
  OBVIOUS
<1>1. ASSUME NEW c \in Clients,
             Producer(c) \/ Writer(c) \/ WriteReturns(c) \/ CloseOut(c) \/ Join(c)
      PROVE  FillInv'
  BY <1>1, ProducerFill, WriterFill
<1>2. CASE OtherAcquires \/ OtherReleases \/ UNCHANGED vars
  <2>1. UNCHANGED <<q, flags, hand, wpc, fill, history>>
    BY <1>2 DEF OtherAcquires, OtherReleases, vars
  <2> QED
    BY <2>1 DEF FillInv, FillTyped, FillGood, FillOk, FiledOk, Opened, Over, Accepting, flags, history
<1> QED
  BY <1>1, <1>2 DEF Next

\* "a reply with a frame missing must never be cached": whatever was filed has every record of
\* its box, in order, across requeues, lines between the frames and failed encodes.
THEOREM FiledIsComplete == Spec => []FiledComplete
<1>1. FillInv => FiledComplete
  BY DEF FillInv, FillGood, FiledOk, FiledComplete, Named
<1> QED
  BY <1>1, StreamKept, FillInit, FillStep, PTL DEF Spec

-----------------------------------------------------------------------------
(* The bytes of a sequence of sizes. *)

Column(i, n) == {i} \X (1..n)

LEMMA Columns ==
    ASSUME NEW i, NEW n \in Nat
    PROVE  IsFiniteSet(Column(i, n)) /\ Cardinality(Column(i, n)) = n
<1>1. IsFiniteSet({i}) /\ Cardinality({i}) = 1
  BY FS_Singleton
<1>2. IsFiniteSet(1..n) /\ Cardinality(1..n) = n
  BY FS_Interval
<1>3. IsFiniteSet({i} \X (1..n)) /\ Cardinality({i} \X (1..n)) = Cardinality({i}) * Cardinality(1..n)
  BY <1>1, <1>2, FS_Product
<1>4. Cardinality({i} \X (1..n)) = 1 * n
  BY <1>1, <1>2, <1>3
<1> QED
  BY <1>3, <1>4 DEF Column

LEMMA BytesByPlace ==
    ASSUME NEW s \in Seq(Nat)
    PROVE  /\ Bytes(s) = UNION {Column(i, s[i]) : i \in 1..Len(s)}
           /\ IsFiniteSet(Bytes(s)) /\ total_bytes(s) \in Nat
           /\ \A x \in Bytes(s) : \E i \in 1..Len(s) : \E k \in 1..s[i] : x = <<i, k>>
           /\ \A i \in 1..Len(s) : \A k \in 1..s[i] : <<i, k>> \in Bytes(s)
<1> DEFINE T == {Column(i, s[i]) : i \in 1..Len(s)}
           f == [i \in 1..Len(s) |-> Column(i, s[i])]
<1>1. DOMAIN s = 1..Len(s) /\ Len(s) \in Nat /\ \A i \in 1..Len(s) : s[i] \in Nat
  OBVIOUS
<1>2. Bytes(s) = UNION T
  BY <1>1 DEF Bytes, Column
<1>3. f \in Surjection(1..Len(s), T)
  BY DEF Surjection
<1>4. IsFiniteSet(1..Len(s))
  BY <1>1, FS_Interval
<1> HIDE DEF f
<1>5. IsFiniteSet(T)
  BY <1>3, <1>4, FS_Surjection
<1>6. \A X \in T : IsFiniteSet(X)
  BY <1>1, Columns
<1>7. IsFiniteSet(UNION T)
  BY <1>5, <1>6, FS_UNION
<1>8. total_bytes(s) \in Nat
  BY <1>2, <1>7, FS_CardinalityType DEF total_bytes
<1>9. \A x \in UNION T : \E i \in 1..Len(s) : \E k \in 1..s[i] : x = <<i, k>>
  BY <1>1 DEF Column
<1>10. \A i \in 1..Len(s) : \A k \in 1..s[i] : <<i, k>> \in UNION T
  BY DEF Column
<1> QED
  BY <1>2, <1>7, <1>8, <1>9, <1>10

LEMMA BytesOfConcat ==
    ASSUME NEW s \in Seq(Nat), NEW t \in Seq(Nat)
    PROVE  total_bytes(s \o t) = total_bytes(s) + total_bytes(t)
<1> DEFINE u == s \o t
           n == Len(s)
           B == Bytes(u) \ Bytes(s)
           g == [x \in Bytes(t) |-> <<x[1] + n, x[2]>>]
<1>1. /\ u \in Seq(Nat) /\ Len(u) = n + Len(t) /\ n \in Nat /\ Len(t) \in Nat
      /\ \A i \in 1..n : u[i] = s[i]
      /\ \A i \in 1..Len(t) : u[n + i] = t[i]
  BY ConcatProperties
<1>2. /\ \A x \in Bytes(u) : \E i \in 1..Len(u) : \E k \in 1..u[i] : x = <<i, k>>
      /\ \A i \in 1..Len(u) : \A k \in 1..u[i] : <<i, k>> \in Bytes(u)
  BY <1>1, BytesByPlace
<1>3. /\ \A x \in Bytes(s) : \E i \in 1..n : \E k \in 1..s[i] : x = <<i, k>>
      /\ \A i \in 1..n : \A k \in 1..s[i] : <<i, k>> \in Bytes(s)
  BY BytesByPlace
<1>4. /\ \A x \in Bytes(t) : \E i \in 1..Len(t) : \E k \in 1..t[i] : x = <<i, k>>
      /\ \A i \in 1..Len(t) : \A k \in 1..t[i] : <<i, k>> \in Bytes(t)
  BY BytesByPlace
<1> HIDE DEF u, n
<1>5. \A x \in Bytes(s) : x \in Bytes(u)
  <2> TAKE x \in Bytes(s)
  <2>1. PICK i \in 1..n : \E k \in 1..s[i] : x = <<i, k>>
    BY <1>3
  <2>2. i \in 1..Len(u) /\ u[i] = s[i]
    BY <1>1
  <2> QED
    BY <1>2, <2>1, <2>2
<1>6. \A x \in B : \E i \in 1..Len(t) : \E k \in 1..t[i] : x = <<i + n, k>>
  <2> TAKE x \in B
  <2>1. PICK j \in 1..Len(u) : \E k \in 1..u[j] : x = <<j, k>>
    BY <1>2
  <2>2. j \notin 1..n
    BY <1>1, <1>3, <2>1
  <2>3. j - n \in 1..Len(t) /\ n + (j - n) = j /\ (j - n) + n = j
    BY <1>1, <2>2
  <2>4. u[j] = t[j - n]
    BY <1>1, <2>3
  <2> QED
    BY <2>1, <2>3, <2>4
<1>7. \A i \in 1..Len(t) : \A k \in 1..t[i] : <<i + n, k>> \in B
  <2> TAKE i \in 1..Len(t)
  <2> TAKE k \in 1..t[i]
  <2>1. i + n \in 1..Len(u) /\ i + n \notin 1..n /\ i + n = n + i
    BY <1>1
  <2>2. u[i + n] = t[i]
    BY <1>1, <2>1
  <2>3. <<i + n, k>> \in Bytes(u)
    BY <1>2, <2>1, <2>2
  <2>4. <<i + n, k>> \notin Bytes(s)
    BY <1>3, <2>1
  <2> QED
    BY <2>3, <2>4
<1>8. \A i \in 1..Len(t) : \A k \in 1..t[i] : <<i, k>> \in Bytes(t) /\ g[<<i, k>>] = <<i + n, k>>
  BY <1>4
<1>9. g \in [Bytes(t) -> B]
  BY <1>4, <1>7
<1> HIDE DEF g
<1>10. \A x, y \in Bytes(t) : g[x] = g[y] => x = y
  <2> SUFFICES ASSUME NEW x \in Bytes(t), NEW y \in Bytes(t), g[x] = g[y]
               PROVE  x = y
    OBVIOUS
  <2>1. PICK i \in 1..Len(t) : \E k \in 1..t[i] : x = <<i, k>>
    BY <1>4
  <2>2. PICK k \in 1..t[i] : x = <<i, k>>
    BY <2>1
  <2>3. PICK j \in 1..Len(t) : \E l \in 1..t[j] : y = <<j, l>>
    BY <1>4
  <2>4. PICK l \in 1..t[j] : y = <<j, l>>
    BY <2>3
  <2>5. i + n = j + n /\ k = l
    BY <1>8, <2>2, <2>4
  <2>6. i = j
    BY <1>1, <2>5
  <2> QED
    BY <2>2, <2>4, <2>5, <2>6
<1>11. \A y \in B : \E x \in Bytes(t) : g[x] = y
  <2> TAKE y \in B
  <2>1. PICK i \in 1..Len(t) : \E k \in 1..t[i] : y = <<i + n, k>>
    BY <1>6
  <2>2. PICK k \in 1..t[i] : y = <<i + n, k>>
    BY <2>1
  <2>3. <<i, k>> \in Bytes(t) /\ g[<<i, k>>] = y
    BY <1>8, <2>2
  <2> QED
    BY <2>3
<1>12. IsFiniteSet(Bytes(t)) /\ IsFiniteSet(Bytes(s)) /\ IsFiniteSet(Bytes(u))
       /\ total_bytes(s) \in Nat /\ total_bytes(t) \in Nat
  BY <1>1, BytesByPlace
<1> HIDE DEF B
<1>13. g \in Bijection(Bytes(t), B)
  BY <1>9, <1>10, <1>11 DEF Bijection, Injection, IsInjective, Surjection
<1>14. IsFiniteSet(B) /\ Cardinality(B) = total_bytes(t)
  BY <1>12, <1>13, FS_Bijection DEF ExistsBijection, total_bytes
<1>15. Bytes(u) = Bytes(s) \cup B /\ Bytes(s) \cap B = {}
  BY <1>5 DEF B
<1>16. Cardinality(Bytes(s) \cup B) = Cardinality(Bytes(s)) + Cardinality(B) - Cardinality({})
  BY <1>12, <1>14, <1>15, FS_Union
<1>17. Cardinality({}) = 0
  BY FS_EmptySet
<1> QED
  BY <1>12, <1>14, <1>15, <1>16, <1>17 DEF total_bytes, u

LEMMA BytesOfOne ==
    ASSUME NEW n \in Nat
    PROVE  <<n>> \in Seq(Nat) /\ total_bytes(<<n>>) = n
<1>1. <<n>> \in Seq(Nat) /\ DOMAIN <<n>> = {1} /\ <<n>>[1] = n
  OBVIOUS
<1>2. Bytes(<<n>>) = Column(1, n)
  BY <1>1 DEF Bytes, Column
<1> QED
  BY <1>1, <1>2, Columns DEF total_bytes

LEMMA BytesOfNone == total_bytes(<< >>) = 0
BY FS_EmptySet DEF total_bytes, Bytes

LEMMA BytesOfAppend ==
    ASSUME NEW s \in Seq(Nat), NEW n \in Nat
    PROVE  Append(s, n) \in Seq(Nat) /\ total_bytes(Append(s, n)) = total_bytes(s) + n
<1>1. Append(s, n) = s \o <<n>> /\ Append(s, n) \in Seq(Nat)
  BY AppendIsConcat, AppendProperties
<1>2. <<n>> \in Seq(Nat) /\ total_bytes(<<n>>) = n
  BY BytesOfOne
<1>3. total_bytes(s \o <<n>>) = total_bytes(s) + total_bytes(<<n>>)
  BY <1>2, BytesOfConcat
<1> QED
  BY <1>1, <1>2, <1>3

LEMMA BytesOfTail ==
    ASSUME NEW s \in Seq(Nat), s # << >>
    PROVE  /\ Tail(s) \in Seq(Nat) /\ Head(s) \in Nat
           /\ total_bytes(s) = Head(s) + total_bytes(Tail(s))
<1>1. Tail(s) \in Seq(Nat) /\ Head(s) \in Nat /\ Head(s) = s[1] /\ Len(s) >= 1 /\ Len(s) \in Nat
  BY HeadTailProperties
<1>2. s = <<Head(s)>> \o Tail(s)
  <2>1. SubSeq(s, 1, Len(s)) = <<s[1]>> \o SubSeq(s, 2, Len(s))
    BY <1>1, SubSeqRecursiveFirst
  <2> QED
    BY <1>1, <2>1, SubSeqFull, TailIsSubSeq
<1>3. <<Head(s)>> \in Seq(Nat) /\ total_bytes(<<Head(s)>>) = Head(s)
  BY <1>1, BytesOfOne
<1>4. total_bytes(<<Head(s)>> \o Tail(s)) = total_bytes(<<Head(s)>>) + total_bytes(Tail(s))
  BY <1>1, <1>3, BytesOfConcat
<1> QED
  BY <1>1, <1>2, <1>3, <1>4

\* The oldest sizes, and the rest.
LEMMA BytesOfParts ==
    ASSUME NEW s \in Seq(Nat), NEW n \in 0..Len(s)
    PROVE  /\ SubSeq(s, 1, n) \in Seq(Nat) /\ SubSeq(s, n + 1, Len(s)) \in Seq(Nat)
           /\ total_bytes(s) = total_bytes(SubSeq(s, 1, n)) + total_bytes(SubSeq(s, n + 1, Len(s)))
<1>1. Len(s) \in Nat /\ n \in Nat /\ n <= Len(s)
  OBVIOUS
<1>2. SubSeq(s, 1, n) \in Seq(Nat)
  BY <1>1, SubSeqProperties
<1>3. SubSeq(s, n + 1, Len(s)) \in Seq(Nat)
  BY <1>1, SubSeqProperties
<1>4. SubSeq(s, 1, n) \o SubSeq(s, n + 1, Len(s)) = SubSeq(s, 1, Len(s))
  <2>1. 1 \in 1..(Len(s) + 1) /\ n \in (1 - 1)..Len(s) /\ Len(s) \in n..Len(s)
    BY <1>1
  <2> QED
    BY <2>1, ConcatAdjacentSubSeq
<1>5. SubSeq(s, 1, Len(s)) = s
  BY SubSeqFull
<1>6. total_bytes(SubSeq(s, 1, n) \o SubSeq(s, n + 1, Len(s)))
        = total_bytes(SubSeq(s, 1, n)) + total_bytes(SubSeq(s, n + 1, Len(s)))
  BY <1>2, <1>3, BytesOfConcat
<1> QED
  BY <1>2, <1>3, <1>4, <1>5, <1>6

\* Every set of numbers has a least one: strict inclusion of intervals is well founded.
LEMMA Least ==
    ASSUME NEW S \in SUBSET Nat, S # {}
    PROVE  \E k \in S : \A j \in S : k <= j
<1> DEFINE R == StrictSubsetOrdering(Nat)
           T == {1..k : k \in S}
<1>1. IsWellFoundedOn(R, FiniteSubsetsOf(Nat))
  BY FS_StrictSubsetOrderingWellFounded
<1>2. \A k \in S : 1..k \in FiniteSubsetsOf(Nat)
  BY FS_Interval DEF FiniteSubsetsOf
<1>3. T \subseteq FiniteSubsetsOf(Nat) /\ T # {}
  BY <1>2
<1> HIDE DEF R
<1>4. PICK x \in T : \A y \in T : ~(<<y, x>> \in R)
  BY <1>1, <1>3, WFMin
<1>5. PICK k \in S : x = 1..k
  OBVIOUS
<1>6. ASSUME NEW j \in S, j < k PROVE FALSE
  <2>1. 1..j \subseteq 1..k /\ 1..j # 1..k
    <3>1. j \in Nat /\ k \in Nat
      OBVIOUS
    <3>2. k \in 1..k /\ k \notin 1..j
      BY <1>6, <3>1
    <3> QED
      BY <1>6, <3>1, <3>2
  <2>2. 1..j \in SUBSET Nat /\ 1..k \in SUBSET Nat
    OBVIOUS
  <2>3. \A U, V \in SUBSET Nat : U \subseteq V /\ U # V => <<U, V>> \in R
    BY DEF R, StrictSubsetOrdering
  <2>4. <<1..j, 1..k>> \in R
    BY <2>1, <2>2, <2>3
  <2>5. 1..j \in T
    OBVIOUS
  <2> HIDE DEF T
  <2> QED
    BY <1>4, <1>5, <2>4, <2>5
<1> QED
  BY <1>6

-----------------------------------------------------------------------------
(* The byte counts of a queue. *)

Volume(s) == IF s.kind = "blob" THEN s.size ELSE 0
LoSizes(lo) == [i \in DOMAIN lo |-> IF lo[i].kind = "blob" THEN lo[i].size ELSE 0]
Counted(u) == u.hi \in Seq(Nat) /\ u.hiBytes = total_bytes(u.hi) /\ u.loBytes = total_bytes(LoSizes(u.lo))

LEMMA SizesOfLo ==
    ASSUME NEW lo \in Seq(LoEntries)
    PROVE  /\ LoSizes(lo) \in Seq(Nat) /\ Len(LoSizes(lo)) = Len(lo) /\ DOMAIN LoSizes(lo) = 1..Len(lo)
           /\ \A i \in 1..Len(lo) : LoSizes(lo)[i] = Volume(lo[i]) /\ Volume(lo[i]) \in Nat
<1>1. DOMAIN lo = 1..Len(lo) /\ Len(lo) \in Nat /\ \A i \in 1..Len(lo) : lo[i] \in LoEntries
  OBVIOUS
<1>2. \A i \in 1..Len(lo) : Volume(lo[i]) \in Nat
  BY <1>1 DEF Volume, LoEntries
<1>3. LoSizes(lo) = [i \in 1..Len(lo) |-> Volume(lo[i])]
  BY <1>1 DEF LoSizes, Volume
<1>4. [i \in 1..Len(lo) |-> Volume(lo[i])] \in Seq(Nat)
  BY <1>1, <1>2, IsASeq
<1>5. LoSizes(lo) \in Seq(Nat) /\ DOMAIN LoSizes(lo) = 1..Len(lo)
  BY <1>3, <1>4
<1>6. Len(LoSizes(lo)) = Len(lo)
  BY <1>1, <1>5
<1> QED
  BY <1>2, <1>3, <1>5, <1>6

LEMMA VolumeOfAppend ==
    ASSUME NEW lo \in Seq(LoEntries), NEW s \in LoEntries
    PROVE  /\ total_bytes(LoSizes(Append(lo, s))) = total_bytes(LoSizes(lo)) + Volume(s)
           /\ Volume(s) \in Nat
<1> DEFINE new == Append(lo, s)
<1>1. /\ new \in Seq(LoEntries) /\ Len(new) = Len(lo) + 1 /\ new[Len(lo) + 1] = s /\ Len(lo) \in Nat
      /\ \A i \in 1..Len(lo) : new[i] = lo[i]
  OBVIOUS
<1> HIDE DEF new
<1>2. /\ LoSizes(lo) \in Seq(Nat) /\ Len(LoSizes(lo)) = Len(lo)
      /\ \A i \in 1..Len(lo) : LoSizes(lo)[i] = Volume(lo[i])
  BY SizesOfLo
<1>3. /\ LoSizes(new) \in Seq(Nat) /\ Len(LoSizes(new)) = Len(lo) + 1
      /\ \A i \in 1..(Len(lo) + 1) : LoSizes(new)[i] = Volume(new[i]) /\ Volume(new[i]) \in Nat
  BY <1>1, SizesOfLo
<1>4. Len(lo) + 1 \in 1..(Len(lo) + 1)
  BY <1>1
<1>5. Volume(s) \in Nat
  BY <1>1, <1>3, <1>4
<1> DEFINE a == Append(LoSizes(lo), Volume(s))
<1>6. /\ a \in Seq(Nat) /\ Len(a) = Len(lo) + 1 /\ a[Len(lo) + 1] = Volume(s)
      /\ \A i \in 1..Len(lo) : a[i] = LoSizes(lo)[i]
  BY <1>2, <1>5, AppendProperties
<1> HIDE DEF a
<1>7. \A i \in 1..(Len(lo) + 1) : LoSizes(new)[i] = a[i]
  <2> TAKE i \in 1..(Len(lo) + 1)
  <2>1. i \in 1..Len(lo) \/ i = Len(lo) + 1
    BY <1>1
  <2> QED
    BY <1>1, <1>2, <1>3, <1>6, <2>1
<1>8. LoSizes(new) = a
  BY <1>3, <1>6, <1>7, SeqEqual
<1> QED
  BY <1>2, <1>5, <1>8, BytesOfAppend DEF new, a

LEMMA VolumeOfTail ==
    ASSUME NEW lo \in Seq(LoEntries), lo # << >>
    PROVE  /\ total_bytes(LoSizes(lo)) = Volume(Head(lo)) + total_bytes(LoSizes(Tail(lo)))
           /\ Volume(Head(lo)) \in Nat /\ total_bytes(LoSizes(Tail(lo))) \in Nat
<1> DEFINE t == Tail(lo)
           s == LoSizes(lo)
<1>1. /\ t \in Seq(LoEntries) /\ Len(t) = Len(lo) - 1 /\ Len(lo) \in Nat /\ Len(lo) >= 1
      /\ Head(lo) = lo[1] /\ \A i \in 1..Len(t) : t[i] = lo[i + 1]
  OBVIOUS
<1>2. /\ s \in Seq(Nat) /\ Len(s) = Len(lo)
      /\ \A i \in 1..Len(lo) : s[i] = Volume(lo[i]) /\ Volume(lo[i]) \in Nat
  BY SizesOfLo
<1> HIDE DEF t, s
<1>3. /\ LoSizes(t) \in Seq(Nat) /\ Len(LoSizes(t)) = Len(lo) - 1
      /\ \A i \in 1..Len(t) : LoSizes(t)[i] = Volume(t[i])
  BY <1>1, SizesOfLo
<1>4. s # << >> /\ Head(s) = Volume(Head(lo)) /\ Head(s) \in Nat
  BY <1>1, <1>2
<1>5. Tail(s) \in Seq(Nat) /\ Len(Tail(s)) = Len(lo) - 1 /\ \A i \in 1..Len(t) : Tail(s)[i] = s[i + 1]
  BY <1>1, <1>2, <1>4
<1>6. \A i \in 1..Len(t) : LoSizes(t)[i] = Tail(s)[i]
  <2> TAKE i \in 1..Len(t)
  <2>1. i + 1 \in 1..Len(lo)
    BY <1>1
  <2> QED
    BY <1>1, <1>2, <1>3, <1>5, <2>1
<1>7. Tail(s) = LoSizes(t)
  BY <1>1, <1>3, <1>5, <1>6, SeqEqual
<1>8. total_bytes(s) = Head(s) + total_bytes(Tail(s))
  BY <1>2, <1>4, BytesOfTail
<1>9. total_bytes(LoSizes(t)) \in Nat
  BY <1>3, BytesByPlace
<1> QED
  BY <1>4, <1>7, <1>8, <1>9 DEF t, s

LEMMA VolumeOfCons ==
    ASSUME NEW lo \in Seq(LoEntries), NEW s \in LoEntries, Volume(s) = 0
    PROVE  total_bytes(LoSizes(<<s>> \o lo)) = total_bytes(LoSizes(lo))
<1> DEFINE new == <<s>> \o lo
<1>1. <<s>> \in Seq(LoEntries) /\ Len(<<s>>) = 1 /\ <<s>>[1] = s
  OBVIOUS
<1>2. new \in Seq(LoEntries) /\ Len(new) = 1 + Len(lo) /\ new[1] = s /\ Len(lo) \in Nat
  BY <1>1, ConcatProperties
<1>3. \A i \in 1..Len(lo) : new[i + 1] = lo[i]
  BY <1>1, ConcatProperties
<1> HIDE DEF new
<1>4. new # << >> /\ Head(new) = s /\ Tail(new) \in Seq(LoEntries) /\ Len(Tail(new)) = Len(lo)
  BY <1>2
<1>5. \A i \in 1..Len(lo) : Tail(new)[i] = lo[i]
  BY <1>2, <1>3
<1>6. Tail(new) = lo
  BY <1>4, <1>5, SeqEqual
<1>7. total_bytes(LoSizes(new)) = Volume(s) + total_bytes(LoSizes(lo)) /\ total_bytes(LoSizes(lo)) \in Nat
  BY <1>2, <1>4, <1>6, VolumeOfTail
<1> QED
  BY <1>7 DEF new

LEMMA VolumeOfRewound ==
    ASSUME NEW lo \in Seq(LoEntries), lo # << >> => lo[1].kind # "blob", NEW k \in Nat
    PROVE  LoSizes(Rewound(lo, k)) = LoSizes(lo)
<1> DEFINE new == Rewound(lo, k)
<1>1. /\ new \in Seq(LoEntries) /\ Len(new) = Len(lo) /\ Len(lo) \in Nat
      /\ \A i \in 2..Len(lo) : new[i] = lo[i]
      /\ lo # << >> => new[1] = [lo[1] EXCEPT !.cursor = k]
  BY JobsOfRewound
<1>2. /\ LoSizes(lo) \in Seq(Nat) /\ Len(LoSizes(lo)) = Len(lo)
      /\ \A i \in 1..Len(lo) : LoSizes(lo)[i] = Volume(lo[i])
  BY SizesOfLo
<1> HIDE DEF new
<1>3. /\ LoSizes(new) \in Seq(Nat) /\ Len(LoSizes(new)) = Len(lo)
      /\ \A i \in 1..Len(lo) : LoSizes(new)[i] = Volume(new[i])
  BY <1>1, SizesOfLo
<1>4. \A i \in 1..Len(lo) : Volume(new[i]) = Volume(lo[i])
  <2> TAKE i \in 1..Len(lo)
  <2>1. CASE i \in 2..Len(lo)
    BY <1>1, <2>1
  <2>2. CASE i = 1
    <3>1. lo # << >> /\ lo[1] \in LoEntries /\ lo[1].kind # "blob"
      BY <1>1, <2>2
    <3>2. new[1].kind # "blob"
      BY <1>1, <3>1 DEF LoEntries
    <3> QED
      BY <2>2, <3>1, <3>2 DEF Volume
  <2> QED
    BY <1>1, <2>1, <2>2
<1>5. \A i \in 1..Len(lo) : LoSizes(new)[i] = LoSizes(lo)[i]
  BY <1>2, <1>3, <1>4
<1> QED
  BY <1>2, <1>3, <1>5, SeqEqual DEF new

\* push_hi: the oldest lines that went are no longer counted.
LEMMA CountHi ==
    ASSUME NEW u, QueueGood(u), Counted(u), NEW size \in Nat
    PROVE  Counted(push_hi(u, size))
<1> DEFINE fits(n) == n = Len(u.hi)
                        \/ u.hiBytes - total_bytes(SubSeq(u.hi, 1, n)) + size <= HiMax
           S == {m \in 0..Len(u.hi) : fits(m)}
           n == CHOOSE m \in 0..Len(u.hi) : fits(m) /\ \A l \in 0..(m - 1) : ~fits(l)
           v == push_hi(u, size)
<1>1. u.hi \in Seq(Nat) /\ Len(u.hi) \in Nat
  BY DEF Counted
<1>2. n \in 0..Len(u.hi)
  <2>1. S \in SUBSET Nat /\ Len(u.hi) \in S
    BY <1>1
  <2>2. PICK m \in S : \A j \in S : m <= j
    BY <2>1, Least
  <2>3. m \in 0..Len(u.hi) /\ fits(m)
    BY <2>2
  <2>4. \A l \in 0..(m - 1) : ~fits(l)
    <3> SUFFICES ASSUME NEW l \in 0..(m - 1), fits(l) PROVE FALSE
      OBVIOUS
    <3>1. l \in 0..Len(u.hi) /\ ~(m <= l)
      BY <1>1, <2>3
    <3>2. l \in S
      BY <3>1
    <3> QED
      BY <2>2, <3>1, <3>2
  <2> HIDE DEF fits
  <2>5. \E k \in 0..Len(u.hi) : fits(k) /\ \A l \in 0..(k - 1) : ~fits(l)
    BY <2>3, <2>4
  <2> QED
    BY <2>5
<1>3. v = [u EXCEPT !.hi = Append(SubSeq(@, n + 1, Len(@)), size),
                    !.hiBytes = @ - total_bytes(SubSeq(u.hi, 1, n)) + size]
  BY DEF push_hi
<1> HIDE DEF n, v
<1> DEFINE old == SubSeq(u.hi, 1, n)
           keep == SubSeq(u.hi, n + 1, Len(u.hi))
<1>4. v.hi = Append(keep, size) /\ v.hiBytes = u.hiBytes - total_bytes(old) + size
      /\ v.lo = u.lo /\ v.loBytes = u.loBytes
  BY <1>3 DEF QueueGood, Shaped
<1>5. /\ old \in Seq(Nat) /\ keep \in Seq(Nat)
      /\ total_bytes(u.hi) = total_bytes(old) + total_bytes(keep)
  BY <1>1, <1>2, BytesOfParts
<1> HIDE DEF old, keep
<1>6. Append(keep, size) \in Seq(Nat) /\ total_bytes(Append(keep, size)) = total_bytes(keep) + size
  BY <1>5, BytesOfAppend
<1>7. total_bytes(old) \in Nat /\ total_bytes(keep) \in Nat
  BY <1>5, BytesByPlace
<1>8. u.hiBytes = total_bytes(u.hi)
  BY DEF Counted
<1>9. v.hiBytes = total_bytes(keep) + size
  BY <1>4, <1>5, <1>7, <1>8
<1> QED
  BY <1>4, <1>6, <1>9 DEF Counted, v

LEMMA CountPush ==
    ASSUME NEW u, QueueGood(u), Counted(u), NEW s \in LoEntries, NEW v, v.hi = u.hi, v.hiBytes = u.hiBytes,
           v.lo = Append(u.lo, s), v.loBytes = u.loBytes + Volume(s)
    PROVE  Counted(v)
BY VolumeOfAppend DEF Counted, QueueGood

LEMMA CountDrop ==
    ASSUME NEW u, QueueGood(u), Counted(u)
    PROVE  Counted(drop_lo(u))
<1>1. /\ drop_lo(u).hi = u.hi /\ drop_lo(u).hiBytes = u.hiBytes /\ drop_lo(u).lo = << >>
      /\ drop_lo(u).loBytes = 0
  BY DEF drop_lo, QueueGood, Shaped
<1>2. LoSizes(<< >>) = << >>
  BY DEF LoSizes
<1> QED
  BY <1>1, <1>2, BytesOfNone DEF Counted

LEMMA CountTake ==
    ASSUME NEW u, QueueGood(u), Counted(u), ~idle(u)
    PROVE  Counted(rest(u))
<1> DEFINE v == rest(u)
<1>0. u.lo \in Seq(LoEntries) /\ u.hi \in Seq(Nat)
  BY DEF QueueGood, Counted
<1>1. CASE u.hi # << >>
  <2>1. v.hi = Tail(u.hi) /\ v.hiBytes = u.hiBytes - Head(u.hi) /\ v.lo = u.lo /\ v.loBytes = u.loBytes
    BY <1>1 DEF rest, QueueGood, Shaped
  <2> HIDE DEF v
  <2>2. /\ Tail(u.hi) \in Seq(Nat) /\ Head(u.hi) \in Nat
        /\ total_bytes(u.hi) = Head(u.hi) + total_bytes(Tail(u.hi))
    BY <1>0, <1>1, BytesOfTail
  <2>3. total_bytes(Tail(u.hi)) \in Nat
    BY <2>2, BytesByPlace
  <2>4. u.hiBytes - Head(u.hi) = total_bytes(Tail(u.hi))
    BY <2>2, <2>3 DEF Counted
  <2> QED
    BY <2>1, <2>2, <2>4 DEF Counted, v
<1>2. CASE u.hi = << >>
  <2>1. u.lo # << >> /\ Head(u.lo) = u.lo[1] /\ Head(u.lo) \in LoEntries
    BY <1>0, <1>2 DEF idle
  <2>2. /\ total_bytes(LoSizes(u.lo)) = Volume(Head(u.lo)) + total_bytes(LoSizes(Tail(u.lo)))
        /\ Volume(Head(u.lo)) \in Nat /\ total_bytes(LoSizes(Tail(u.lo))) \in Nat
    BY <1>0, <2>1, VolumeOfTail
  <2>3. CASE Head(u.lo).kind = "blob"
    <3>1. /\ v.hi = u.hi /\ v.hiBytes = u.hiBytes /\ v.lo = Tail(u.lo)
          /\ v.loBytes = u.loBytes - Volume(Head(u.lo))
      BY <1>2, <2>3 DEF rest, QueueGood, Shaped, Volume
    <3> HIDE DEF v
    <3>2. v.loBytes = total_bytes(LoSizes(Tail(u.lo)))
      BY <2>2, <3>1 DEF Counted
    <3> QED
      BY <3>1, <3>2 DEF Counted, v
  <2>4. CASE Head(u.lo).kind # "blob" /\ Frame(Head(u.lo)).last
    <3>1. v.hi = u.hi /\ v.hiBytes = u.hiBytes /\ v.lo = Tail(u.lo) /\ v.loBytes = u.loBytes
      BY <1>2, <2>4 DEF rest, pop_region, QueueGood, Shaped
    <3>2. Volume(Head(u.lo)) = 0
      BY <2>4 DEF Volume
    <3> HIDE DEF v
    <3>3. u.loBytes = total_bytes(LoSizes(Tail(u.lo)))
      BY <2>2, <3>2 DEF Counted
    <3> QED
      BY <3>1, <3>3 DEF Counted, v
  <2>5. CASE Head(u.lo).kind # "blob" /\ ~Frame(Head(u.lo)).last
    <3> DEFINE k == u.lo[1].cursor + Frame(u.lo[1]).count
    <3>1. v.hi = u.hi /\ v.hiBytes = u.hiBytes /\ v.lo = Rewound(u.lo, k) /\ v.loBytes = u.loBytes
      BY <1>2, <2>1, <2>5 DEF rest, Rewound, QueueGood, Shaped
    <3>2. u.lo[1] \in Answers
      BY <2>1, <2>5 DEF LoEntries, Answers
    <3>3. 1 \in 1..Len(u.lo)
      BY <1>0, <2>1
    <3>4. u.lo[1].cursor <= u.lo[1].total
      BY <2>1, <2>5, <3>3 DEF QueueGood, Sent
    <3>5. k \in Nat
      BY <3>2, <3>4, LimitsAssumption DEF Frame, Answers
    <3> HIDE DEF v, k
    <3>6. LoSizes(v.lo) = LoSizes(u.lo)
      BY <1>0, <2>1, <2>5, <3>1, <3>5, VolumeOfRewound
    <3> QED
      BY <3>1, <3>6 DEF Counted, v
  <2> QED
    BY <2>3, <2>4, <2>5
<1> QED
  BY <1>1, <1>2

LEMMA CountRequeue ==
    ASSUME NEW u, QueueGood(u), Counted(u), NEW h \in Frames,
           ~h.last => u.lo # << >> /\ u.lo[1].kind # "blob"
    PROVE  Counted(requeue_front(u, h))
<1> DEFINE v == requeue_front(u, h)
<1>0. u.lo \in Seq(LoEntries) /\ h.off \in Nat
  BY DEF QueueGood, Frames
<1>1. CASE ~h.last
  <2>1. v.hi = u.hi /\ v.hiBytes = u.hiBytes /\ v.lo = Rewound(u.lo, h.off) /\ v.loBytes = u.loBytes
    BY <1>1 DEF requeue_front, Rewound, QueueGood, Shaped
  <2> HIDE DEF v
  <2>2. LoSizes(v.lo) = LoSizes(u.lo)
    BY <1>0, <1>1, <2>1, VolumeOfRewound
  <2> QED
    BY <2>1, <2>2 DEF Counted, v
<1>2. CASE h.last
  <2> DEFINE s == [kind |-> "job", id |-> h.id, total |-> h.total, cursor |-> h.off]
  <2>1. v.hi = u.hi /\ v.hiBytes = u.hiBytes /\ v.lo = <<s>> \o u.lo /\ v.loBytes = u.loBytes
    BY <1>2 DEF requeue_front, QueueGood, Shaped
  <2>2. s \in LoEntries /\ Volume(s) = 0
    BY DEF Frames, LoEntries, Volume
  <2> HIDE DEF v, s
  <2>3. total_bytes(LoSizes(v.lo)) = total_bytes(LoSizes(u.lo))
    BY <1>0, <2>1, <2>2, VolumeOfCons
  <2> QED
    BY <2>1, <2>3 DEF Counted, v
<1> QED
  BY <1>1, <1>2

-----------------------------------------------------------------------------
(* The accounting. *)

CountInv == \A c \in Clients : Counted(q[c])

LEMMA CountInit == Init => CountInv
<1> SUFFICES ASSUME Init PROVE CountInv
  OBVIOUS
<1>1. LoSizes(<< >>) = << >> /\ << >> \in Seq(Nat)
  BY EmptySeq DEF LoSizes
<1>2. Counted(EmptyQueue)
  BY <1>1, BytesOfNone DEF Counted, EmptyQueue
<1> QED
  BY <1>2 DEF Init, CountInv

\* Only one client's queue changes.
QueueApart(c) == \A d \in Clients \ {c} : q'[d] = q[d]

LEMMA CountElsewhere ==
    ASSUME CountInv, NEW c \in Clients, QueueApart(c), Counted(q'[c])
    PROVE  CountInv'
BY DEF CountInv, QueueApart

LEMMA ProducerCounts ==
    ASSUME WriterInv, JobsInv, CountInv, NEW c \in Clients, Producer(c)
    PROVE  CountInv'
<1>0. /\ QueueGood(q[c]) /\ Counted(q[c]) /\ NextId(c) \in Nat /\ q = [d \in Clients |-> q[d]]
  BY NextIdIsNat DEF WriterInv, Typed, JobsInv, JobsGood, CountInv
<1>1. ASSUME NEW size \in Nat, q' = [q EXCEPT ![c] = push_hi(@, size)]
      PROVE  CountInv'
  <2>1. q'[c] = push_hi(q[c], size) /\ QueueApart(c)
    BY <1>0, <1>1 DEF QueueApart
  <2> QED
    BY <1>0, <2>1, CountHi, CountElsewhere
<1>2. ASSUME NEW s \in LoEntries, NEW v, q' = [q EXCEPT ![c] = v], v.hi = q[c].hi, v.hiBytes = q[c].hiBytes,
             v.lo = Append(q[c].lo, s), v.loBytes = q[c].loBytes + Volume(s)
      PROVE  CountInv'
  <2>1. q'[c] = v /\ QueueApart(c)
    BY <1>0, <1>2 DEF QueueApart
  <2>2. Counted(v)
    BY <1>0, <1>2, CountPush
  <2> QED
    BY <2>1, <2>2, CountElsewhere
<1>3. ASSUME NEW size \in BlobSizes, PushWorld(c, size) \/ PushReply(c, size)
      PROVE  CountInv'
  <2> DEFINE s == Blob(NextId(c), size)
             v == push_blob(q[c], NextId(c), size)
  <2>1. q' = [q EXCEPT ![c] = v]
    BY <1>3 DEF PushWorld, PushReply
  <2>2. s \in LoEntries /\ Volume(s) = size
    BY <1>0, SizesAssumption DEF Blob, LoEntries, Volume
  <2>3. v.hi = q[c].hi /\ v.hiBytes = q[c].hiBytes /\ v.lo = Append(q[c].lo, s) /\ v.loBytes = q[c].loBytes + size
    BY <1>0 DEF push_blob, QueueGood, Shaped
  <2> HIDE DEF s, v
  <2> QED
    BY <1>2, <2>1, <2>2, <2>3
<1>4. ASSUME NEW total \in Totals, NEW kind \in {"job", "cached"}, PushRegion(c, kind, total)
      PROVE  CountInv'
  <2> DEFINE s == Reply(kind, NextId(c), total)
             v == push_job(q[c], kind, NextId(c), total)
  <2>1. q' = [q EXCEPT ![c] = v]
    BY <1>4 DEF PushRegion
  <2>2. s \in LoEntries /\ Volume(s) = 0
    BY <1>0, SizesAssumption DEF Reply, LoEntries, Volume
  <2>3. v.hi = q[c].hi /\ v.hiBytes = q[c].hiBytes /\ v.lo = Append(q[c].lo, s) /\ v.loBytes = q[c].loBytes
    BY <1>0 DEF push_job, QueueGood, Shaped
  <2>4. LoSizes(q[c].lo) \in Seq(Nat) /\ q[c].loBytes = total_bytes(LoSizes(q[c].lo))
    BY <1>0, SizesOfLo DEF QueueGood, Counted
  <2>5. q[c].loBytes + 0 = q[c].loBytes
    BY <2>4, BytesByPlace
  <2> HIDE DEF s, v
  <2> QED
    BY <1>2, <2>1, <2>2, <2>3, <2>5
<1>5. ASSUME dropTooSlow(c)
      PROVE  CountInv'
  <2>1. CASE Accepting(c)
    <3>1. PICK size \in LineSizes : q' = [q EXCEPT ![c] = push_hi(@, size)]
      BY <1>5, <2>1 DEF dropTooSlow
    <3> QED
      BY <1>1, <3>1, SizesAssumption
  <2>2. CASE ~Accepting(c)
    BY <1>5, <2>2 DEF dropTooSlow, CountInv
  <2> QED
    BY <2>1, <2>2
<1>6. ASSUME NEW size \in LineSizes, PushHi(c, size)
      PROVE  CountInv'
  BY <1>1, <1>6, SizesAssumption DEF PushHi
<1>7. ASSUME PushWorldRefused(c)
      PROVE  CountInv'
  BY <1>7 DEF PushWorldRefused, CountInv
<1> QED
  BY <1>3, <1>4, <1>5, <1>6, <1>7 DEF Producer

LEMMA WriterCounts ==
    ASSUME WriterInv, JobsInv, CountInv, NEW c \in Clients,
           Writer(c) \/ WriteReturns(c) \/ CloseOut(c) \/ Join(c)
    PROVE  CountInv'
<1>0. QueueGood(q[c]) /\ Counted(q[c]) /\ q = [d \in Clients |-> q[d]]
  BY DEF WriterInv, Typed, JobsInv, JobsGood, CountInv
<1>1. ASSUME NEW v, q' = [q EXCEPT ![c] = v], Counted(v)
      PROVE  CountInv'
  <2>1. q'[c] = v /\ QueueApart(c)
    BY <1>0, <1>1 DEF QueueApart
  <2> QED
    BY <1>1, <2>1, CountElsewhere
<1>2. CASE WriterTake(c)
  <2> DEFINE u == IF leaving(c) THEN drop_lo(q[c]) ELSE q[c]
  <2>1. q' = [q EXCEPT ![c] = rest(u)] /\ ~idle(u)
    BY <1>2 DEF WriterTake
  <2>2. QueueGood(u) /\ Counted(u)
    BY <1>0, Dropped, CountDrop
  <2> HIDE DEF u
  <2>3. Counted(rest(u))
    BY <2>1, <2>2, CountTake
  <2> QED
    BY <1>1, <2>1, <2>3
<1>3. CASE WriterLeave(c) \/ Cleanup(c)
  <2>1. q' = [q EXCEPT ![c] = drop_lo(q[c])]
    BY <1>3 DEF WriterLeave, Cleanup
  <2>2. Counted(drop_lo(q[c]))
    BY <1>0, CountDrop
  <2> QED
    BY <1>1, <2>1, <2>2
<1>4. CASE SlotTimeout(c)
  <2>1. q' = [q EXCEPT ![c] = requeue_front(q[c], hand[c])] /\ InSlot(c)
    BY <1>4 DEF SlotTimeout, InSlot
  <2>2. hand[c] \in Frames /\ (~hand[c].last => q[c].lo # << >> /\ q[c].lo[1].kind # "blob")
    BY <2>1 DEF JobsInv, JobsGood, AtHead
  <2>3. Counted(requeue_front(q[c], hand[c]))
    BY <1>0, <2>2, CountRequeue
  <2> QED
    BY <1>1, <2>1, <2>3
<1>5. CASE AcquireSlot(c) \/ EncodeDone(c) \/ EncodeFail(c) \/ WriteOk(c) \/ WriteFail(c) \/ CloseOut(c) \/ Join(c)
  BY <1>5 DEF AcquireSlot, EncodeDone, EncodeFail, WriteOk, WriteFail, CloseOut, Join, CountInv
<1> QED
  BY <1>2, <1>3, <1>4, <1>5 DEF Writer, WriteReturns

LEMMA CountStep == JobsInv /\ WriterInv /\ CountInv /\ [Next]_vars => CountInv'
<1> SUFFICES ASSUME JobsInv, WriterInv, CountInv, [Next]_vars PROVE CountInv'
  OBVIOUS
<1>1. ASSUME NEW c \in Clients,
             Producer(c) \/ Writer(c) \/ WriteReturns(c) \/ CloseOut(c) \/ Join(c)
      PROVE  CountInv'
  BY <1>1, ProducerCounts, WriterCounts
<1>2. CASE OtherAcquires \/ OtherReleases \/ UNCHANGED vars
  BY <1>2 DEF CountInv, OtherAcquires, OtherReleases, vars
<1> QED
  BY <1>1, <1>2 DEF Next

LEMMA CountKept == Spec => [](CountInv /\ JobsInv /\ SlotInv)
BY StreamKept, CountInit, CountStep, SlotInit, SlotStep, PTL DEF Spec

\* The counters the limits are tested against are what they count, on every path of every
\* queue: bytes of lines and blobs, replies, and encoder slots.
THEOREM AccountingIsExact == Spec => []AccountingExact
<1>1. CountInv /\ JobsInv /\ SlotInv => AccountingExact
  <2> SUFFICES ASSUME CountInv, JobsInv, SlotInv PROVE AccountingExact
    OBVIOUS
  <2>1. \A c \in Clients : BytesExact(q[c])
    BY DEF CountInv, Counted, BytesExact, LoSizes
  <2>2. \A c \in Clients : JobsExact(q[c])
    BY DEF JobsInv, JobsGood, QueueGood, JobsExact, Jobs
  <2> QED
    BY <2>1, <2>2 DEF AccountingExact, SlotInv
<1> QED
  BY <1>1, CountKept, PTL

-----------------------------------------------------------------------------
(* The types of what the threads hand each other. *)

Held ==
    /\ refused \in [Clients -> Nat]
    /\ shut \in [Clients -> BOOLEAN] /\ joined \in [Clients -> BOOLEAN]
    /\ \A c \in Clients : hand[c] \in HandItems

LEMMA HeldInit == Init => Held
BY DEF Init, Held, HandItems

LEMMA ItemIsHeld ==
    ASSUME NEW u, u.hi \in Seq(Nat), InHand(item(u)), item(u).kind # "none"
    PROVE  item(u) \in HandItems
<1>1. CASE u.hi # << >>
  BY <1>1 DEF item, HandItems
<1>2. CASE u.hi = << >>
  <2>1. item(u).kind # "line"
    BY <1>2 DEF item, Frame
  <2> QED
    BY <2>1 DEF InHand, Pieces, HandItems
<1> QED
  BY <1>1, <1>2

LEMMA ProducerHolds ==
    ASSUME Held, NEW c \in Clients, Producer(c)
    PROVE  Held'
<1>1. UNCHANGED <<shut, joined, hand>>
  BY DEF Producer, PushHi, PushWorld, PushReply, PushRegion, PushWorldRefused, dropTooSlow
<1>2. \/ UNCHANGED refused \/ refused' = [refused EXCEPT ![c] = @ + 1]
      \/ refused[c] > 0 /\ refused' = [refused EXCEPT ![c] = @ - 1]
  BY DEF Producer, PushHi, PushWorld, PushReply, PushRegion, PushWorldRefused, dropTooSlow
<1> QED
  BY <1>1, <1>2 DEF Held

LEMMA WriterHolds ==
    ASSUME WriterInv, JobsInv, CountInv, StreamInv', WriterInv', Held, NEW c \in Clients,
           Writer(c) \/ WriteReturns(c) \/ CloseOut(c) \/ Join(c)
    PROVE  Held'
<1>1. UNCHANGED refused
  BY DEF Writer, WriteReturns, WriterTake, WriterLeave, AcquireSlot, SlotTimeout, EncodeDone, EncodeFail,
     Cleanup, WriteOk, WriteFail, CloseOut, Join
<1>2. shut' \in [Clients -> BOOLEAN]
  <2>1. UNCHANGED shut \/ shut' = [shut EXCEPT ![c] = (dead[c] \/ tooSlow[c]) /\ ~closing[c]]
    BY DEF Writer, WriteReturns, WriterTake, WriterLeave, AcquireSlot, SlotTimeout, EncodeDone, EncodeFail,
       Cleanup, WriteOk, WriteFail, CloseOut, Join
  <2> QED
    BY <2>1 DEF Held
<1>3. joined' \in [Clients -> BOOLEAN]
  <2>1. UNCHANGED joined \/ joined' = [joined EXCEPT ![c] = TRUE]
    BY DEF Writer, WriteReturns, WriterTake, WriterLeave, AcquireSlot, SlotTimeout, EncodeDone, EncodeFail,
       Cleanup, WriteOk, WriteFail, CloseOut, Join
  <2> QED
    BY <2>1 DEF Held
<1>4. \A d \in Clients : hand'[d] \in HandItems
  <2>1. CASE WriterTake(c)
    <3> DEFINE u == IF leaving(c) THEN drop_lo(q[c]) ELSE q[c]
    <3>1. hand' = [hand EXCEPT ![c] = item(u)] /\ wpc' = [wpc EXCEPT ![c] = IF item(u).kind = "frame" THEN "slot" ELSE "write"]
      BY <2>1 DEF WriterTake
    <3>2. Counted(u)
      BY CountDrop DEF CountInv, JobsInv, JobsGood
    <3> HIDE DEF u
    <3>3. hand'[c] = item(u) /\ wpc'[c] \in {"slot", "write"}
      BY <3>1 DEF WriterInv, Typed
    <3>4. InHand(item(u)) /\ item(u).kind # "none"
      BY <3>3 DEF StreamInv, StreamGood, GoodAt, Good, Ready, Stage
    <3>5. item(u) \in HandItems
      BY <3>2, <3>4, ItemIsHeld DEF Counted
    <3> QED
      BY <3>1, <3>5 DEF Held, WriterInv, Typed
  <2>2. CASE UNCHANGED hand \/ hand' = [hand EXCEPT ![c] = NoItem]
    BY <2>2 DEF Held, HandItems, WriterInv, Typed
  <2> QED
    BY <2>1, <2>2 DEF Writer, WriteReturns, WriterLeave, AcquireSlot, SlotTimeout, EncodeDone, EncodeFail,
       Cleanup, WriteOk, WriteFail, CloseOut, Join
<1> QED
  BY <1>1, <1>2, <1>3, <1>4 DEF Held

LEMMA HeldStep == WriterInv /\ JobsInv /\ CountInv /\ StreamInv' /\ WriterInv' /\ Held /\ [Next]_vars => Held'
<1> SUFFICES ASSUME WriterInv, JobsInv, CountInv, StreamInv', WriterInv', Held, [Next]_vars PROVE Held'
  OBVIOUS
<1>1. ASSUME NEW c \in Clients,
             Producer(c) \/ Writer(c) \/ WriteReturns(c) \/ CloseOut(c) \/ Join(c)
      PROVE  Held'
  BY <1>1, ProducerHolds, WriterHolds
<1>2. CASE OtherAcquires \/ OtherReleases \/ UNCHANGED vars
  BY <1>2 DEF Held, OtherAcquires, OtherReleases, vars
<1> QED
  BY <1>1, <1>2 DEF Next

\* Queues, counters and flags keep their types - no counter of pop_region, take or push_hi goes
\* below zero - and the writer holds an item exactly while it is past the top of its loop.
THEOREM TypesHold == Spec => []TypeOK
<1>1. WriterInv /\ JobsInv /\ StreamInv /\ CountInv /\ Held => TypeOK
  <2> SUFFICES ASSUME WriterInv, JobsInv, StreamInv, CountInv, Held, NEW c \in Clients
               PROVE  /\ q[c].hi \in Seq(Nat) /\ q[c].lo \in Seq(LoEntries)
                      /\ {q[c].hiBytes, q[c].loBytes, q[c].regionJobs, refused[c]} \subseteq Nat
                      /\ {closing[c], tooSlow[c], dead[c], writing[c], shut[c], joined[c]} \subseteq BOOLEAN
                      /\ hand[c] \in HandItems
                      /\ wpc[c] \in {"top", "slot", "encode", "write", "cleanup", "exited"}
                      /\ hand[c] = NoItem <=> wpc[c] \in {"top", "cleanup", "exited"}
    BY DEF TypeOK
  <2>1. q[c].hi \in Seq(Nat) /\ q[c].lo \in Seq(LoEntries) /\ q[c].hiBytes = total_bytes(q[c].hi)
        /\ q[c].loBytes = total_bytes(LoSizes(q[c].lo)) /\ q[c].regionJobs = Cardinality(Jobs(q[c].lo))
    BY DEF CountInv, Counted, JobsInv, JobsGood, QueueGood
  <2>2. q[c].hiBytes \in Nat /\ q[c].loBytes \in Nat /\ q[c].regionJobs \in Nat
    BY <2>1, SizesOfLo, BytesByPlace, JobsAreFinite
  <2>3. wpc[c] \in WriterStages /\ (wpc[c] \in Empty => hand[c] = NoItem) /\ (wpc[c] \notin Empty => hand[c].kind # "none")
    BY DEF WriterInv, WriterGood, Typed, StreamInv, StreamGood, Stage, WriterStages, Empty
  <2>4. hand[c] = NoItem <=> wpc[c] \in Empty
    BY <2>3 DEF NoItem
  <2>5. {closing[c], tooSlow[c], dead[c], writing[c], shut[c], joined[c]} \subseteq BOOLEAN /\ refused[c] \in Nat
        /\ hand[c] \in HandItems
    BY DEF WriterInv, Typed, Held
  <2> QED
    BY <2>1, <2>2, <2>3, <2>4, <2>5 DEF WriterStages, Empty
<1> QED
  BY <1>1, StreamKept, CountKept, WriterNext, HeldInit, HeldStep, PTL DEF Spec
=============================================================================
