------------------------------- MODULE Signs -------------------------------
(***************************************************************************)
(* Signs hang on blocks (sign_store.h and the sign list of the server).    *)
(* Under g_signMtx, and when a block becomes air under g_worldMtx as well, *)
(* the list changes together with an index of its blocks.  The burst that  *)
(* answers SIGNQ follows at once or is marked stale; the audit lines of    *)
(* signs that went with their blocks wait until a thread that holds no     *)
(* lock writes them.                                                       *)
(*                                                                         *)
(* The list is a set: its order, and a line that is there twice, are left  *)
(* out.  The file is Persist's.  Here edits come from nowhere; Edits says  *)
(* which edits there are.                                                  *)
(***************************************************************************)
EXTENDS Naturals, FiniteSets

CONSTANTS
    SignThreads,  \* threads that edit or write audit lines
    SignCells,    \* blocks
    SignData,     \* what a sign says: [face, text]
    MaxSigns      \* SV_MAX_SIGNS

ASSUME SignsAssumption == MaxSigns \in Nat

VARIABLES
    signs,       \* g_signs: [at, face, text]
    signBlocks,  \* g_signBlocks
    burst,       \* g_signBlob
    stale,       \* g_signBurstStale
    removals,    \* g_signRemovals: [n, actor, at, signs]
    hand,        \* a thread's removals taken and not yet written
    takes,       \* history: edits that took signs
    owed         \* history: removals that have no audit line yet

signVars == <<signs, signBlocks, burst, stale, removals, hand, takes, owed>>
toll == <<removals, hand, takes, owed>>

Blocks(s) == {q.at : q \in s}
On(s, c) == {q \in s : q.at = c}

\* signsChangedLocked
signsChanged(s) ==
    /\ signs' = s
    /\ signBlocks' = Blocks(s)
    /\ burst' = s
    /\ stale' = FALSE

\* format_sign_burst over a list that changed, or the burst as it is.
refreshSignBurst ==
    /\ burst' = IF stale THEN signs ELSE burst
    /\ stale' = FALSE

\* The signs on q's block and face; upsert_sign leaves one.
Slot(q) == {r \in signs : r.at = q.at /\ r.face = q.face}
SignFits(q) == Slot(q) # {} \/ Cardinality(signs) < MaxSigns
upsert_sign(q) == (signs \ Slot(q)) \cup {q}

-----------------------------------------------------------------------------
\* A sign is placed or edited; one that is there already, or finds the list full,
\* changes nothing.
Put(q) ==
    /\ IF SignFits(q) /\ upsert_sign(q) # signs
       THEN signsChanged(upsert_sign(q))
       ELSE UNCHANGED <<signs, signBlocks, burst, stale>>
    /\ UNCHANGED toll

\* signs rm: every sign on the block.
PutOff(c) ==
    /\ signsChanged(signs \ On(signs, c))
    /\ UNCHANGED toll

\* Mutant of removeSigns: the list changes, the index and the burst are left to the drain.
RemoveSignsLazily(aired, actor) ==
    LET gone == aired \cap Blocks(signs)
        lines == {[n |-> takes, actor |-> actor, at |-> c, signs |-> On(signs, c)] : c \in gone}
    IN /\ signs' = {q \in signs : q.at \notin gone}
       /\ removals' = removals \cup lines /\ owed' = owed \cup lines
       /\ takes' = IF gone = {} THEN takes ELSE takes + 1
       /\ UNCHANGED <<signBlocks, burst, stale, hand>>

\* removeSignsOnBlock for each block of an edit that became air: their signs go.
removeSigns(aired, actor) ==
    LET gone == aired \cap signBlocks
        lines(blocks) == {[n |-> takes, actor |-> actor, at |-> c, signs |-> On(signs, c)] : c \in blocks}
    IN /\ signs' = {q \in signs : q.at \notin gone}
       /\ signBlocks' = signBlocks \ gone
       /\ removals' = removals \cup lines(gone)
       /\ stale' = (stale \/ gone # {})
       /\ owed' = owed \cup lines(aired \cap Blocks(signs))
       /\ takes' = IF gone = {} THEN takes ELSE takes + 1
       /\ UNCHANGED <<burst, hand>>

\* Mutant of Drain: the lines are copied, and cleared by nobody.
DrainCopies(t) ==
    /\ hand[t] = {}
    /\ hand' = [hand EXCEPT ![t] = removals]
    /\ refreshSignBurst
    /\ UNCHANGED <<removals, signs, signBlocks, takes, owed>>

\* drainSignRemovals: a thread takes all there are ...
Drain(t) ==
    /\ hand[t] = {}
    /\ hand' = [hand EXCEPT ![t] = removals]
    /\ removals' = {}
    /\ refreshSignBurst
    /\ UNCHANGED <<signs, signBlocks, takes, owed>>

\* ... and writes a line for each.
Write_audit(t) ==
    /\ hand' = [hand EXCEPT ![t] = {}]
    /\ owed' = owed \ hand[t]
    /\ UNCHANGED <<signs, signBlocks, burst, stale, removals, takes>>

\* A SIGNQ is answered with the burst.
serveSigns ==
    /\ refreshSignBurst
    /\ UNCHANGED <<signs, signBlocks, toll>>

\* loadSigns
LoadSigns(s) ==
    /\ signs = s /\ signBlocks = Blocks(s) /\ burst = s /\ stale = FALSE
    /\ removals = {} /\ hand = [t \in SignThreads |-> {}]
    /\ takes = 0 /\ owed = {}

-----------------------------------------------------------------------------
(* The list by itself, whatever the edits. *)

AllSigns == {[at |-> c, face |-> d.face, text |-> d.text] : c \in SignCells, d \in SignData}

InitSigns == \E s \in SUBSET AllSigns : IsFiniteSet(s) /\ Cardinality(s) <= MaxSigns /\ LoadSigns(s)

NextSigns ==
    \/ \E q \in AllSigns : Put(q)
    \/ \E c \in SignCells : PutOff(c)
    \/ \E t \in SignThreads :
          \/ \E aired \in SUBSET SignCells : removeSigns(aired, t)
          \/ Drain(t) \/ Write_audit(t)
    \/ serveSigns

SignsSpec == InitSigns /\ [][NextSigns]_signVars

\* The index is the blocks of the list, the burst is the list unless it is marked stale, and
\* the list keeps to its limit (sign_store.h upsert_sign, removeSignsOnBlock, serveSigns).
SignsCoherent ==
    /\ signBlocks = Blocks(signs)
    /\ stale \/ burst = signs
    /\ Cardinality(signs) <= MaxSigns

\* The signs an edit takes off its blocks have their audit line, under the name of the
\* player who made that edit, still to come: waiting, or in the hand of one thread.  None is
\* lost between threads that drain at the same time, and none is written twice
\* (drainSignRemovals).
RemovalsLogged ==
    /\ owed = removals \cup UNION {hand[t] : t \in SignThreads}
    /\ \A t \in SignThreads :
          /\ hand[t] \cap removals = {}
          /\ \A u \in SignThreads \ {t} : hand[t] \cap hand[u] = {}
=============================================================================
