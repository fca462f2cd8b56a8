--------------------------- MODULE LogFoldProofs ---------------------------
(***************************************************************************)
(* That no refusal goes untold, and that a key's lines are a window apart.  *)
(***************************************************************************)
EXTENDS LogFold, TLAPS

\* A history of a key's lines and its entry tell one story: an open window began with the
\* last line, and a key with no entry has been quiet for a window.  This is what keeps the
\* line that opens the next window apart from the one before.
Quiet(e, w) == IF e = None THEN w ELSE e.age
SinceTold ==
    \A k \in Keys : /\ since["edit"][k] = Quiet(edit[k], EditWindow)
                    /\ since["audit"][k] = Quiet(audit[k], AuditWindow)

EditsAtMost == \A k \in Keys : edit[k].folded <= unsaid["edit"][k]

LogInv == TypeOK /\ SinceTold /\ EditsAtMost /\ DenialsAreCounted /\ OneLinePerWindow

USE DEF LogFoldAssumption

LEMMA Longer ==
    ASSUME LogFoldAssumption
    PROVE  /\ Longest \in Nat /\ EditWindow <= Longest /\ AuditWindow <= Longest
           /\ Window("edit") = EditWindow /\ Window("audit") = AuditWindow
           /\ "edit" \in Tables /\ "audit" \in Tables /\ "edit" # "audit"
           /\ \A t \in Tables : Window(t) \in 0..Longest
BY DEF Longest, Window, Tables

\* What an entry is, and what the operations make of one.
LEMMA EntryFacts ==
    ASSUME LogFoldAssumption, NEW w \in Nat \ {0}, NEW e \in Entries(w)
    PROVE  /\ e.folded \in 0..MaxFolded
           /\ e # None => e.age \in 0..w
           /\ e = None => e.age = -1 /\ e.folded = 0
           /\ None \in Entries(w) /\ None.age = -1 /\ None.folded = 0
           /\ Opened \in Entries(w) /\ Opened # None /\ Opened.age = 0 /\ Opened.folded = 0
<1>1. None.age = -1 /\ None.folded = 0 /\ None \in Entries(w)
  BY DEF None, Entries
<1>2. Opened.age = 0 /\ Opened.folded = 0 /\ Opened \in Entries(w)
  BY DEF Opened, Entries
<1>3. Opened # None
  BY <1>1, <1>2
<1>4. CASE e = None
  BY <1>1, <1>2, <1>3, <1>4
<1>5. CASE e # None
  <2>1. e \in [age : 0..w, folded : 0..MaxFolded]
    BY <1>5 DEF Entries
  <2> QED BY <1>1, <1>2, <1>3, <1>5, <2>1
<1> QED BY <1>4, <1>5

LEMMA FoldFacts ==
    ASSUME LogFoldAssumption, NEW w \in Nat \ {0}, NEW e \in Entries(w), e # None, e.folded < MaxFolded
    PROVE  /\ Fold(e) \in Entries(w) /\ Fold(e) # None
           /\ Fold(e).age = e.age /\ Fold(e).folded = e.folded + 1
<1>1. e \in [age : 0..w, folded : 0..MaxFolded]
  BY DEF Entries
<1>2. Fold(e).age = e.age /\ Fold(e).folded = e.folded + 1
  BY <1>1 DEF Fold
<1>3. Fold(e) \in [age : 0..w, folded : 0..MaxFolded]
  BY <1>1 DEF Fold
<1> QED BY <1>1, <1>2, <1>3, EntryFacts DEF Entries

LEMMA OlderFacts ==
    ASSUME LogFoldAssumption, NEW w \in Nat \ {0}, NEW e \in Entries(w)
    PROVE  /\ Older(e, w) \in Entries(w) /\ Older(e, w).folded = e.folded
           /\ Older(e, w) = None <=> e = None
           /\ e # None => Older(e, w).age = IF e.age < w THEN e.age + 1 ELSE e.age
<1>1. CASE e = None \/ e.age >= w
  BY <1>1, EntryFacts DEF Older
<1>2. CASE ~(e = None \/ e.age >= w)
  <2>1. e \in [age : 0..w, folded : 0..MaxFolded]
    BY <1>2 DEF Entries
  <2>2. Older(e, w) = [e EXCEPT !.age = @ + 1] /\ e.age < w
    BY <1>2, <2>1 DEF Older
  <2>3. Older(e, w).age = e.age + 1 /\ Older(e, w).folded = e.folded
    BY <2>1, <2>2
  <2>4. Older(e, w) \in [age : 0..w, folded : 0..MaxFolded]
    BY <2>1, <2>2
  <2> QED BY <1>2, <2>1, <2>2, <2>3, <2>4, EntryFacts DEF Entries
<1> QED BY <1>1, <1>2

LEMMA FlushFacts ==
    ASSUME LogFoldAssumption, NEW w \in Nat \ {0}, NEW e \in Entries(w)
    PROVE  LET f == AfterFlush(e, w) IN
           /\ f \in Entries(w)
           /\ Summed(e, w) => f = Opened /\ e # None /\ e.age = w
           /\ ~Summed(e, w) => f.folded = e.folded /\ (f = e \/ (e.age = w /\ f = None /\ e # None))
<1> DEFINE f == AfterFlush(e, w)
<1>1. CASE e = None \/ e.age < w
  <2>1. f = e /\ ~Summed(e, w)
    BY <1>1, EntryFacts DEF AfterFlush, Summed
  <2>2. f \in Entries(w) /\ f.folded = e.folded
    BY <2>1
  <2> HIDE DEF f
  <2> QED BY <2>1, <2>2 DEF f
<1>2. CASE ~(e = None \/ e.age < w) /\ e.folded = 0
  <2>1. f = None /\ ~Summed(e, w)
    BY <1>2, EntryFacts DEF AfterFlush, Summed
  <2>2. e.age = w /\ f \in Entries(w) /\ f.folded = 0
    BY <1>2, <2>1, EntryFacts
  <2> QED BY <1>2, <2>1, <2>2
<1>3. CASE ~(e = None \/ e.age < w) /\ e.folded # 0
  <2>1. f = Opened /\ Summed(e, w)
    BY <1>3, EntryFacts DEF AfterFlush, Summed
  <2>2. e.age = w /\ f \in Entries(w)
    BY <1>3, <2>1, EntryFacts
  <2> QED BY <1>3, <2>1, <2>2
<1> QED BY <1>1, <1>2, <1>3

LEMMA InitLog ==
    ASSUME LogFoldAssumption
    PROVE  Init => LogInv
<1> SUFFICES ASSUME Init PROVE LogInv
  OBVIOUS
<1>0. None \in Entries(EditWindow) /\ None \in Entries(AuditWindow) /\ None.folded = 0
  BY DEF Entries, None
<1>1. TypeOK
  <2>1. since \in [Tables -> [Keys -> 0..Longest]]
    BY Longer DEF Init
  <2>2. unsaid \in [Tables -> [Keys -> 0..MaxFolded]]
    BY DEF Init
  <2> QED BY <1>0, <2>1, <2>2 DEF Init, TypeOK
<1>2. SinceTold
  BY Longer DEF Init, SinceTold, Quiet
<1>3. DenialsAreCounted /\ OneLinePerWindow /\ EditsAtMost
  BY <1>0, Longer DEF Init, DenialsAreCounted, OneLinePerWindow, EditsAtMost
<1> QED BY <1>1, <1>2, <1>3 DEF LogInv

\* A line for keys of one table whose windows are over: nothing crowds.
LEMMA LineIsApart ==
    ASSUME LogFoldAssumption, LogInv, NEW t \in Tables, NEW keys \in SUBSET Keys, Line(t, keys),
           \A k \in keys : since[t][k] >= Window(t)
    PROVE  /\ crowded' = FALSE
           /\ since' \in [Tables -> [Keys -> 0..Longest]]
           /\ \A s \in Tables, k \in Keys :
                since'[s][k] = IF s = t /\ k \in keys THEN 0 ELSE since[s][k]
BY Longer DEF LogInv, TypeOK, Line, OneLinePerWindow

LEMMA ToldOf ==
    ASSUME LogFoldAssumption, LogInv, NEW t \in Tables, NEW keys \in SUBSET Keys, Told(t, keys)
    PROVE  /\ unsaid' \in [Tables -> [Keys -> 0..MaxFolded]]
           /\ \A s \in Tables, k \in Keys :
                unsaid'[s][k] = IF s = t /\ k \in keys THEN 0 ELSE unsaid[s][k]
BY DEF LogInv, TypeOK, Told

LEMMA FoldedOne ==
    ASSUME LogFoldAssumption, LogInv, NEW t \in Tables, NEW j \in Keys, Folded(t, j)
    PROVE  /\ unsaid' \in [Tables -> [Keys -> 0..MaxFolded]]
           /\ \A s \in Tables, k \in Keys :
                unsaid'[s][k] = IF s = t /\ k = j THEN unsaid[s][k] + 1 ELSE unsaid[s][k]
           /\ since' = since /\ crowded' = crowded /\ unsaid[t][j] < MaxFolded
BY DEF LogInv, TypeOK, Folded

LEMMA NoteEditKeeps == ASSUME LogFoldAssumption, LogInv, NEW j \in Keys, NoteEdit(j) PROVE LogInv'
<1>0. /\ edit \in [Keys -> Entries(EditWindow)] /\ edit[j] \in Entries(EditWindow)
      /\ audit \in [Keys -> Entries(AuditWindow)]
  BY DEF LogInv, TypeOK
<1>1. CASE Closed(edit[j], EditWindow)
  <2>1. since["edit"][j] >= Window("edit")
    BY <1>0, <1>1, Longer, EntryFacts DEF LogInv, SinceTold, Quiet, Closed
  <2>2. Line("edit", {j}) /\ unsaid' = unsaid /\ edit' = [edit EXCEPT ![j] = Opened] /\ audit' = audit
    BY <1>1 DEF NoteEdit
  <2>3. /\ crowded' = FALSE
        /\ since' \in [Tables -> [Keys -> 0..Longest]]
        /\ \A s \in Tables, k \in Keys : since'[s][k] = IF s = "edit" /\ k = j THEN 0 ELSE since[s][k]
    <3>1. {j} \in SUBSET Keys /\ \A k \in {j} : since["edit"][k] >= Window("edit")
      BY <2>1
    <3>2. /\ crowded' = FALSE
          /\ since' \in [Tables -> [Keys -> 0..Longest]]
          /\ \A s \in Tables, k \in Keys :
               since'[s][k] = IF s = "edit" /\ k \in {j} THEN 0 ELSE since[s][k]
      BY <2>2, <3>1, Longer, LineIsApart
    <3> QED BY <3>2
  <2>4. Opened \in Entries(EditWindow) /\ Opened # None /\ Opened.age = 0 /\ Opened.folded = 0
    BY <1>0, EntryFacts
  <2>5. TypeOK'
    BY <1>0, <2>2, <2>3, <2>4 DEF LogInv, TypeOK
  <2>6. SinceTold'
    BY <1>0, <2>2, <2>3, <2>4, Longer DEF LogInv, SinceTold, Quiet
  <2>7. EditsAtMost'
    BY <1>0, <2>2, <2>4, Longer DEF LogInv, TypeOK, EditsAtMost
  <2> QED BY <2>2, <2>3, <2>5, <2>6, <2>7 DEF LogInv, DenialsAreCounted, OneLinePerWindow
<1>2. CASE ~Closed(edit[j], EditWindow)
  <2>1. Folded("edit", j) /\ edit' = [edit EXCEPT ![j] = Fold(edit[j])] /\ audit' = audit
    BY <1>2 DEF NoteEdit
  <2>2. /\ unsaid' \in [Tables -> [Keys -> 0..MaxFolded]]
        /\ \A k \in Keys : /\ unsaid'["audit"][k] = unsaid["audit"][k]
                           /\ unsaid'["edit"][k] = IF k = j THEN unsaid["edit"][k] + 1 ELSE unsaid["edit"][k]
        /\ since' = since /\ crowded' = crowded /\ unsaid["edit"][j] < MaxFolded
    BY <2>1, Longer, FoldedOne
  <2>3. edit[j].folded < MaxFolded /\ edit[j].folded <= unsaid["edit"][j]
    BY <1>0, <2>2, Longer, EntryFacts DEF LogInv, TypeOK, EditsAtMost
  <2>4. /\ Fold(edit[j]) \in Entries(EditWindow) /\ Fold(edit[j]) # None
        /\ Fold(edit[j]).age = edit[j].age /\ Fold(edit[j]).folded = edit[j].folded + 1
    BY <1>0, <1>2, <2>3, FoldFacts DEF Closed
  <2>5. TypeOK'
    BY <1>0, <2>1, <2>2, <2>4 DEF LogInv, TypeOK
  <2>6. SinceTold'
    BY <1>0, <1>2, <2>1, <2>2, <2>4 DEF LogInv, SinceTold, Quiet, Closed
  <2>7. EditsAtMost'
    BY <1>0, <2>1, <2>2, <2>3, <2>4, Longer, EntryFacts DEF LogInv, TypeOK, EditsAtMost
  <2> QED BY <2>1, <2>2, <2>5, <2>6, <2>7 DEF LogInv, DenialsAreCounted, OneLinePerWindow
<1> QED BY <1>1, <1>2

LEMMA NoteDenialKeeps == ASSUME LogFoldAssumption, LogInv, NEW j \in Keys, NoteDenial(j) PROVE LogInv'
<1>0. /\ edit \in [Keys -> Entries(EditWindow)] /\ audit[j] \in Entries(AuditWindow)
      /\ audit \in [Keys -> Entries(AuditWindow)]
  BY DEF LogInv, TypeOK
<1>1. CASE Closed(audit[j], AuditWindow)
  <2>1. since["audit"][j] >= Window("audit")
    BY <1>0, <1>1, Longer, EntryFacts DEF LogInv, SinceTold, Quiet, Closed
  <2>2. /\ Line("audit", {j}) /\ Told("audit", {j})
        /\ audit' = [audit EXCEPT ![j] = Opened] /\ edit' = edit
    BY <1>1 DEF NoteDenial
  <2>3. /\ crowded' = FALSE
        /\ since' \in [Tables -> [Keys -> 0..Longest]]
        /\ \A s \in Tables, k \in Keys : since'[s][k] = IF s = "audit" /\ k = j THEN 0 ELSE since[s][k]
    <3>1. {j} \in SUBSET Keys /\ \A k \in {j} : since["audit"][k] >= Window("audit")
      BY <2>1
    <3>2. /\ crowded' = FALSE
          /\ since' \in [Tables -> [Keys -> 0..Longest]]
          /\ \A s \in Tables, k \in Keys :
               since'[s][k] = IF s = "audit" /\ k \in {j} THEN 0 ELSE since[s][k]
      BY <2>2, <3>1, Longer, LineIsApart
    <3> QED BY <3>2
  <2>4. /\ unsaid' \in [Tables -> [Keys -> 0..MaxFolded]]
        /\ \A s \in Tables, k \in Keys : unsaid'[s][k] = IF s = "audit" /\ k = j THEN 0 ELSE unsaid[s][k]
    BY <2>2, Longer, ToldOf
  <2>5. Opened \in Entries(AuditWindow) /\ Opened # None /\ Opened.age = 0 /\ Opened.folded = 0
    BY <1>0, EntryFacts
  <2>6. TypeOK'
    BY <1>0, <2>2, <2>3, <2>4, <2>5 DEF LogInv, TypeOK
  <2>7. SinceTold'
    BY <1>0, <2>2, <2>3, <2>5, Longer DEF LogInv, SinceTold, Quiet
  <2>8. EditsAtMost' /\ DenialsAreCounted'
    BY <1>0, <2>2, <2>4, <2>5, Longer DEF LogInv, EditsAtMost, DenialsAreCounted
  <2> QED BY <2>3, <2>6, <2>7, <2>8 DEF LogInv, OneLinePerWindow
<1>2. CASE ~Closed(audit[j], AuditWindow)
  <2>1. Folded("audit", j) /\ audit' = [audit EXCEPT ![j] = Fold(audit[j])] /\ edit' = edit
    BY <1>2 DEF NoteDenial
  <2>2. /\ unsaid' \in [Tables -> [Keys -> 0..MaxFolded]]
        /\ \A k \in Keys : /\ unsaid'["edit"][k] = unsaid["edit"][k]
                           /\ unsaid'["audit"][k] = IF k = j THEN unsaid["audit"][k] + 1 ELSE unsaid["audit"][k]
        /\ since' = since /\ crowded' = crowded /\ unsaid["audit"][j] < MaxFolded
    BY <2>1, Longer, FoldedOne
  <2>3. audit[j].folded < MaxFolded
    BY <2>2 DEF LogInv, DenialsAreCounted
  <2>4. /\ Fold(audit[j]) \in Entries(AuditWindow) /\ Fold(audit[j]) # None
        /\ Fold(audit[j]).age = audit[j].age /\ Fold(audit[j]).folded = audit[j].folded + 1
    BY <1>0, <1>2, <2>3, FoldFacts DEF Closed
  <2>5. TypeOK'
    BY <1>0, <2>1, <2>2, <2>4 DEF LogInv, TypeOK
  <2>6. SinceTold'
    BY <1>0, <1>2, <2>1, <2>2, <2>4 DEF LogInv, SinceTold, Quiet, Closed
  <2>7. EditsAtMost' /\ DenialsAreCounted'
    BY <1>0, <2>1, <2>2, <2>4 DEF LogInv, EditsAtMost, DenialsAreCounted
  <2> QED BY <2>2, <2>5, <2>6, <2>7 DEF LogInv, OneLinePerWindow
<1> QED BY <1>1, <1>2

LEMMA FlushEditsKeeps == ASSUME LogFoldAssumption, LogInv, FlushEdits PROVE LogInv'
<1> DEFINE told == {k \in Keys : Summed(edit[k], EditWindow)}
<1>0. /\ edit \in [Keys -> Entries(EditWindow)] /\ audit \in [Keys -> Entries(AuditWindow)]
  BY DEF LogInv, TypeOK
<1>1. /\ edit' = [k \in Keys |-> AfterFlush(edit[k], EditWindow)] /\ audit' = audit
      /\ Line("edit", told) /\ Told("edit", told)
  BY DEF FlushEdits
<1>2. ASSUME NEW k \in Keys
      PROVE  /\ AfterFlush(edit[k], EditWindow) \in Entries(EditWindow)
             /\ k \in told => /\ AfterFlush(edit[k], EditWindow) = Opened /\ edit[k] # None
                              /\ edit[k].age = EditWindow
             /\ k \notin told => LET f == AfterFlush(edit[k], EditWindow) IN
                  f.folded = edit[k].folded /\ (f = edit[k] \/ (edit[k].age = EditWindow /\ f = None /\ edit[k] # None))
  BY <1>0, FlushFacts
<1>3. \A k \in told : since["edit"][k] >= Window("edit")
  BY <1>2, Longer DEF LogInv, SinceTold, Quiet
<1> HIDE DEF told
<1>4. told \in SUBSET Keys
  BY DEF told
<1>5. /\ crowded' = FALSE
      /\ since' \in [Tables -> [Keys -> 0..Longest]]
      /\ \A s \in Tables, k \in Keys : since'[s][k] = IF s = "edit" /\ k \in told THEN 0 ELSE since[s][k]
  <2>1. "edit" \in Tables /\ Line("edit", told)
    BY <1>1, Longer
  <2> QED BY <1>3, <1>4, <2>1, Longer DEF LogInv, TypeOK, Line, OneLinePerWindow
<1>6. /\ unsaid' \in [Tables -> [Keys -> 0..MaxFolded]]
      /\ \A s \in Tables, k \in Keys : unsaid'[s][k] = IF s = "edit" /\ k \in told THEN 0 ELSE unsaid[s][k]
  BY <1>1, <1>4, Longer, ToldOf
<1>7. Opened # None /\ Opened.age = 0 /\ Opened.folded = 0
  BY DEF Opened, None
<1>8. TypeOK'
  BY <1>0, <1>1, <1>2, <1>5, <1>6 DEF LogInv, TypeOK
<1>9. SinceTold'
  BY <1>0, <1>1, <1>2, <1>5, <1>7, Longer DEF LogInv, SinceTold, Quiet
<1>10. EditsAtMost' /\ DenialsAreCounted'
  BY <1>0, <1>1, <1>2, <1>6, <1>7, Longer DEF LogInv, EditsAtMost, DenialsAreCounted
<1> QED BY <1>5, <1>8, <1>9, <1>10 DEF LogInv, OneLinePerWindow

LEMMA FlushDenialsKeeps == ASSUME LogFoldAssumption, LogInv, FlushDenials PROVE LogInv'
<1> DEFINE told == {k \in Keys : Summed(audit[k], AuditWindow)}
<1>0. /\ edit \in [Keys -> Entries(EditWindow)] /\ audit \in [Keys -> Entries(AuditWindow)]
  BY DEF LogInv, TypeOK
<1>1. /\ audit' = [k \in Keys |-> AfterFlush(audit[k], AuditWindow)] /\ edit' = edit
      /\ Line("audit", told) /\ Told("audit", told)
  BY DEF FlushDenials
<1>2. ASSUME NEW k \in Keys
      PROVE  /\ AfterFlush(audit[k], AuditWindow) \in Entries(AuditWindow)
             /\ k \in told => /\ AfterFlush(audit[k], AuditWindow) = Opened /\ audit[k] # None
                              /\ audit[k].age = AuditWindow
             /\ k \notin told => LET f == AfterFlush(audit[k], AuditWindow) IN
                  f.folded = audit[k].folded /\ (f = audit[k] \/ (audit[k].age = AuditWindow /\ f = None /\ audit[k] # None))
  BY <1>0, FlushFacts
<1>3. \A k \in told : since["audit"][k] >= Window("audit")
  BY <1>2, Longer DEF LogInv, SinceTold, Quiet
<1> HIDE DEF told
<1>4. told \in SUBSET Keys
  BY DEF told
<1>5. /\ crowded' = FALSE
      /\ since' \in [Tables -> [Keys -> 0..Longest]]
      /\ \A s \in Tables, k \in Keys : since'[s][k] = IF s = "audit" /\ k \in told THEN 0 ELSE since[s][k]
  <2>1. "audit" \in Tables /\ Line("audit", told)
    BY <1>1, Longer
  <2> QED BY <1>3, <1>4, <2>1, Longer DEF LogInv, TypeOK, Line, OneLinePerWindow
<1>6. /\ unsaid' \in [Tables -> [Keys -> 0..MaxFolded]]
      /\ \A s \in Tables, k \in Keys : unsaid'[s][k] = IF s = "audit" /\ k \in told THEN 0 ELSE unsaid[s][k]
  BY <1>1, <1>4, Longer, ToldOf
<1>7. Opened # None /\ Opened.age = 0 /\ Opened.folded = 0
  BY DEF Opened, None
<1>8. TypeOK'
  BY <1>0, <1>1, <1>2, <1>5, <1>6 DEF LogInv, TypeOK
<1>9. SinceTold'
  BY <1>0, <1>1, <1>2, <1>5, <1>7, Longer DEF LogInv, SinceTold, Quiet
<1>10. EditsAtMost' /\ DenialsAreCounted'
  BY <1>0, <1>1, <1>2, <1>6, <1>7, Longer DEF LogInv, EditsAtMost, DenialsAreCounted
<1> QED BY <1>5, <1>8, <1>9, <1>10 DEF LogInv, OneLinePerWindow

LEMMA TickKeeps == ASSUME LogFoldAssumption, LogInv, Tick PROVE LogInv'
<1>0. /\ edit \in [Keys -> Entries(EditWindow)] /\ audit \in [Keys -> Entries(AuditWindow)]
      /\ unsaid' = unsaid /\ crowded' = crowded
      /\ edit' = [k \in Keys |-> Older(edit[k], EditWindow)]
      /\ audit' = [k \in Keys |-> Older(audit[k], AuditWindow)]
  BY DEF LogInv, TypeOK, Tick
<1>1. ASSUME NEW k \in Keys
      PROVE  /\ Older(edit[k], EditWindow) \in Entries(EditWindow)
             /\ Older(edit[k], EditWindow).folded = edit[k].folded
             /\ Older(audit[k], AuditWindow) \in Entries(AuditWindow)
             /\ Older(audit[k], AuditWindow).folded = audit[k].folded
             /\ Older(edit[k], EditWindow) = None <=> edit[k] = None
             /\ Older(audit[k], AuditWindow) = None <=> audit[k] = None
             /\ edit[k] # None => Older(edit[k], EditWindow).age
                                    = IF edit[k].age < EditWindow THEN edit[k].age + 1 ELSE edit[k].age
             /\ audit[k] # None => Older(audit[k], AuditWindow).age
                                    = IF audit[k].age < AuditWindow THEN audit[k].age + 1 ELSE audit[k].age
  BY <1>0, OlderFacts
<1>2. \A t \in Tables, k \in Keys :
        since'[t][k] = IF since[t][k] < Window(t) THEN since[t][k] + 1 ELSE since[t][k]
  BY DEF Tick
<1>3. since' \in [Tables -> [Keys -> 0..Longest]]
  BY Longer DEF LogInv, TypeOK, Tick
<1>4. TypeOK'
  BY <1>0, <1>1, <1>3 DEF LogInv, TypeOK
<1>5. SinceTold'
  BY <1>0, <1>1, <1>2, Longer DEF LogInv, SinceTold, Quiet
<1>6. EditsAtMost' /\ DenialsAreCounted' /\ OneLinePerWindow'
  BY <1>0, <1>1 DEF LogInv, EditsAtMost, DenialsAreCounted, OneLinePerWindow
<1> QED BY <1>4, <1>5, <1>6 DEF LogInv

LEMMA LogInvariant ==
    ASSUME LogFoldAssumption
    PROVE  Spec => []LogInv
<1>1. LogInv /\ [Next]_vars => LogInv'
  <2> SUFFICES ASSUME LogInv, [Next]_vars PROVE LogInv'
    OBVIOUS
  <2>1. CASE Next
    BY <2>1, NoteEditKeeps, NoteDenialKeeps, FlushEditsKeeps, FlushDenialsKeeps, TickKeeps DEF Next
  <2>2. CASE UNCHANGED vars
    BY <2>2 DEF vars, history, LogInv, TypeOK, SinceTold, EditsAtMost, DenialsAreCounted, OneLinePerWindow
  <2> QED BY <2>1, <2>2
<1> QED BY InitLog, <1>1, PTL DEF Spec

\* Entries, ages and counts stay within their types.
THEOREM LogTypes == ASSUME LogFoldAssumption PROVE Spec => []TypeOK
BY LogInvariant, PTL DEF LogInv

\* No refusal of an edit goes untold: it is in a line, or counted in a window a line will
\* tell of (ZoneAuditAgg::note, flush).
THEOREM DenialsCounted == ASSUME LogFoldAssumption PROVE Spec => []DenialsAreCounted
BY LogInvariant, PTL DEF LogInv

\* A key's lines are a window apart in both logs, whatever their windows and however many
\* readers note and fold.
THEOREM LinesApart == ASSUME LogFoldAssumption PROVE Spec => []OneLinePerWindow
BY LogInvariant, PTL DEF LogInv
=============================================================================
