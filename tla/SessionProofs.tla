---------------------------- MODULE SessionProofs ----------------------------
(***************************************************************************)
(* Connections, the roster and the limits of an address, for any names,    *)
(* addresses, descriptors, limits and number of connections.               *)
(***************************************************************************)
EXTENDS Session, FiniteSetTheorems, SequenceTheorems, WellFoundedInduction, TLAPS

OnRoster == {"recv", "announce", "move", "hash", "remove"}

\* What each connection's thread keeps to by itself.
Typed ==
    /\ opened \in 0..Connections
    /\ at \in [Sids -> Stages] /\ evicted \in [Sids -> BOOLEAN]
    /\ ip \in [Sids -> Ips \cup {0}] /\ fd \in [Sids -> Fds \cup {0}]
    /\ username = [s \in Sids |-> username[s]] /\ late \in [Sids -> Nat]

SessionGood(s) ==
    /\ at[s] = "none" <=> s > opened
    /\ Owns(s) => fd[s] \in Fds
    /\ Counted(s) => ip[s] \in Ips
    /\ Owns(s) /\ at[s] # "flush" => fd[s] \in clients
    /\ at[s] = "publish" => username[s] \in Wanted
    /\ evicted[s] => at[s] \in OnRoster \cup {"flush", "close"}
    /\ late[s] <= 1
    /\ late[s] > 0 => evicted[s] /\ at[s] \in {"recv", "remove", "flush", "close"}
    /\ evicted[s] /\ Owns(s) => at[s] \in {"remove", "flush"} \/ fd[s] \in shut

\* A descriptor is held by one connection.
Apart == \A s, t \in Sids : Owns(s) /\ Owns(t) /\ fd[s] = fd[t] => s = t

\* A roster entry is of the connection that holds the descriptor.
EntryGood(f) ==
    LET s == roster[f].sid IN
    /\ s \in Sids /\ at[s] \in OnRoster /\ fd[s] = f
    /\ username[s] = roster[f].name /\ username[s] # << >>
    /\ ~evicted[s]

RosterTyped ==
    \A f \in Fds : roster[f] = NoOne \/ roster[f] \in
        [sid : Sids, name : {roster[f].name}, ip : Ips, verified : {roster[f].verified}]

Roster ==
    /\ roster = [f \in Fds |-> roster[f]] /\ RosterTyped
    /\ \A f \in Listed : EntryGood(f)
    /\ UniqueNames

Core == Typed /\ (\A s \in Sids : SessionGood(s)) /\ Apart /\ Roster

-----------------------------------------------------------------------------
(* Suffixes. *)

LEMMA WantedAreSequences ==
    ASSUME NEW n \in Wanted
    PROVE  n \in Seq({n[i] : i \in 1..Len(n)} \cup Nat) /\ n # << >>
<1>1. Len(n) \in Nat \ {0} /\ n = [i \in 1..Len(n) |-> n[i]]
  BY SessionAssumption
<1> QED
  BY <1>1

LEMMA SuffixesDiffer ==
    ASSUME NEW n \in Wanted, NEW j \in Nat, NEW k \in Nat, Append(n, j) = Append(n, k)
    PROVE  j = k
<1> DEFINE S == {n[i] : i \in 1..Len(n)} \cup Nat
<1>2. n \in Seq(S)
  BY WantedAreSequences
<1>3. Append(n, j)[Len(n) + 1] = j /\ Append(n, k)[Len(n) + 1] = k
  <2>1. j \in S /\ k \in S
    OBVIOUS
  <2> HIDE DEF S
  <2> QED
    BY <1>2, <2>1, AppendProperties
<1> QED
  BY <1>3

\* The numbers below one of the least would be fewer than those below it.
LEMMA Least ==
    ASSUME NEW S \in SUBSET Nat, S # {}
    PROVE  \E k \in S : \A j \in S : k <= j
<1> DEFINE R == StrictSubsetOrdering(Nat)
           T == {1..k : k \in S}
<1>1. IsWellFoundedOn(R, FiniteSubsetsOf(Nat))
  BY FS_StrictSubsetOrderingWellFounded
<1>2. \A k \in S : 1..k \in FiniteSubsetsOf(Nat)
  BY FS_Interval DEF FiniteSubsetsOf
<1>3. T \subseteq FiniteSubsetsOf(Nat) /\ T # {}
  BY <1>2
<1> HIDE DEF R
<1>4. PICK x \in T : \A y \in T : ~(<<y, x>> \in R)
  BY <1>1, <1>3, WFMin
<1>5. PICK k \in S : x = 1..k
  OBVIOUS
<1>6. ASSUME NEW j \in S, j < k PROVE FALSE
  <2>1. 1..j \subseteq 1..k /\ 1..j # 1..k
    <3>1. j \in Nat /\ k \in Nat
      OBVIOUS
    <3>2. k \in 1..k /\ k \notin 1..j
      BY <1>6, <3>1
    <3> QED
      BY <1>6, <3>1, <3>2
  <2>2. 1..j \in SUBSET Nat /\ 1..k \in SUBSET Nat
    OBVIOUS
  <2>3. \A U, V \in SUBSET Nat : U \subseteq V /\ U # V => <<U, V>> \in R
    BY DEF R, StrictSubsetOrdering
  <2>4. <<1..j, 1..k>> \in R
    BY <2>1, <2>2, <2>3
  <2>5. 1..j \in T
    OBVIOUS
  <2> HIDE DEF T
  <2> QED
    BY <1>4, <1>5, <2>4, <2>5
<1> QED
  BY <1>6

LEMMA SuffixIsLonger ==
    ASSUME NEW n \in Wanted, NEW k \in Nat
    PROVE  Append(n, k) # n
<1> DEFINE S == {n[i] : i \in 1..Len(n)} \cup Nat
<1>1. n \in Seq(S) /\ k \in S
  BY WantedAreSequences
<1> HIDE DEF S
<1>2. Len(Append(n, k)) = Len(n) + 1 /\ Len(n) \in Nat
  BY <1>1, AppendProperties, LenProperties
<1> QED
  BY <1>2

\* A free suffix is found, whatever names are taken: there are more suffixes than those.
LEMMA FreeSuffix ==
    ASSUME NEW n \in Wanted, NEW taken, IsFiniteSet(taken)
    PROVE  \E k \in 2..(Cardinality(taken) + 2) :
              Append(n, k) \notin taken /\ \A j \in 2..(k - 1) : Append(n, j) \in taken
<1> DEFINE m == Cardinality(taken) + 2
           free == {k \in 2..m : Append(n, k) \notin taken}
<1>1. Cardinality(taken) \in Nat
  BY FS_CardinalityType
<1>2. free # {}
  <2> SUFFICES ASSUME free = {} PROVE FALSE
    OBVIOUS
  <2> DEFINE suffixed == [k \in 2..m |-> Append(n, k)]
  <2>1. suffixed \in [2..m -> taken]
    OBVIOUS
  <2>2. IsFiniteSet(2..m) /\ Cardinality(2..m) = Cardinality(taken) + 1
    BY <1>1, FS_Interval
  <2>3. Cardinality(taken) < Cardinality(2..m)
    BY <1>1, <2>2
  <2> HIDE DEF suffixed
  <2>4. \E j, k \in 2..m : j # k /\ suffixed[j] = suffixed[k]
    <3> HIDE DEF m, free
    <3> QED
      BY <2>1, <2>2, <2>3, FS_PigeonHole
  <2> QED
    BY <1>1, <2>4, SuffixesDiffer DEF suffixed
<1>3. free \subseteq Nat
  BY <1>1
<1>4. PICK k \in free : \A j \in free : k <= j
  BY <1>2, <1>3, Least
<1>5. \A j \in 2..(k - 1) : Append(n, j) \in taken
  BY <1>1, <1>3, <1>4
<1>6. k \in 2..m /\ Append(n, k) \notin taken
  OBVIOUS
<1> QED
  BY <1>5, <1>6

LEMMA SuffixIsFree ==
    ASSUME NEW n \in Wanted, NEW taken, IsFiniteSet(taken)
    PROVE  next_free_username(n, taken) \notin taken
BY FreeSuffix DEF next_free_username

LEMMA NamesAreNotEmpty ==
    ASSUME NEW n \in Wanted, NEW taken, IsFiniteSet(taken)
    PROVE  next_free_username(n, taken) # << >>
<1> DEFINE S == {n[i] : i \in 1..Len(n)} \cup Nat
<1>1. n \in Seq(S) /\ n # << >>
  BY WantedAreSequences
<1>2. ASSUME NEW k PROVE Append(n, k) # << >>
  <2> DEFINE Z == S \cup {k}
  <2>1. n \in Seq(Z) /\ k \in Z
    BY <1>1
  <2> HIDE DEF Z
  <2> QED
    BY <2>1, AppendProperties
<1> QED
  BY <1>1, <1>2 DEF next_free_username

-----------------------------------------------------------------------------
(* Every step keeps the core. *)

\* An entry keeps to its connection; logging in and out is all that happens to it.
SameEntry(e, new) == (e = NoOne <=> new = NoOne) /\ new.sid = e.sid /\ new.name = e.name

\* A step of one connection's thread that leaves its descriptor and what others did to it.
LEMMA StageStep ==
    ASSUME Core, NEW s \in Sids, Owns(s), at[s] # "flush", NEW x \in OnRoster \cup {"join", "publish"},
           at' = [at EXCEPT ![s] = x], UNCHANGED <<opened, ip, fd, evicted, clients, shut>>,
           username' = [t \in Sids |-> username'[t]], late' \in [Sids -> Nat],
           \A t \in Sids \ {s} : username'[t] = username[t] /\ late'[t] = late[t],
           x = "publish" => username'[s] \in Wanted,
           evicted[s] => x \in OnRoster, late'[s] <= 1, late'[s] > 0 => evicted[s] /\ x \in {"recv", "remove"},
           at[s] \in OnRoster /\ username[s] # << >> => x \in OnRoster /\ username'[s] = username[s],
           evicted[s] => x = "remove" \/ at[s] \notin {"remove", "flush"},
           roster' = [f \in Fds |-> roster'[f]], RosterTyped', \A f \in Fds : SameEntry(roster[f], roster'[f])
    PROVE  Core'
<1>1. Typed'
  BY DEF Core, Typed, Stages, OnRoster, Owns
<1>2. ASSUME NEW t \in Sids \ {s} PROVE SessionGood(t)'
  BY <1>2 DEF Core, Typed, SessionGood, Owns, Counted
<1>3. SessionGood(s)'
  BY DEF Core, Typed, SessionGood, Owns, Counted, OnRoster, Sids
<1>4. \A t \in Sids : Owns(t)' <=> Owns(t)
  BY DEF Core, Typed, Owns, OnRoster
<1>5. Apart'
  BY <1>4 DEF Core, Apart
<1>6. Listed' = Listed /\ \A f \in Fds : roster'[f].sid = roster[f].sid /\ roster'[f].name = roster[f].name
  BY DEF Listed, SameEntry
<1>7. ASSUME NEW f \in Listed' PROVE EntryGood(f)'
  <2>1. EntryGood(f) /\ f \in Fds
    BY <1>6, <1>7 DEF Core, Roster, Listed
  <2>2. CASE roster[f].sid = s
    BY <1>6, <2>1, <2>2 DEF EntryGood, Core, Typed
  <2>3. CASE roster[f].sid # s
    BY <1>6, <2>1, <2>3 DEF EntryGood, Core, Typed
  <2> QED
    BY <2>2, <2>3
<1>8. UniqueNames'
  BY <1>6 DEF Core, Roster, UniqueNames, Listed
<1> QED
  BY <1>1, <1>2, <1>3, <1>5, <1>7, <1>8 DEF Core, Roster

LEMMA RosterStays ==
    ASSUME Core, UNCHANGED roster
    PROVE  /\ roster' = [f \in Fds |-> roster'[f]] /\ RosterTyped'
           /\ \A f \in Fds : SameEntry(roster[f], roster'[f])
BY DEF Core, Roster, RosterTyped, SameEntry, NoOne

LEMMA TakeStep ==
    ASSUME Core, NEW s \in Sids, NEW verb \in {"join", "move"}, Take(s, verb)
    PROVE  Core'
<1>1. at[s] = "recv" /\ at' = [at EXCEPT ![s] = verb] /\ ~evicted[s] /\ (verb = "join" <=> username[s] = << >>)
  BY DEF Take
<1>2. UNCHANGED <<opened, ip, fd, evicted, clients, shut, username, late, roster>>
  BY DEF Take, net, tables
<1>3. late[s] <= 1 /\ late[s] \in Nat /\ ~(late[s] > 0)
  BY <1>1 DEF Core, Typed, SessionGood
<1>4. username' = [t \in Sids |-> username'[t]] /\ late' \in [Sids -> Nat]
  BY <1>2 DEF Core, Typed
<1> QED
  BY <1>1, <1>2, <1>3, <1>4, RosterStays, StageStep DEF Owns, OnRoster

LEMMA LeaveStep ==
    ASSUME Core, NEW s \in Sids, Leave(s) \/ JoinRefused(s) \/ JoinAnnounce(s)
    PROVE  Core'
<1>1. PICK x \in {"recv", "remove"} : at' = [at EXCEPT ![s] = x] /\ (x = "recv" => at[s] = "announce")
  BY DEF Leave, JoinRefused, JoinAnnounce
<1>2. at[s] \in {"recv", "join", "announce"} /\ UNCHANGED <<opened, ip, fd, evicted, clients, shut, username, late, roster>>
  BY DEF Leave, JoinRefused, JoinAnnounce, net, tables
<1>3. late[s] <= 1 /\ (late[s] > 0 => evicted[s])
  BY DEF Core, SessionGood
<1>4. username' = [t \in Sids |-> username'[t]] /\ late' \in [Sids -> Nat]
  BY <1>2 DEF Core, Typed
<1> QED
  BY <1>1, <1>2, <1>3, <1>4, RosterStays, StageStep DEF Owns, OnRoster

LEMMA MoveStep ==
    ASSUME Core, NEW s \in Sids, Move(s)
    PROVE  Core'
<1>1. at[s] = "move" /\ at' = [at EXCEPT ![s] = "recv"]
      /\ UNCHANGED <<opened, ip, fd, evicted, clients, shut, username, roster>>
  BY DEF Move, net, tables
<1>2. late[s] = 0
  BY <1>1 DEF Core, Typed, SessionGood
<1>3. late' \in [Sids -> Nat] /\ late'[s] \in {0, 1} /\ (late'[s] > 0 => evicted[s]) /\ \A t \in Sids \ {s} : late'[t] = late[t]
  BY <1>2 DEF Core, Typed, Move
<1>4. username' = [t \in Sids |-> username'[t]]
  BY <1>1 DEF Core, Typed
<1>5. roster' = [f \in Fds |-> roster'[f]] /\ RosterTyped' /\ \A f \in Fds : SameEntry(roster[f], roster'[f])
  BY <1>1, RosterStays
<1>6. Owns(s) /\ at[s] # "flush" /\ late'[s] <= 1 /\ "recv" \in OnRoster /\ at[s] \notin {"remove", "flush"}
  BY <1>1, <1>3 DEF Owns, OnRoster
<1> QED
  BY <1>1, <1>3, <1>4, <1>5, <1>6, StageStep

LEMMA JoinAllowedStep ==
    ASSUME Core, NEW s \in Sids, JoinAllowed(s)
    PROVE  Core'
<1>1. at[s] = "join" /\ at' = [at EXCEPT ![s] = "publish"]
      /\ UNCHANGED <<opened, ip, fd, evicted, clients, shut, late, roster>>
  BY DEF JoinAllowed, net, tables
<1>2. PICK n \in Wanted : username' = [username EXCEPT ![s] = n]
  BY DEF JoinAllowed
<1>3. username' = [t \in Sids |-> username'[t]] /\ username'[s] = n /\ \A t \in Sids \ {s} : username'[t] = username[t]
  BY <1>2 DEF Core, Typed
<1>4. ~evicted[s] /\ late[s] <= 1 /\ ~(late[s] > 0) /\ late' \in [Sids -> Nat]
  BY <1>1 DEF Core, Typed, SessionGood, OnRoster
<1> QED
  BY <1>1, <1>3, <1>4, RosterStays, StageStep DEF Owns, OnRoster

LEMMA LoginReadStep ==
    ASSUME Core, NEW s \in Sids, LoginRead(s)
    PROVE  Core'
<1>1. at[s] = "recv" /\ at' = [at EXCEPT ![s] = "hash"] /\ ~evicted[s]
      /\ UNCHANGED <<opened, ip, fd, evicted, clients, shut, username, late, roster>>
  BY DEF LoginRead, net, tables
<1>2. late[s] <= 1 /\ ~(late[s] > 0) /\ late' \in [Sids -> Nat] /\ username' = [t \in Sids |-> username'[t]]
  BY <1>1 DEF Core, Typed, SessionGood
<1> QED
  BY <1>1, <1>2, RosterStays, StageStep DEF Owns, OnRoster

LEMMA LoginStep ==
    ASSUME Core, NEW s \in Sids, LoginWrong(s) \/ LoginClaim(s)
    PROVE  Core'
<1>1. at[s] = "hash" /\ at' = [at EXCEPT ![s] = "recv"]
      /\ UNCHANGED <<opened, ip, fd, evicted, clients, shut, username, late>>
  BY DEF LoginWrong, LoginClaim, net, tables
<1>2. late[s] = 0 /\ late' \in [Sids -> Nat] /\ username' = [t \in Sids |-> username'[t]]
  BY <1>1 DEF Core, Typed, SessionGood
<1>3. roster' = roster \/ (roster[fd[s]].sid # 0 /\ roster' = [roster EXCEPT ![fd[s]].verified = rec[s]])
  BY DEF LoginWrong, LoginClaim, tables
<1>4. roster' = [f \in Fds |-> roster'[f]] /\ RosterTyped' /\ \A f \in Fds : SameEntry(roster[f], roster'[f])
  <2>1. CASE roster' = roster
    BY <2>1, RosterStays
  <2>2. CASE roster[fd[s]].sid # 0 /\ roster' = [roster EXCEPT ![fd[s]].verified = rec[s]]
    <3>1. ASSUME NEW f \in Fds, f # fd[s] PROVE roster'[f] = roster[f]
      BY <2>2, <3>1 DEF Core, Roster
    <3>2. fd[s] \in Fds /\ roster[fd[s]] \in [sid : Sids, name : {roster[fd[s]].name}, ip : Ips, verified : {roster[fd[s]].verified}]
      BY <1>1, <2>2 DEF Core, SessionGood, Owns, Roster, RosterTyped, NoOne
    <3>3. roster'[fd[s]] = [roster[fd[s]] EXCEPT !.verified = rec[s]] /\ roster' = [f \in Fds |-> roster'[f]]
      BY <2>2, <3>2 DEF Core, Roster
    <3>4. roster'[fd[s]] \in [sid : Sids, name : {roster'[fd[s]].name}, ip : Ips, verified : {roster'[fd[s]].verified}]
          /\ SameEntry(roster[fd[s]], roster'[fd[s]])
      BY <2>2, <3>2, <3>3 DEF SameEntry, NoOne
    <3> QED
      BY <3>1, <3>3, <3>4 DEF Core, Roster, RosterTyped, SameEntry
  <2> QED
    BY <1>3, <2>1, <2>2
<1>5. Owns(s) /\ at[s] # "flush" /\ late'[s] <= 1 /\ ~(late'[s] > 0) /\ "recv" \in OnRoster /\ at[s] \notin {"remove", "flush"}
  BY <1>1, <1>2 DEF Owns, OnRoster
<1> QED
  BY <1>1, <1>2, <1>4, <1>5, StageStep

LEMMA AcceptStep ==
    ASSUME Core, NEW a \in Ips, NEW f \in Fds, Accept(a, f)
    PROVE  Core'
<1>0. PICK s \in Sids : s = opened + 1
  BY SessionAssumption DEF Accept, Core, Typed, Sids
<1>1. at[s] = "none" /\ opened' = s /\ s \in Nat /\ opened \in Nat
  BY <1>0, SessionAssumption DEF Accept, Core, Typed, SessionGood, Sids
<1>2. /\ at' = [at EXCEPT ![s] = "recv"] /\ ip' = [ip EXCEPT ![s] = a] /\ fd' = [fd EXCEPT ![s] = f]
      /\ clients' = clients \cup {f} /\ Holder(f) = {}
      /\ UNCHANGED <<username, evicted, roster, shut, late>>
  BY <1>0 DEF Accept
<1>3. ~evicted[s] /\ ~(late[s] > 0) /\ late[s] <= 1
  BY <1>1 DEF Core, Typed, SessionGood, OnRoster
<1>4. Typed'
  BY <1>1, <1>2, SessionAssumption DEF Core, Typed, Stages, Sids
<1>41. at'[s] = "recv" /\ ip'[s] = a /\ fd'[s] = f /\ f \in clients' /\ ~(s > opened') /\ ~evicted'[s]
       /\ late'[s] <= 1 /\ ~(late'[s] > 0)
  BY <1>1, <1>2, <1>3 DEF Core, Typed
<1>5. SessionGood(s)'
  BY <1>41 DEF SessionGood, Owns, Counted
<1>6. ASSUME NEW t \in Sids \ {s} PROVE SessionGood(t)'
  <2>1. (t > s <=> t > opened)
    BY <1>0, <1>1, <1>6, SessionAssumption DEF Sids, Core, Typed
  <2>2. at'[t] = at[t] /\ ip'[t] = ip[t] /\ fd'[t] = fd[t]
    BY <1>2, <1>6 DEF Core, Typed
  <2> QED
    BY <1>1, <1>2, <1>6, <2>1, <2>2 DEF Core, SessionGood, Owns, Counted
<1>7. Apart'
  BY <1>1, <1>2 DEF Core, Typed, Apart, Holder, Owns
<1>8. ASSUME NEW g \in Listed' PROVE EntryGood(g)'
  <2>1. EntryGood(g) /\ roster[g].sid # s
    BY <1>1, <1>2, <1>8 DEF Core, Roster, Listed, EntryGood, OnRoster
  <2> QED
    BY <1>2, <2>1 DEF EntryGood, Core, Typed
<1>9. Roster'
  BY <1>2, <1>8 DEF Core, Roster, RosterTyped, UniqueNames, Listed
<1>10. \A t \in Sids : SessionGood(t)'
  BY <1>5, <1>6
<1> QED
  BY <1>4, <1>7, <1>9, <1>10 DEF Core

LEMMA ListedIsFinite ==
    ASSUME Core
    PROVE  IsFiniteSet(Taken)
<1> DEFINE N == {t \in Sids : \E f \in Listed : roster[f].sid = t}
           nameOf == [t \in N |-> username[t]]
<1>1. IsFiniteSet(Sids)
  <2>1. 1 \in Int /\ Connections \in Int
    BY SessionAssumption
  <2> QED
    BY <2>1, FS_Interval DEF Sids
<1>2. IsFiniteSet(N)
  BY <1>1, FS_Subset
<1>3. Taken = {nameOf[t] : t \in N}
  <2>1. \A f \in Listed : roster[f].sid \in N /\ nameOf[roster[f].sid] = roster[f].name
    BY DEF Core, Roster, EntryGood
  <2>2. ASSUME NEW t \in N PROVE nameOf[t] \in Taken
    <3>1. PICK f \in Listed : roster[f].sid = t
      OBVIOUS
    <3> QED
      BY <2>1, <3>1 DEF Taken
  <2>3. ASSUME NEW n \in Taken PROVE \E t \in N : nameOf[t] = n
    BY <2>1, <2>3 DEF Taken
  <2> HIDE DEF N
  <2> QED
    BY <2>2, <2>3
<1> HIDE DEF N
<1>4. nameOf \in Surjection(N, Taken)
  BY <1>3 DEF Surjection
<1> QED
  BY <1>2, <1>4, FS_Surjection

LEMMA PublishStep ==
    ASSUME Core, NEW s \in Sids, NEW silent \in BOOLEAN, JoinPublish(s, silent)
    PROVE  Core'
<1> DEFINE n == username[s]
           old == {f \in Listed : /\ roster[f].name = n
                                  /\ dup_name_action(roster[f].ip = ip[s], silent) = "evict"}
           taken == IF old = {} THEN Taken ELSE Taken \ {n}
           name == next_free_username(n, taken)
           mine == [sid |-> s, name |-> name, ip |-> ip[s], verified |-> 0]
<1>1. /\ at[s] = "publish" /\ at' = [at EXCEPT ![s] = "announce"]
      /\ evicted' = [t \in Sids |-> evicted[t] \/ \E f \in old : roster[f].sid = t]
      /\ roster' = [f \in Fds |-> IF f = fd[s] THEN mine ELSE IF f \in old THEN NoOne ELSE roster[f]]
      /\ shut' = shut \cup old /\ username' = [username EXCEPT ![s] = name]
      /\ UNCHANGED <<opened, ip, fd, clients, late>>
  BY DEF JoinPublish
<1>2. old \subseteq Listed /\ \A f \in old : roster[f].name = n
  OBVIOUS
<1>3. n \in Wanted /\ IsFiniteSet(taken)
  <2>1. n \in Wanted
    BY <1>1 DEF Core, SessionGood
  <2> QED
    BY <2>1, ListedIsFinite, FS_Difference
<1>4. name \notin taken /\ name # << >>
  BY <1>3, SuffixIsFree, NamesAreNotEmpty
<1>5. \A f \in Listed \ old : roster[f].name # name
  <2>1. CASE old = {}
    BY <1>4, <2>1 DEF Taken
  <2>2. CASE old # {}
    <3>1. name = n
      BY <2>2 DEF next_free_username
    <3>2. PICK g \in old : roster[g].name = n
      BY <1>2, <2>2
    <3> QED
      BY <1>2, <3>1, <3>2 DEF Core, Roster, UniqueNames
  <2> QED
    BY <2>1, <2>2
<1>6. fd[s] \in Fds /\ ip[s] \in Ips /\ fd[s] \in clients /\ ~evicted[s] /\ late[s] <= 1 /\ ~(late[s] > 0)
  BY <1>1 DEF Core, SessionGood, Typed, Owns, Counted, OnRoster
<1> HIDE DEF name, taken, old, n
<1>7. \A f \in Listed : roster[f].sid # s
  BY <1>1 DEF Core, Roster, EntryGood, OnRoster
<1>8. Typed'
  BY <1>1 DEF Core, Typed, Stages
<1>9. SessionGood(s)'
  <2>1. ~evicted'[s]
    BY <1>1, <1>2, <1>6, <1>7
  <2> QED
    BY <1>1, <1>6, <2>1 DEF Core, Typed, SessionGood, Owns, Counted
<1>10. ASSUME NEW t \in Sids \ {s} PROVE SessionGood(t)'
  <2>1. at'[t] = at[t] /\ ip'[t] = ip[t] /\ fd'[t] = fd[t] /\ username'[t] = username[t] /\ late'[t] = late[t]
    BY <1>1, <1>10 DEF Core, Typed
  <2>2. CASE \E f \in old : roster[f].sid = t
    <3>1. PICK f \in old : roster[f].sid = t
      BY <2>2
    <3>2. at[t] \in OnRoster /\ fd[t] = f
      BY <1>2, <3>1 DEF Core, Roster, EntryGood
    <3>3. evicted'[t] /\ fd'[t] \in shut'
      BY <1>1, <2>1, <2>2, <3>1, <3>2 DEF Core, Typed
    <3> QED
      BY <1>1, <2>1, <3>2, <3>3 DEF Core, SessionGood, Owns, Counted, OnRoster
  <2>3. CASE ~\E f \in old : roster[f].sid = t
    <3>1. evicted'[t] = evicted[t] /\ shut \subseteq shut'
      BY <1>1, <2>3 DEF Core, Typed
    <3> QED
      BY <1>1, <2>1, <3>1 DEF Core, SessionGood, Owns, Counted
  <2> QED
    BY <2>2, <2>3
<1>11. Apart'
  BY <1>1 DEF Core, Typed, Apart, Owns
<1>12. roster' = [f \in Fds |-> roster'[f]] /\ RosterTyped'
  <2>1. mine \in [sid : Sids, name : {mine.name}, ip : Ips, verified : {mine.verified}]
    BY <1>6
  <2> QED
    BY <1>1, <2>1 DEF Core, Roster, RosterTyped
<1>13. roster'[fd[s]] = mine /\ \A f \in Listed' : f # fd[s] => f \in Listed \ old /\ roster'[f] = roster[f]
  BY <1>1, <1>6 DEF Listed
<1>14. EntryGood(fd[s])'
  BY <1>1, <1>4, <1>9, <1>13, <1>6, <1>7, <1>2 DEF EntryGood, OnRoster, Core, Typed
<1>15. ASSUME NEW f \in Listed', f # fd[s] PROVE EntryGood(f)'
  <2>1. EntryGood(f) /\ f \in Listed \ old /\ roster'[f] = roster[f] /\ roster[f].sid # s
    BY <1>7, <1>13, <1>15 DEF Core, Roster
  <2>2. \A g \in old : roster[g].sid # roster[f].sid
    BY <1>2, <2>1 DEF Core, Roster, EntryGood
  <2> QED
    BY <1>1, <2>1, <2>2 DEF EntryGood, Core, Typed
<1>16. UniqueNames'
  <2> SUFFICES ASSUME NEW f \in Listed', NEW g \in Listed', roster'[f].name = roster'[g].name PROVE f = g
    BY DEF UniqueNames
  <2>1. roster'[fd[s]].name = name
    BY <1>13
  <2> QED
    BY <1>5, <1>13, <2>1 DEF Core, Roster, UniqueNames
<1>17. \A t \in Sids : SessionGood(t)'
  BY <1>9, <1>10
<1>18. \A f \in Listed' : EntryGood(f)'
  <2>1. fd'[s] = fd[s]
    BY <1>1
  <2> QED
    BY <1>14, <1>15, <2>1
<1> QED
  BY <1>8, <1>11, <1>12, <1>16, <1>17, <1>18 DEF Core, Roster

LEMMA RemoveStep ==
    ASSUME Core, NEW s \in Sids, removeClient(s)
    PROVE  Core'
<1>1. /\ at[s] = "remove" /\ at' = [at EXCEPT ![s] = "flush"] /\ clients' = clients \ {fd[s]}
      /\ roster' = [roster EXCEPT ![fd[s]] = NoOne]
      /\ UNCHANGED <<opened, ip, fd, username, evicted, shut, late>>
  BY DEF removeClient, net
<1>2. Typed'
  BY <1>1 DEF Core, Typed, Stages
<1>3. SessionGood(s)'
  BY <1>1 DEF Core, Typed, SessionGood, Owns, Counted, Sids
<1>4. ASSUME NEW t \in Sids \ {s} PROVE SessionGood(t)'
  <2>1. Owns(t) => fd[t] # fd[s]
    BY <1>1, <1>4 DEF Core, Apart, Owns
  <2> QED
    BY <1>1, <1>4, <2>1 DEF Core, Typed, SessionGood, Owns, Counted
<1>5. Apart'
  BY <1>1 DEF Core, Typed, Apart, Owns
<1>6. fd[s] \in Fds
  BY <1>1 DEF Core, SessionGood, Owns
<1>7. roster' = [f \in Fds |-> IF f = fd[s] THEN NoOne ELSE roster[f]]
  BY <1>1, <1>6 DEF Core, Roster
<1>8. ASSUME NEW f \in Listed' PROVE f \in Listed /\ roster'[f] = roster[f] /\ EntryGood(f)'
  <2>1. f \in Listed /\ roster'[f] = roster[f] /\ f # fd[s]
    BY <1>7, <1>8 DEF Listed
  <2>2. EntryGood(f) /\ roster[f].sid # s
    BY <2>1 DEF Core, Roster, EntryGood
  <2> QED
    BY <1>1, <2>1, <2>2 DEF EntryGood, Core, Typed
<1>9. UniqueNames'
  BY <1>8 DEF Core, Roster, UniqueNames
<1>10. roster' = [f \in Fds |-> roster'[f]] /\ RosterTyped'
  BY <1>7 DEF Core, Roster, RosterTyped
<1> QED
  BY <1>2, <1>3, <1>4, <1>5, <1>8, <1>9, <1>10 DEF Core, Roster

LEMMA CloseStep ==
    ASSUME Core, NEW s \in Sids, CloseFd(s)
    PROVE  Core'
<1>1. /\ at[s] = "flush" /\ at' = [at EXCEPT ![s] = "close"] /\ shut' = shut \ {fd[s]}
      /\ UNCHANGED <<opened, ip, fd, username, evicted, clients, roster, late>>
  BY DEF CloseFd, tables
<1>2. Typed'
  BY <1>1 DEF Core, Typed, Stages
<1>3. SessionGood(s)'
  BY <1>1 DEF Core, Typed, SessionGood, Owns, Counted, OnRoster
<1>4. ASSUME NEW t \in Sids \ {s} PROVE SessionGood(t)'
  <2>1. Owns(t) => fd[t] # fd[s]
    BY <1>1, <1>4 DEF Core, Apart, Owns
  <2> QED
    BY <1>1, <1>4, <2>1 DEF Core, Typed, SessionGood, Owns, Counted
<1>5. Apart'
  BY <1>1 DEF Core, Typed, Apart, Owns
<1>6. ASSUME NEW f \in Listed' PROVE EntryGood(f)'
  BY <1>1, <1>6 DEF Core, Roster, Listed, EntryGood, OnRoster, Typed
<1>7. Roster'
  BY <1>1, <1>6 DEF Core, Roster, RosterTyped, UniqueNames, Listed
<1> QED
  BY <1>2, <1>3, <1>4, <1>5, <1>7 DEF Core

LEMMA ReleaseStep ==
    ASSUME Core, NEW s \in Sids, Release(s)
    PROVE  Core'
<1>1. /\ at[s] = "close" /\ at' = [at EXCEPT ![s] = "gone"]
      /\ ip' = [ip EXCEPT ![s] = 0] /\ fd' = [fd EXCEPT ![s] = 0]
      /\ username' = [username EXCEPT ![s] = << >>] /\ evicted' = [evicted EXCEPT ![s] = FALSE]
      /\ late' = [late EXCEPT ![s] = 0]
      /\ UNCHANGED <<opened, clients, roster, shut>>
  BY DEF Release
<1>2. Typed'
  BY <1>1 DEF Core, Typed, Stages
<1>3. SessionGood(s)'
  BY <1>1 DEF Core, Typed, SessionGood, Owns, Counted
<1>4. ASSUME NEW t \in Sids \ {s} PROVE SessionGood(t)'
  BY <1>1, <1>4 DEF Core, Typed, SessionGood, Owns, Counted
<1>5. Apart'
  BY <1>1 DEF Core, Typed, Apart, Owns
<1>6. ASSUME NEW f \in Listed' PROVE EntryGood(f)'
  BY <1>1, <1>6 DEF Core, Roster, Listed, EntryGood, OnRoster, Typed
<1>7. Roster'
  BY <1>1, <1>6 DEF Core, Roster, RosterTyped, UniqueNames, Listed
<1> QED
  BY <1>2, <1>3, <1>4, <1>5, <1>7 DEF Core

\* The operator shuts descriptors down and logs sessions out.
LEMMA OperatorStep ==
    ASSUME Core, UNCHANGED <<opened, at, ip, fd, username, evicted, clients, late>>, shut \subseteq shut',
           roster' = [f \in Fds |-> roster'[f]], RosterTyped', \A f \in Fds : SameEntry(roster[f], roster'[f])
    PROVE  Core'
<1>1. Typed' /\ Apart'
  BY DEF Core, Typed, Apart, Owns
<1>2. \A s \in Sids : SessionGood(s)'
  BY DEF Core, SessionGood, Owns, Counted
<1>3. Listed' = Listed /\ \A f \in Fds : roster'[f].sid = roster[f].sid /\ roster'[f].name = roster[f].name
  BY DEF Listed, SameEntry
<1>4. \A f \in Listed' : EntryGood(f)'
  BY <1>3 DEF Core, Roster, Listed, EntryGood
<1>5. UniqueNames'
  BY <1>3 DEF Core, Roster, UniqueNames, Listed
<1> QED
  BY <1>1, <1>2, <1>4, <1>5 DEF Core, Roster

LEMMA LogOutStep ==
    ASSUME Core, NEW n, roster' = LogOut(n)
    PROVE  /\ roster' = [f \in Fds |-> roster'[f]] /\ RosterTyped'
           /\ \A f \in Fds : SameEntry(roster[f], roster'[f])
<1>1. ASSUME NEW f \in Fds PROVE SameEntry(roster[f], roster'[f]) /\ (roster'[f] = NoOne \/ roster'[f] \in
            [sid : Sids, name : {roster'[f].name}, ip : Ips, verified : {roster'[f].verified}])
  <2>1. roster[f] = NoOne \/ roster[f] \in [sid : Sids, name : {roster[f].name}, ip : Ips, verified : {roster[f].verified}]
    BY DEF Core, Roster, RosterTyped
  <2>2. CASE roster[f] # NoOne /\ roster[f].name = n
    <3>1. roster'[f] = [roster[f] EXCEPT !.verified = 0]
      BY <2>2 DEF LogOut
    <3> QED
      BY <2>1, <2>2, <3>1 DEF SameEntry, NoOne
  <2>3. CASE ~(roster[f] # NoOne /\ roster[f].name = n)
    <3>1. roster'[f] = roster[f]
      BY <2>3 DEF LogOut
    <3> QED
      BY <2>1, <3>1 DEF SameEntry, NoOne
  <2> QED
    BY <2>2, <2>3
<1>2. roster' = [f \in Fds |-> roster'[f]]
  BY DEF LogOut
<1> QED
  BY <1>1, <1>2 DEF RosterTyped

LEMMA InitCore == Init => Core
<1> SUFFICES ASSUME Init PROVE Core
  OBVIOUS
<1>1. Typed
  BY SessionAssumption DEF Init, Typed, Stages
<1>2. \A s \in Sids : SessionGood(s)
  BY DEF Init, SessionGood, Owns, Counted, Sids
<1>3. Apart /\ Roster
  BY DEF Init, Apart, Owns, Roster, RosterTyped, Listed, UniqueNames
<1> QED
  BY <1>1, <1>2, <1>3 DEF Core

LEMMA NextCore == Core /\ [Next]_vars => Core'
<1> SUFFICES ASSUME Core, [Next]_vars PROVE Core'
  OBVIOUS
<1>1. ASSUME NEW a \in Ips, NEW f \in Fds, Accept(a, f) PROVE Core'
  BY <1>1, AcceptStep
<1>2. ASSUME NEW s \in Sids, NEW verb \in {"join", "move"}, Take(s, verb) PROVE Core'
  BY <1>2, TakeStep
<1>3. ASSUME NEW s \in Sids, Leave(s) \/ JoinRefused(s) \/ JoinAnnounce(s) PROVE Core'
  BY <1>3, LeaveStep
<1>4. ASSUME NEW s \in Sids, Move(s) PROVE Core'
  BY <1>4, MoveStep
<1>5. ASSUME NEW s \in Sids, JoinAllowed(s) PROVE Core'
  BY <1>5, JoinAllowedStep
<1>6. ASSUME NEW s \in Sids, NEW silent \in BOOLEAN, JoinPublish(s, silent) PROVE Core'
  BY <1>6, PublishStep
<1>7. ASSUME NEW s \in Sids, LoginRead(s) PROVE Core'
  BY <1>7, LoginReadStep
<1>8. ASSUME NEW s \in Sids, LoginWrong(s) \/ LoginClaim(s) PROVE Core'
  BY <1>8, LoginStep
<1>9. ASSUME NEW s \in Sids, removeClient(s) PROVE Core'
  BY <1>9, RemoveStep
<1>10. ASSUME NEW s \in Sids, CloseFd(s) PROVE Core'
  BY <1>10, CloseStep
<1>11. ASSUME NEW s \in Sids, Release(s) PROVE Core'
  BY <1>11, ReleaseStep
<1>12. ASSUME NEW n, Kick(n) \/ KickFinds(n) \/ Ban(n) \/ Unban(n) \/ BanScan \/ KickShuts \/ Lapse(n) \/ UNCHANGED vars
       PROVE  Core'
  <2>1. UNCHANGED <<opened, at, ip, fd, username, evicted, clients, late, roster>> /\ shut \subseteq shut'
    BY <1>12 DEF Kick, KickFinds, Ban, Unban, BanScan, KickShuts, Lapse, vars, threads, net, tables
  <2> QED
    BY <2>1, RosterStays, OperatorStep
<1>13. ASSUME NEW n, Passwd(n) \/ Unpasswd(n) PROVE Core'
  <2>1. UNCHANGED <<opened, at, ip, fd, username, evicted, clients, late, shut>> /\ roster' = LogOut(n)
    BY <1>13 DEF Passwd, Unpasswd, threads, net
  <2> QED
    BY <2>1, LogOutStep, OperatorStep
<1> QED
  BY <1>1, <1>2, <1>3, <1>4, <1>5, <1>6, <1>7, <1>8, <1>9, <1>10, <1>11, <1>12, <1>13 DEF Next, Reader

LEMMA CoreInvariance == Spec => []Core
BY InitCore, NextCore, PTL DEF Spec

\* No two players in the roster have one name, however joins, evictions and departures of it
\* overlap (handleClient's JOIN, removeClient).
THEOREM NamesAreUnique == Spec => []UniqueNames
<1>1. Core => UniqueNames
  BY DEF Core, Roster
<1> QED
  BY <1>1, CoreInvariance, PTL

\* A roster entry belongs to the connection that holds its descriptor, never to an evicted one
\* (playerInfoMap is keyed by descriptor, and descriptors are reused).
THEOREM RosterIsLive == Spec => []RosterLive
<1>1. Core => RosterLive
  <2> SUFFICES ASSUME Core, NEW f \in Listed
               PROVE  /\ Holder(f) = {roster[f].sid} /\ username[roster[f].sid] = roster[f].name
                      /\ ~evicted[roster[f].sid] /\ f \in clients
    BY DEF RosterLive
  <2> DEFINE s == roster[f].sid
  <2>1. EntryGood(f) /\ SessionGood(s) /\ s \in Sids
    BY DEF Core, Roster, EntryGood
  <2>2. Owns(s) /\ at[s] # "flush" /\ fd[s] = f
    BY <2>1 DEF EntryGood, OnRoster, Owns
  <2>3. Holder(f) = {s}
    BY <2>1, <2>2 DEF Core, Apart, Holder
  <2> QED
    BY <2>1, <2>2, <2>3 DEF EntryGood, SessionGood
<1> QED
  BY <1>1, CoreInvariance, PTL

\* An evicted session acts on no more than the line it had in hand (ClientOut::evicted).
THEOREM EvictedStops == Spec => []EvictedActsOnce
<1>1. Core => EvictedActsOnce
  BY DEF Core, SessionGood, EvictedActsOnce
<1> QED
  BY <1>1, CoreInvariance, PTL

\* An evicted session is on its way out, or its own descriptor has been shut down and its
\* recv() will return.
THEOREM EvictedComesOut == Spec => []EvictedIsWoken
<1>1. Core => EvictedIsWoken
  BY DEF Core, SessionGood, EvictedIsWoken
<1> QED
  BY <1>1, CoreInvariance, PTL

-----------------------------------------------------------------------------
(* The limits of an address. *)

Of(a) == {s \in Sids : Counted(s) /\ ip[s] = a}
Guessing(a) == {s \in Sids : at[s] = "hash" /\ ip[s] = a}

\* Guesses under way count against an address like those that have failed.
Limits ==
    /\ wrong \in [Ips -> Nat] /\ ipConns \in [Ips -> Nat]
    /\ PerIp > 0 => \A a \in Ips :
          /\ ipConns[a] = Cardinality(Of(a)) /\ ipConns[a] <= PerIp
          /\ Threshold > 0 => wrong[a] + Cardinality(Guessing(a)) <= Threshold - 1 + PerIp

LEMMA SetsAreFinite ==
    ASSUME NEW S \in SUBSET Sids
    PROVE  IsFiniteSet(S) /\ Cardinality(S) \in Nat
<1>1. 1 \in Int /\ Connections \in Int
  BY SessionAssumption
<1>2. IsFiniteSet(Sids)
  BY <1>1, FS_Interval DEF Sids
<1>3. IsFiniteSet(S)
  BY <1>2, FS_Subset
<1> QED
  BY <1>3, FS_CardinalityType

\* A step that opens and ends no connection and neither begins nor ends a guess.
LEMMA LimitsKept ==
    ASSUME Limits, \A t \in Sids : (Counted(t)' <=> Counted(t)) /\ (Counted(t) => ip'[t] = ip[t]),
           \A t \in Sids : at'[t] = "hash" <=> at[t] = "hash",
           UNCHANGED ipConns, wrong' \in [Ips -> Nat], \A a \in Ips : wrong'[a] <= wrong[a]
    PROVE  Limits'
<1>1. ASSUME NEW a \in Ips PROVE Of(a)' = Of(a) /\ Guessing(a)' = Guessing(a)
  BY DEF Of, Guessing, Counted
<1>2. \A a \in Ips : Cardinality(Guessing(a)) \in Nat
  BY SetsAreFinite DEF Guessing
<1>3. \A a \in Ips : wrong[a] \in Nat /\ wrong'[a] \in Nat
  BY DEF Limits
<1>4. Threshold \in Nat /\ PerIp \in Nat
  BY SessionAssumption
<1> QED
  BY <1>1, <1>2, <1>3, <1>4 DEF Limits

\* Such a step of one thread.
LEMMA LimitsStage ==
    ASSUME Core, Limits, NEW s \in Sids, NEW x \in Stages \ {"hash", "none", "gone"},
           at[s] \notin {"hash", "none", "gone"},
           at' = [at EXCEPT ![s] = x], UNCHANGED <<ip, ipConns, wrong>>
    PROVE  Limits'
<1>1. \A t \in Sids : (Counted(t)' <=> Counted(t)) /\ (at'[t] = "hash" <=> at[t] = "hash")
  BY DEF Core, Typed, Counted
<1>2. wrong' \in [Ips -> Nat] /\ \A a \in Ips : wrong[a] \in Nat /\ wrong'[a] <= wrong[a]
  BY DEF Limits
<1> QED
  BY <1>1, <1>2, LimitsKept

LEMMA LimitsAccept ==
    ASSUME Core, Limits, NEW b \in Ips, NEW f \in Fds, Accept(b, f)
    PROVE  Limits'
<1>0. PICK s \in Sids : s = opened + 1
  BY SessionAssumption DEF Accept, Core, Typed, Sids
<1>1. /\ at[s] = "none" /\ at' = [at EXCEPT ![s] = "recv"] /\ ip' = [ip EXCEPT ![s] = b]
      /\ PerIp = 0 \/ ipConns[b] < PerIp
      /\ ipConns' = IF PerIp > 0 THEN [ipConns EXCEPT ![b] = @ + 1] ELSE ipConns
      /\ UNCHANGED wrong
  BY <1>0, SessionAssumption DEF Accept, Core, Typed, SessionGood, Sids
<1>2. /\ at'[s] = "recv" /\ ip'[s] = b
      /\ \A t \in Sids \ {s} : at'[t] = at[t] /\ ip'[t] = ip[t]
  BY <1>1 DEF Core, Typed
<1>3. wrong' \in [Ips -> Nat] /\ ipConns' \in [Ips -> Nat]
  BY <1>1 DEF Limits
<1>4. ASSUME PerIp > 0, NEW a \in Ips
      PROVE  /\ ipConns'[a] = Cardinality(Of(a)') /\ ipConns'[a] <= PerIp
             /\ Threshold > 0 => wrong'[a] + Cardinality(Guessing(a)') <= Threshold - 1 + PerIp
  <2>1. Guessing(a)' = Guessing(a)
    BY <1>1, <1>2 DEF Guessing
  <2>2. CASE a = b
    <3>1. Of(a)' = Of(a) \cup {s} /\ s \notin Of(a)
      BY <1>1, <1>2, <2>2 DEF Of, Counted
    <3>2. Cardinality(Of(a)') = Cardinality(Of(a)) + 1
      BY <3>1, SetsAreFinite, FS_AddElement DEF Of
    <3>3. ipConns[a] \in Nat /\ ipConns'[a] = ipConns[a] + 1 /\ ipConns[a] < PerIp /\ PerIp \in Nat
      BY <1>1, <1>4, <2>2, SessionAssumption DEF Limits
    <3> QED
      BY <1>1, <1>4, <2>1, <3>2, <3>3 DEF Limits
  <2>3. CASE a # b
    <3>1. Of(a)' = Of(a)
      BY <1>1, <1>2, <2>3 DEF Of, Counted
    <3>2. ipConns'[a] = ipConns[a]
      BY <1>1, <2>3 DEF Limits
    <3> QED
      BY <1>1, <1>4, <2>1, <3>1, <3>2 DEF Limits
  <2> QED
    BY <2>2, <2>3
<1> QED
  BY <1>3, <1>4 DEF Limits

LEMMA LimitsRelease ==
    ASSUME Core, Limits, NEW s \in Sids, Release(s)
    PROVE  Limits'
<1> DEFINE b == ip[s]
<1>1. /\ at[s] = "close" /\ at' = [at EXCEPT ![s] = "gone"] /\ ip' = [ip EXCEPT ![s] = 0]
      /\ ipConns' = IF PerIp > 0 THEN [ipConns EXCEPT ![b] = IF @ <= 1 THEN 0 ELSE @ - 1] ELSE ipConns
      /\ UNCHANGED wrong
  BY DEF Release
<1>2. at'[s] = "gone" /\ \A t \in Sids \ {s} : at'[t] = at[t] /\ ip'[t] = ip[t]
  BY <1>1 DEF Core, Typed
<1>3. b \in Ips
  BY <1>1 DEF Core, SessionGood, Counted
<1>4. wrong' \in [Ips -> Nat] /\ ipConns' \in [Ips -> Nat]
  BY <1>1, <1>3 DEF Limits
<1>5. ASSUME PerIp > 0, NEW a \in Ips
      PROVE  /\ ipConns'[a] = Cardinality(Of(a)') /\ ipConns'[a] <= PerIp
             /\ Threshold > 0 => wrong'[a] + Cardinality(Guessing(a)') <= Threshold - 1 + PerIp
  <2>1. Guessing(a)' = Guessing(a)
    BY <1>1, <1>2 DEF Guessing
  <2>2. CASE a = b
    <3>1. Of(a)' = Of(a) \ {s} /\ s \in Of(a)
      BY <1>1, <1>2, <2>2 DEF Of, Counted
    <3>2. Cardinality(Of(a)') = Cardinality(Of(a)) - 1 /\ Cardinality(Of(a)') \in Nat
      BY <3>1, SetsAreFinite, FS_RemoveElement DEF Of
    <3>3. ipConns[a] \in Nat /\ ipConns'[a] = (IF ipConns[a] <= 1 THEN 0 ELSE ipConns[a] - 1) /\ PerIp \in Nat
      BY <1>1, <1>5, <2>2, SessionAssumption DEF Limits
    <3>4. ipConns[a] = Cardinality(Of(a)) /\ ipConns[a] <= PerIp
      BY <1>5 DEF Limits
    <3>5. Cardinality(Of(a)) \in Nat
      BY SetsAreFinite DEF Of
    <3>6. ipConns'[a] = Cardinality(Of(a)') /\ ipConns'[a] <= PerIp
      BY <3>2, <3>3, <3>4, <3>5
    <3> QED
      BY <1>1, <1>5, <2>1, <3>6 DEF Limits
  <2>3. CASE a # b
    <3>1. Of(a)' = Of(a)
      BY <1>1, <1>2, <2>3 DEF Of, Counted
    <3>2. ipConns'[a] = ipConns[a]
      BY <1>1, <2>3 DEF Limits
    <3> QED
      BY <1>1, <1>5, <2>1, <3>1, <3>2 DEF Limits
  <2> QED
    BY <2>2, <2>3
<1> QED
  BY <1>4, <1>5 DEF Limits

\* A guess begins while the address has not failed too often: each of its connections may
\* have one under way.
LEMMA LimitsLoginRead ==
    ASSUME Core, Limits, NEW s \in Sids, LoginRead(s)
    PROVE  Limits'
<1>1. /\ at[s] = "recv" /\ at' = [at EXCEPT ![s] = "hash"] /\ ~blocked(ip[s])
      /\ UNCHANGED <<ip, ipConns, wrong>>
  BY DEF LoginRead, net, tables
<1>2. at'[s] = "hash" /\ \A t \in Sids \ {s} : at'[t] = at[t]
  BY <1>1 DEF Core, Typed
<1>3. wrong' \in [Ips -> Nat] /\ ipConns' \in [Ips -> Nat]
  BY <1>1 DEF Limits
<1>4. ASSUME PerIp > 0, NEW a \in Ips
      PROVE  /\ ipConns'[a] = Cardinality(Of(a)') /\ ipConns'[a] <= PerIp
             /\ Threshold > 0 => wrong'[a] + Cardinality(Guessing(a)') <= Threshold - 1 + PerIp
  <2>1. Of(a)' = Of(a)
    BY <1>1, <1>2 DEF Of, Counted
  <2>2. CASE ip[s] = a
    <3>1. Guessing(a)' \subseteq Of(a)
      BY <1>1, <1>2, <2>2 DEF Guessing, Of, Counted
    <3>2. Cardinality(Guessing(a)') <= Cardinality(Of(a)) /\ Cardinality(Guessing(a)') \in Nat /\ Cardinality(Of(a)) \in Nat
      BY <3>1, SetsAreFinite, FS_Subset DEF Of, Guessing
    <3>3. Threshold > 0 => wrong'[a] <= Threshold - 1
      <4>1. wrong[a] \in Nat /\ Threshold \in Nat
        BY SessionAssumption DEF Limits
      <4> QED
        BY <1>1, <2>2, <4>1 DEF blocked
    <3>4. Cardinality(Of(a)) <= PerIp
      BY <1>4 DEF Limits
    <3>5. wrong'[a] \in Nat /\ Threshold \in Nat /\ PerIp \in Nat
      BY <1>3, SessionAssumption
    <3>6. Threshold > 0 => wrong'[a] + Cardinality(Guessing(a)') <= Threshold - 1 + PerIp
      BY <3>2, <3>3, <3>4, <3>5
    <3> QED
      BY <1>1, <1>4, <2>1, <3>6 DEF Limits
  <2>3. CASE ip[s] # a
    <3>1. Guessing(a)' = Guessing(a)
      BY <1>1, <1>2, <2>3 DEF Guessing
    <3> QED
      BY <1>1, <1>4, <2>1, <3>1 DEF Limits
  <2> QED
    BY <2>2, <2>3
<1> QED
  BY <1>3, <1>4 DEF Limits

\* One that fails is counted once it is over.
LEMMA LimitsLogin ==
    ASSUME Core, Limits, NEW s \in Sids, LoginWrong(s) \/ LoginClaim(s)
    PROVE  Limits'
<1> DEFINE b == ip[s]
<1>1. at[s] = "hash" /\ at' = [at EXCEPT ![s] = "recv"] /\ UNCHANGED <<ip, ipConns>>
  BY DEF LoginWrong, LoginClaim, net, tables
<1>2. at'[s] = "recv" /\ \A t \in Sids \ {s} : at'[t] = at[t]
  BY <1>1 DEF Core, Typed
<1>3. b \in Ips
  BY <1>1 DEF Core, SessionGood, Counted
<1>4. wrong' = wrong \/ wrong' = [wrong EXCEPT ![b] = @ + 1]
  BY DEF LoginWrong, LoginClaim, record_failure
<1>5. /\ wrong' \in [Ips -> Nat] /\ ipConns' \in [Ips -> Nat]
      /\ \A a \in Ips : wrong'[a] <= wrong[a] + 1 /\ (a # b => wrong'[a] = wrong[a])
  BY <1>1, <1>3, <1>4 DEF Limits
<1>6. ASSUME PerIp > 0, NEW a \in Ips
      PROVE  /\ ipConns'[a] = Cardinality(Of(a)') /\ ipConns'[a] <= PerIp
             /\ Threshold > 0 => wrong'[a] + Cardinality(Guessing(a)') <= Threshold - 1 + PerIp
  <2>1. Of(a)' = Of(a)
    BY <1>1, <1>2 DEF Of, Counted
  <2>2. CASE a = b
    <3>1. Guessing(a)' = Guessing(a) \ {s} /\ s \in Guessing(a)
      BY <1>1, <1>2, <2>2 DEF Guessing
    <3>2. Cardinality(Guessing(a)') = Cardinality(Guessing(a)) - 1 /\ Cardinality(Guessing(a)) \in Nat
      BY <3>1, SetsAreFinite, FS_RemoveElement DEF Guessing
    <3>3. wrong[a] \in Nat /\ wrong'[a] \in Nat /\ wrong'[a] <= wrong[a] + 1 /\ Threshold \in Nat /\ PerIp \in Nat
      BY <1>5, SessionAssumption DEF Limits
    <3>4. Threshold > 0 => wrong[a] + Cardinality(Guessing(a)) <= Threshold - 1 + PerIp
      BY <1>6 DEF Limits
    <3>5. Threshold > 0 => wrong'[a] + Cardinality(Guessing(a)') <= Threshold - 1 + PerIp
      BY <3>2, <3>3, <3>4
    <3> QED
      BY <1>1, <1>6, <2>1, <3>5 DEF Limits
  <2>3. CASE a # b
    <3>1. Guessing(a)' = Guessing(a) /\ wrong'[a] = wrong[a]
      BY <1>1, <1>2, <1>5, <2>3 DEF Guessing
    <3> QED
      BY <1>1, <1>6, <2>1, <3>1 DEF Limits
  <2> QED
    BY <2>2, <2>3
<1> QED
  BY <1>5, <1>6 DEF Limits

LEMMA InitLimits == Init => Limits
<1> SUFFICES ASSUME Init PROVE Limits
  OBVIOUS
<1>1. \A a \in Ips : Of(a) = {} /\ Guessing(a) = {}
  BY DEF Init, Of, Guessing, Counted
<1>2. PerIp \in Nat /\ Threshold \in Nat
  BY SessionAssumption
<1>3. Cardinality({}) = 0
  BY FS_EmptySet
<1>4. \A a \in Ips : Cardinality(Of(a)) = 0 /\ Cardinality(Guessing(a)) = 0
  BY <1>1, <1>3
<1> QED
  BY <1>2, <1>4 DEF Init, Limits

LEMMA NextLimits == Core /\ Limits /\ [Next]_vars => Limits'
<1> SUFFICES ASSUME Core, Limits, [Next]_vars PROVE Limits'
  OBVIOUS
<1>1. ASSUME NEW a \in Ips, NEW f \in Fds, Accept(a, f) PROVE Limits'
  BY <1>1, LimitsAccept
<1>2. ASSUME NEW s \in Sids, NEW verb \in {"join", "move"}, Take(s, verb) PROVE Limits'
  BY <1>2, LimitsStage DEF Take, net, tables, Stages
<1>3. ASSUME NEW s \in Sids, Leave(s) \/ JoinRefused(s) \/ removeClient(s) \/ CloseFd(s) PROVE Limits'
  <2>1. PICK x \in {"remove", "flush", "close"} : at' = [at EXCEPT ![s] = x]
    BY <1>3 DEF Leave, JoinRefused, removeClient, CloseFd
  <2>2. at[s] \notin {"hash", "none", "gone"} /\ UNCHANGED <<ip, ipConns, wrong>>
    BY <1>3 DEF Leave, JoinRefused, removeClient, CloseFd, net, tables
  <2> QED
    BY <2>1, <2>2, LimitsStage DEF Stages
<1>4. ASSUME NEW s \in Sids, NEW silent \in BOOLEAN,
             JoinAllowed(s) \/ JoinPublish(s, silent) \/ JoinAnnounce(s) \/ Move(s)
      PROVE  Limits'
  <2>1. PICK x \in {"publish", "announce", "recv"} : at' = [at EXCEPT ![s] = x]
    BY <1>4 DEF JoinAllowed, JoinPublish, JoinAnnounce, Move
  <2>2. at[s] \notin {"hash", "none", "gone"} /\ UNCHANGED <<ip, ipConns, wrong>>
    BY <1>4 DEF JoinAllowed, JoinPublish, JoinAnnounce, Move, net, tables
  <2> QED
    BY <2>1, <2>2, LimitsStage DEF Stages
<1>5. ASSUME NEW s \in Sids, LoginRead(s) PROVE Limits'
  BY <1>5, LimitsLoginRead
<1>6. ASSUME NEW s \in Sids, LoginWrong(s) \/ LoginClaim(s) PROVE Limits'
  BY <1>6, LimitsLogin
<1>7. ASSUME NEW s \in Sids, Release(s) PROVE Limits'
  BY <1>7, LimitsRelease
<1>8. ASSUME NEW n, Kick(n) \/ KickFinds(n) \/ Ban(n) \/ Unban(n) \/ BanScan \/ KickShuts \/ Passwd(n) \/ Unpasswd(n)
                    \/ UNCHANGED vars
      PROVE  Limits'
  <2>1. UNCHANGED <<at, ip, ipConns, wrong>>
    BY <1>8 DEF Kick, KickFinds, Ban, Unban, BanScan, KickShuts, Passwd, Unpasswd, vars, threads, net, tables
  <2>2. wrong' \in [Ips -> Nat] /\ \A a \in Ips : wrong[a] \in Nat /\ wrong'[a] <= wrong[a]
    BY <2>1 DEF Limits
  <2> QED
    BY <2>1, <2>2, LimitsKept DEF Counted
<1>9. ASSUME NEW a \in Ips, Lapse(a) PROVE Limits'
  <2>1. UNCHANGED <<at, ip, ipConns>> /\ wrong' = [wrong EXCEPT ![a] = 0]
    BY <1>9 DEF Lapse, threads, net, tables
  <2>2. wrong' \in [Ips -> Nat] /\ \A b \in Ips : wrong'[b] <= wrong[b]
    BY <2>1 DEF Limits
  <2> QED
    BY <2>1, <2>2, LimitsKept DEF Counted
<1> QED
  BY <1>1, <1>2, <1>3, <1>4, <1>5, <1>6, <1>7, <1>8, <1>9 DEF Next, Reader

LEMMA LimitsInvariance == Spec => []Limits
BY InitCore, NextCore, InitLimits, NextLimits, PTL DEF Spec

\* An address holds no more descriptors than its limit, and its count is that of its
\* connections (IpConnCounter, taken by the accept loop and given back by their threads).
THEOREM PerAddress == Spec => []PerAddressExact
<1>1. Core /\ Limits => PerAddressExact
  <2> SUFFICES ASSUME Core, Limits, PerIp > 0, NEW a \in Ips
               PROVE  /\ Cardinality({f \in Fds : \E s \in Holder(f) : ip[s] = a}) <= PerIp
                      /\ ipConns[a] = Cardinality({s \in Sids : Counted(s) /\ ip[s] = a})
    BY DEF PerAddressExact
  <2> DEFINE held == {f \in Fds : \E s \in Holder(f) : ip[s] = a}
             owners == {s \in Sids : Owns(s) /\ ip[s] = a}
             fdOf == [s \in owners |-> fd[s]]
  <2>1. fdOf \in Surjection(owners, held)
    <3>1. ASSUME NEW s \in owners PROVE fd[s] \in held
      BY DEF Holder, Core, SessionGood
    <3>2. ASSUME NEW f \in held PROVE \E s \in owners : fdOf[s] = f
      BY DEF Holder
    <3> QED
      BY <3>1, <3>2 DEF Surjection
  <2>2. owners \subseteq Of(a) /\ IsFiniteSet(owners) /\ IsFiniteSet(Of(a))
    BY SetsAreFinite DEF Of, Owns, Counted
  <2> HIDE DEF held, owners, fdOf
  <2>3. Cardinality(held) <= Cardinality(owners) /\ Cardinality(owners) <= Cardinality(Of(a))
    BY <2>1, <2>2, FS_Surjection, FS_Subset
  <2>4. Cardinality(held) \in Nat /\ Cardinality(owners) \in Nat /\ Cardinality(Of(a)) \in Nat
    BY <2>1, <2>2, FS_Surjection, FS_CardinalityType
  <2>5. ipConns[a] = Cardinality(Of(a)) /\ ipConns[a] <= PerIp /\ PerIp \in Nat
    BY SessionAssumption DEF Limits
  <2>6. Cardinality(held) <= PerIp
    BY <2>3, <2>4, <2>5
  <2> QED
    BY <2>5, <2>6 DEF Of, held
<1> QED
  BY <1>1, CoreInvariance, LimitsInvariance, PTL

\* A lockout stops the guesses of an address within one for each of its connections
\* (AuthFailureLimiter: the check and the count are apart, with the hash between).
THEOREM GuessesAreBounded == Spec => []GuessesBounded
<1>1. Limits => GuessesBounded
  <2> SUFFICES ASSUME Limits, Threshold > 0, PerIp > 0, NEW a \in Ips PROVE wrong[a] <= Threshold - 1 + PerIp
    BY DEF GuessesBounded
  <2>1. Cardinality(Guessing(a)) \in Nat /\ wrong[a] \in Nat /\ Threshold \in Nat /\ PerIp \in Nat
    BY SetsAreFinite, SessionAssumption DEF Guessing, Limits
  <2> QED
    BY <2>1 DEF Limits
<1> QED
  BY <1>1, LimitsInvariance, PTL

-----------------------------------------------------------------------------
(* Logins. *)

\* A suffix that is needed is one of the few that have a name of their own.
LEMMA NamesAreNames ==
    ASSUME NEW n \in Wanted, NEW taken, IsFiniteSet(taken), Cardinality(taken) < Connections
    PROVE  next_free_username(n, taken) \in Names
<1>1. CASE n \notin taken
  BY <1>1, SessionAssumption DEF next_free_username
<1>2. CASE n \in taken
  <2> DEFINE m == Cardinality(taken) + 2
             fits(k) == /\ k \in 2..m /\ Append(n, k) \notin taken
                        /\ \A j \in 2..(k - 1) : Append(n, j) \in taken
  <2>1. Cardinality(taken) \in Nat /\ Connections \in Nat
    BY FS_CardinalityType, SessionAssumption
  <2>2. PICK k : k = (CHOOSE i \in 2..m : Append(n, i) \notin taken /\ \A j \in 2..(i - 1) : Append(n, j) \in taken)
    OBVIOUS
  <2>3. \E j : fits(j)
    BY <1>2, FreeSuffix
  <2>4. fits(k)
    BY <2>2, <2>3
  <2>5. k - 2 <= Cardinality(taken) - 1
    <3> DEFINE below == 2..(k - 1)
               suffixed == [j \in below |-> Append(n, j)]
               others == taken \ {n}
    <3>1. k \in 2..m /\ \A j \in below : Append(n, j) \in others
      BY <2>4, SuffixIsLonger
    <3>2. \A i, j \in below : Append(n, i) = Append(n, j) => i = j
      BY <2>1, <3>1, SuffixesDiffer
    <3>3. suffixed \in Injection(below, others)
      BY <3>1, <3>2 DEF Injection, IsInjective
    <3>4. IsFiniteSet(others) /\ Cardinality(others) = Cardinality(taken) - 1
      BY <1>2, FS_RemoveElement
    <3>5. Cardinality(below) <= Cardinality(others)
      <4> HIDE DEF suffixed, below, others
      <4> QED
        BY <3>3, <3>4, FS_Injection
    <3>6. Cardinality(below) = k - 2
      <4>1. 2 \in Int /\ k \in Int /\ k - 1 \in Int /\ k >= 2
        BY <2>1, <3>1
      <4>2. Cardinality(2..(k - 1)) = IF 2 > k - 1 THEN 0 ELSE (k - 1) - 2 + 1
        BY <4>1, FS_Interval
      <4> QED
        BY <4>1, <4>2
    <3> QED
      BY <3>4, <3>5, <3>6
  <2>6. k \in 2..Connections
    BY <2>1, <2>4, <2>5
  <2>7. next_free_username(n, taken) = Append(n, k)
    BY <1>2, <2>2 DEF next_free_username
  <2> QED
    BY <2>6, <2>7, SessionAssumption
<1> QED
  BY <1>1, <1>2

\* The names taken when a connection publishes its own are others'.
LEMMA TakenIsSmall ==
    ASSUME Core, NEW s \in Sids, at[s] = "publish", NEW T \in SUBSET Taken
    PROVE  IsFiniteSet(T) /\ Cardinality(T) < Connections
<1> DEFINE others == Sids \ {s}
           N == {t \in others : \E f \in Listed : roster[f].sid = t /\ roster[f].name \in T}
           nameOf == [t \in N |-> username[t]]
<1>1. \A f \in Listed : roster[f].sid \in others /\ username[roster[f].sid] = roster[f].name
  BY DEF Core, Roster, EntryGood, OnRoster
<1>2. \A t \in N : nameOf[t] \in T
  BY <1>1
<1>3. \A n \in T : \E t \in N : nameOf[t] = n
  BY <1>1 DEF Taken
<1>4. nameOf \in Surjection(N, T)
  <2> HIDE DEF N
  <2> QED
    BY <1>2, <1>3 DEF Surjection
<1>5. IsFiniteSet(Sids) /\ Cardinality(Sids) = Connections /\ Connections \in Nat
  <2>1. 1 \in Int /\ Connections \in Int /\ Connections \in Nat
    BY SessionAssumption
  <2>2. IsFiniteSet(1..Connections) /\ Cardinality(1..Connections) = IF 1 > Connections THEN 0 ELSE Connections - 1 + 1
    BY <2>1, FS_Interval
  <2> QED
    BY <2>1, <2>2 DEF Sids
<1>6. IsFiniteSet(others) /\ Cardinality(others) = Connections - 1
  BY <1>5, FS_RemoveElement
<1>7. IsFiniteSet(N) /\ Cardinality(N) <= Cardinality(others)
  BY <1>6, FS_Subset
<1> HIDE DEF N, nameOf, others
<1>8. IsFiniteSet(T) /\ Cardinality(T) <= Cardinality(N)
  BY <1>4, <1>7, FS_Surjection
<1>9. Cardinality(T) \in Nat /\ Cardinality(N) \in Nat
  BY <1>7, <1>8, FS_CardinalityType
<1> QED
  BY <1>5, <1>6, <1>7, <1>8, <1>9

\* Names on the roster are names that can have a PIN.
Logins ==
    /\ auth = [n \in Names |-> auth[n]]
    /\ \A f \in Listed : roster[f].name \in Names
    /\ VerifiedIsCurrent

LEMMA LoginsKept ==
    ASSUME Logins, UNCHANGED <<roster, auth>>
    PROVE  Logins'
BY DEF Logins, Listed, VerifiedIsCurrent

LEMMA LoginsPublish ==
    ASSUME Core, Logins, NEW s \in Sids, NEW silent \in BOOLEAN, JoinPublish(s, silent)
    PROVE  Logins'
<1> DEFINE n == username[s]
           old == {f \in Listed : /\ roster[f].name = n
                                  /\ dup_name_action(roster[f].ip = ip[s], silent) = "evict"}
           taken == IF old = {} THEN Taken ELSE Taken \ {n}
           name == next_free_username(n, taken)
           mine == [sid |-> s, name |-> name, ip |-> ip[s], verified |-> 0]
<1>1. /\ at[s] = "publish" /\ UNCHANGED auth
      /\ roster' = [f \in Fds |-> IF f = fd[s] THEN mine ELSE IF f \in old THEN NoOne ELSE roster[f]]
  BY DEF JoinPublish, operator
<1>2. name \in Names
  <2>1. n \in Wanted
    BY <1>1 DEF Core, SessionGood
  <2>2. taken \in SUBSET Taken
    OBVIOUS
  <2> HIDE DEF taken, old
  <2>3. IsFiniteSet(taken) /\ Cardinality(taken) < Connections
    BY <1>1, <2>2, TakenIsSmall
  <2> QED
    BY <2>1, <2>3, NamesAreNames
<1> HIDE DEF name, old
<1>3. \A f \in Listed' : roster'[f] = mine \/ (f \in Listed /\ roster'[f] = roster[f])
  BY <1>1 DEF Listed
<1>4. mine.name \in Names /\ mine.verified = 0
  BY <1>2
<1> QED
  BY <1>1, <1>3, <1>4 DEF Logins, VerifiedIsCurrent

\* The record that was checked is the name's while the entry is marked.
LEMMA LoginsClaim ==
    ASSUME Core, Logins, NEW s \in Sids, LoginClaim(s)
    PROVE  Logins'
<1>1. at[s] = "hash" /\ UNCHANGED auth
  BY DEF LoginClaim, operator
<1>2. fd[s] \in Fds
  BY <1>1 DEF Core, SessionGood, Owns
<1>3. CASE roster' = roster
  BY <1>1, <1>3, LoginsKept
<1>4. CASE roster' # roster
  <2>1. /\ roster' = [roster EXCEPT ![fd[s]].verified = rec[s]]
        /\ auth[username[s]] = rec[s] /\ roster[fd[s]].sid # 0 /\ roster[fd[s]].name = username[s]
    BY <1>4 DEF LoginClaim
  <2>2. fd[s] \in Listed
    BY <1>2, <2>1 DEF Listed, NoOne
  <2>3. roster[fd[s]] \in [sid : Sids, name : {roster[fd[s]].name}, ip : Ips, verified : {roster[fd[s]].verified}]
    BY <2>2 DEF Core, Roster, RosterTyped, Listed
  <2>4. roster'[fd[s]] = [roster[fd[s]] EXCEPT !.verified = rec[s]] /\ \A f \in Fds \ {fd[s]} : roster'[f] = roster[f]
    BY <1>2, <2>1 DEF Core, Roster
  <2>5. roster'[fd[s]].name = username[s] /\ roster'[fd[s]].verified = rec[s]
    BY <2>1, <2>3, <2>4
  <2>6. \A f \in Listed' : f = fd[s] \/ (f \in Listed /\ roster'[f] = roster[f])
    BY <2>4 DEF Listed
  <2>7. username[s] \in Names
    BY <2>1, <2>2 DEF Logins
  <2>8. \A f \in Listed' : roster'[f].name \in Names /\ (roster'[f].verified # 0 => roster'[f].verified = auth[roster'[f].name])
    BY <2>1, <2>5, <2>6, <2>7 DEF Logins, VerifiedIsCurrent
  <2> QED
    BY <1>1, <2>8 DEF Logins, VerifiedIsCurrent
<1> QED
  BY <1>3, <1>4

LEMMA LoginsOrder ==
    ASSUME Core, Logins, NEW n \in Names, NEW r, auth' = [auth EXCEPT ![n] = r], roster' = LogOut(n)
    PROVE  Logins'
<1>1. \A m \in Names \ {n} : auth'[m] = auth[m]
  BY DEF Logins
<1>2. auth' = [m \in Names |-> auth'[m]]
  BY DEF Logins
<1>3. ASSUME NEW f \in Listed'
      PROVE  roster'[f].name \in Names /\ (roster'[f].verified # 0 => roster'[f].verified = auth'[roster'[f].name])
  <2>1. f \in Listed
    BY <1>3, LogOutStep DEF Listed, SameEntry
  <2>2. roster[f] \in [sid : Sids, name : {roster[f].name}, ip : Ips, verified : {roster[f].verified}]
    BY <2>1 DEF Core, Roster, RosterTyped, Listed
  <2>3. CASE roster[f].name = n
    <3>1. roster'[f] = [roster[f] EXCEPT !.verified = 0]
      BY <2>1, <2>3 DEF LogOut, Listed
    <3>2. roster'[f].name = n /\ roster'[f].verified = 0
      BY <2>2, <2>3, <3>1
    <3> QED
      BY <3>2
  <2>4. CASE roster[f].name # n
    <3>1. roster'[f] = roster[f]
      BY <2>1, <2>4 DEF LogOut, Listed
    <3> QED
      BY <1>1, <2>1, <2>4, <3>1 DEF Logins, VerifiedIsCurrent
  <2> QED
    BY <2>3, <2>4
<1> QED
  BY <1>2, <1>3 DEF Logins, VerifiedIsCurrent

LEMMA InitLogins == Init => Logins
BY DEF Init, Logins, Listed, VerifiedIsCurrent

LEMMA NextLogins == Core /\ Logins /\ [Next]_vars => Logins'
<1> SUFFICES ASSUME Core, Logins, [Next]_vars PROVE Logins'
  OBVIOUS
<1>1. ASSUME NEW a, NEW f, Accept(a, f) PROVE Logins'
  BY <1>1, LoginsKept DEF Accept, operator
<1>2. ASSUME NEW s \in Sids, NEW verb, Take(s, verb) PROVE Logins'
  BY <1>2, LoginsKept DEF Take, tables, operator
<1>3. ASSUME NEW s \in Sids,
             Leave(s) \/ Move(s) \/ JoinRefused(s) \/ JoinAllowed(s) \/ JoinAnnounce(s) \/ LoginRead(s)
             \/ LoginWrong(s) \/ CloseFd(s) \/ Release(s)
      PROVE  Logins'
  BY <1>3, LoginsKept DEF Leave, Move, JoinRefused, JoinAllowed, JoinAnnounce, LoginRead, LoginWrong,
     CloseFd, Release, tables, operator
<1>4. ASSUME NEW s \in Sids, NEW silent \in BOOLEAN, JoinPublish(s, silent) PROVE Logins'
  BY <1>4, LoginsPublish
<1>5. ASSUME NEW s \in Sids, LoginClaim(s) PROVE Logins'
  BY <1>5, LoginsClaim
<1>6. ASSUME NEW s \in Sids, removeClient(s) PROVE Logins'
  <2>1. UNCHANGED auth /\ roster' = [roster EXCEPT ![fd[s]] = NoOne]
    BY <1>6 DEF removeClient, operator
  <2>2. \A f \in Listed' : f \in Listed /\ roster'[f] = roster[f]
    BY <2>1 DEF Core, Roster, Listed
  <2> QED
    BY <2>1, <2>2 DEF Logins, VerifiedIsCurrent
<1>7. ASSUME NEW n, Kick(n) \/ KickFinds(n) \/ Ban(n) \/ Unban(n) \/ BanScan \/ KickShuts \/ Lapse(n) \/ UNCHANGED vars
      PROVE  Logins'
  BY <1>7, LoginsKept DEF Kick, KickFinds, Ban, Unban, BanScan, KickShuts, Lapse, vars, tables, operator
<1>8. ASSUME NEW n \in Pinned, Passwd(n) \/ Unpasswd(n) PROVE Logins'
  <2>1. n \in Names
    BY SessionAssumption
  <2>2. \E r : auth' = [auth EXCEPT ![n] = r] /\ roster' = LogOut(n)
    BY <1>8 DEF Passwd, Unpasswd
  <2> QED
    BY <2>1, <2>2, LoginsOrder
<1> QED
  BY <1>1, <1>2, <1>3, <1>4, <1>5, <1>6, <1>7, <1>8 DEF Next, Reader

\* A session that counts as logged in proved the record its name has now (handleLogin, and the
\* operator's passwd and unpasswd).
THEOREM LoginsAreCurrent == Spec => []VerifiedIsCurrent
<1>1. Logins => VerifiedIsCurrent
  BY DEF Logins
<1> QED
  BY <1>1, CoreInvariance, InitLogins, NextLogins, PTL DEF Spec
-----------------------------------------------------------------------------
(* The types of what the readers and the operator hand each other. *)

Records == 0..(MaxOrders + 1)
Orders == [scan : SUBSET Bannable, todo : SUBSET Names, target : Fds \cup {0}]
Held ==
    /\ username \in [Sids -> Names \cup {<< >>}] /\ rec \in [Sids -> Records]
    /\ clients \subseteq Fds /\ shut \subseteq Fds /\ bans \subseteq Bannable
    /\ \A f \in Listed : roster[f].verified \in Records
    /\ PerIp = 0 => \A a \in Ips : ipConns[a] = 0
    /\ auth \in [Names -> Records] /\ orders \in 0..MaxOrders /\ ctl \in Orders

LEMMA RecordsAreNumbers ==
    /\ MaxOrders \in Nat /\ PerIp \in Nat /\ 0 \in Records /\ 1 \in Records
    /\ \A n \in 0..MaxOrders : n < MaxOrders => n + 2 \in Records /\ n + 1 \in 0..MaxOrders
BY SessionAssumption DEF Records

LEMMA InitHeld == Init => Held
BY RecordsAreNumbers DEF Init, Held, Listed, Orders, Idle

LEMMA HeldAccept ==
    ASSUME Core, Held, NEW a \in Ips, NEW f \in Fds, Accept(a, f)
    PROVE  Held'
<1>1. /\ clients' = clients \cup {f}
      /\ ipConns' = IF PerIp > 0 THEN [ipConns EXCEPT ![a] = @ + 1] ELSE ipConns
      /\ UNCHANGED <<username, rec, roster, shut, bans, auth, orders, ctl>>
  BY DEF Accept, operator
<1> QED
  BY <1>1, RecordsAreNumbers DEF Held, Listed

\* A step of one reader that gives itself a name or takes a record of its own name's.
LEMMA HeldStage ==
    ASSUME Held, NEW s \in Sids,
           \/ UNCHANGED username
           \/ \E n \in Names \cup {<< >>} : username' = [username EXCEPT ![s] = n],
           UNCHANGED rec \/ \E r \in Records : rec' = [rec EXCEPT ![s] = r],
           UNCHANGED <<roster, ipConns, operator>>, clients' \subseteq clients, shut' \subseteq shut
    PROVE  Held'
<1>1. username' \in [Sids -> Names \cup {<< >>}] /\ rec' \in [Sids -> Records]
  BY DEF Held
<1> QED
  BY <1>1 DEF Held, Listed, operator

LEMMA HeldPublish ==
    ASSUME Core, Held, Logins', NEW s \in Sids, NEW silent \in BOOLEAN, JoinPublish(s, silent)
    PROVE  Held'
<1> DEFINE n == username[s]
           old == {f \in Listed : /\ roster[f].name = n
                                  /\ dup_name_action(roster[f].ip = ip[s], silent) = "evict"}
           taken == IF old = {} THEN Taken ELSE Taken \ {n}
           name == next_free_username(n, taken)
           mine == [sid |-> s, name |-> name, ip |-> ip[s], verified |-> 0]
<1>1. /\ at[s] = "publish"
      /\ roster' = [f \in Fds |-> IF f = fd[s] THEN mine ELSE IF f \in old THEN NoOne ELSE roster[f]]
      /\ shut' = shut \cup old /\ username' = [username EXCEPT ![s] = name]
      /\ UNCHANGED <<rec, clients, ipConns, operator>>
  BY DEF JoinPublish
<1>2. fd[s] \in Fds /\ old \subseteq Fds
  BY <1>1 DEF Core, SessionGood, Owns, Listed
<1> HIDE DEF old, name
<1>3. roster'[fd[s]] = mine /\ mine # NoOne /\ mine.name = name
  BY <1>1, <1>2 DEF NoOne
<1>4. name \in Names
  BY <1>2, <1>3 DEF Logins, Listed
<1>5. username' \in [Sids -> Names \cup {<< >>}]
  BY <1>1, <1>4 DEF Held
<1>6. ASSUME NEW f \in Listed' PROVE roster'[f].verified \in Records
  <2>1. roster'[f] = mine \/ (f \in Listed /\ roster'[f] = roster[f])
    BY <1>1, <1>6 DEF Listed
  <2> QED
    BY <2>1, RecordsAreNumbers DEF Held
<1> QED
  BY <1>1, <1>2, <1>5, <1>6 DEF Held, operator

LEMMA HeldClaim ==
    ASSUME Core, Held, NEW s \in Sids, LoginClaim(s)
    PROVE  Held'
<1>1. at[s] = "hash" /\ rec' = [rec EXCEPT ![s] = 0] /\ UNCHANGED <<username, shut, clients, ipConns, operator>>
  BY DEF LoginClaim, net
<1>2. fd[s] \in Fds
  BY <1>1 DEF Core, SessionGood, Owns
<1>3. rec' \in [Sids -> Records] /\ rec[s] \in Records
  BY <1>1, RecordsAreNumbers DEF Held
<1>4. ASSUME NEW f \in Listed' PROVE roster'[f].verified \in Records
  <2>1. CASE roster' = roster
    BY <2>1, <1>4 DEF Held, Listed
  <2>2. CASE roster' # roster
    <3>1. roster' = [roster EXCEPT ![fd[s]].verified = rec[s]] /\ roster[fd[s]].sid # 0
      BY <2>2 DEF LoginClaim
    <3>2. roster[fd[s]] \in [sid : Sids, name : {roster[fd[s]].name}, ip : Ips, verified : {roster[fd[s]].verified}]
      BY <1>2, <3>1 DEF Core, Roster, RosterTyped, NoOne
    <3>3. roster'[fd[s]] = [roster[fd[s]] EXCEPT !.verified = rec[s]] /\ \A g \in Fds \ {fd[s]} : roster'[g] = roster[g]
      BY <1>2, <3>1 DEF Core, Roster
    <3> QED
      BY <1>3, <1>4, <3>2, <3>3 DEF Held, Listed
  <2> QED
    BY <2>1, <2>2
<1> QED
  BY <1>1, <1>3, <1>4 DEF Held, operator

LEMMA HeldRemove ==
    ASSUME Core, Held, NEW s \in Sids, removeClient(s)
    PROVE  Held'
<1>1. /\ clients' = clients \ {fd[s]} /\ roster' = [roster EXCEPT ![fd[s]] = NoOne]
      /\ UNCHANGED <<username, rec, shut, ipConns, operator>>
  BY DEF removeClient, net
<1>2. \A f \in Listed' : f \in Listed /\ roster'[f] = roster[f]
  BY <1>1 DEF Core, Roster, Listed
<1> QED
  BY <1>1, <1>2 DEF Held, operator

\* A name's PIN is a new record or none.
LEMMA HeldPins ==
    ASSUME Core, Held, NEW n \in Pinned, Passwd(n) \/ Unpasswd(n)
    PROVE  Held'
<1>1. /\ orders < MaxOrders /\ orders' = orders + 1 /\ roster' = LogOut(n)
      /\ auth' = [auth EXCEPT ![n] = orders + 2] \/ auth' = [auth EXCEPT ![n] = 0]
      /\ UNCHANGED <<username, rec, shut, clients, ipConns, bans, ctl>>
  BY DEF Passwd, Unpasswd, Order, threads, net
<1>2. auth' \in [Names -> Records] /\ orders' \in 0..MaxOrders
  BY <1>1, RecordsAreNumbers DEF Held
<1>3. ASSUME NEW f \in Listed' PROVE roster'[f].verified \in Records
  <2>1. f \in Listed
    BY <1>1, <1>3, LogOutStep DEF Listed, SameEntry
  <2>2. roster[f] \in [sid : Sids, name : {roster[f].name}, ip : Ips, verified : {roster[f].verified}]
    BY <2>1 DEF Core, Roster, RosterTyped, Listed
  <2>3. roster'[f] = roster[f] \/ roster'[f] = [roster[f] EXCEPT !.verified = 0]
    BY <1>1, <2>1 DEF LogOut, Listed
  <2> QED
    BY <2>1, <2>2, <2>3, RecordsAreNumbers DEF Held
<1> QED
  BY <1>1, <1>2, <1>3 DEF Held

\* What the control thread does about a ban or a kick.
LEMMA HeldControl ==
    ASSUME Core, Held, Logins,
           (\E n \in Names : Kick(n) \/ KickFinds(n)) \/ (\E b \in Bannable : Ban(b) \/ Unban(b)) \/ BanScan \/ KickShuts
    PROVE  Held'
<1>1. UNCHANGED <<username, rec, clients, roster, ipConns, auth>>
  BY DEF Kick, KickFinds, Ban, Unban, BanScan, KickShuts, threads, tables
<1>2. bans' \subseteq Bannable
  BY DEF Kick, KickFinds, Ban, Unban, BanScan, KickShuts, Held
<1>3. orders' \in 0..MaxOrders
  <2>1. orders' = orders \/ (orders < MaxOrders /\ orders' = orders + 1)
    BY DEF Kick, KickFinds, Ban, Unban, BanScan, KickShuts, Order
  <2> QED
    BY <2>1, RecordsAreNumbers DEF Held
<1>4. shut' \subseteq Fds
  <2>1. shut' = shut \/ (ctl.target # 0 /\ shut' = shut \cup {ctl.target})
    BY DEF Kick, KickFinds, Ban, Unban, BanScan, KickShuts, net
  <2> QED
    BY <2>1 DEF Held, Orders
<1>5. ctl' \in Orders
  <2>1. Idle \in Orders /\ ctl \in Orders
    BY DEF Idle, Orders, Held
  <2>2. CASE \E n \in Names : Kick(n)
    BY <2>1, <2>2 DEF Kick, Orders
  <2>3. CASE \E n \in Names : KickFinds(n)
    BY <2>1, <2>3 DEF KickFinds, Orders, Listed
  <2>4. CASE \E b \in Bannable : Ban(b) \/ Unban(b)
    BY <2>1, <2>4 DEF Ban, Unban, Order, Orders
  <2>5. CASE BanScan
    <3> DEFINE kicked == {roster[f].name : f \in {g \in Listed : roster[g].name \in ctl.scan \/ roster[g].ip \in ctl.scan}}
    <3>1. kicked \subseteq Names
      BY DEF Logins
    <3>2. ctl' = [Idle EXCEPT !.todo = kicked]
      BY <2>5 DEF BanScan
    <3> HIDE DEF kicked
    <3> QED
      BY <2>1, <3>1, <3>2 DEF Orders
  <2>6. CASE KickShuts
    BY <2>1, <2>6 DEF KickShuts, Orders
  <2> QED
    BY <2>2, <2>3, <2>4, <2>5, <2>6
<1> QED
  BY <1>1, <1>2, <1>3, <1>4, <1>5 DEF Held, Listed

LEMMA NextHeld == Core /\ Logins /\ Logins' /\ Held /\ [Next]_vars => Held'
<1> SUFFICES ASSUME Core, Logins, Logins', Held, [Next]_vars PROVE Held'
  OBVIOUS
<1>1. ASSUME NEW a \in Ips, NEW f \in Fds, Accept(a, f) PROVE Held'
  BY <1>1, HeldAccept
<1>2. ASSUME NEW s \in Sids, NEW verb, Take(s, verb) PROVE Held'
  BY <1>2, HeldStage DEF Take, net, tables
<1>3. ASSUME NEW s \in Sids,
             Leave(s) \/ Move(s) \/ JoinRefused(s) \/ JoinAnnounce(s) \/ CloseFd(s)
      PROVE  Held'
  <2>1. /\ UNCHANGED <<username, rec, roster, ipConns, operator>>
        /\ clients' \subseteq clients /\ shut' \subseteq shut
    BY <1>3 DEF Leave, Move, JoinRefused, JoinAnnounce, CloseFd, net, tables
  <2> QED
    BY <2>1, HeldStage
<1>4. ASSUME NEW s \in Sids, JoinAllowed(s) PROVE Held'
  <2>1. PICK n \in Wanted : username' = [username EXCEPT ![s] = n]
    BY <1>4 DEF JoinAllowed
  <2>2. n \in Names
    BY SessionAssumption
  <2> QED
    BY <1>4, <2>1, <2>2, HeldStage DEF JoinAllowed, net, tables
<1>5. ASSUME NEW s \in Sids, LoginRead(s) PROVE Held'
  <2>1. username[s] \in Names /\ auth[username[s]] \in Records
    BY <1>5 DEF LoginRead, Held
  <2> QED
    BY <1>5, <2>1, HeldStage DEF LoginRead, net, tables
<1>6. ASSUME NEW s \in Sids, LoginWrong(s) PROVE Held'
  BY <1>6, HeldStage, RecordsAreNumbers DEF LoginWrong, net, tables
<1>7. ASSUME NEW s \in Sids, Release(s) PROVE Held'
  <2>1. username' = [username EXCEPT ![s] = << >>] /\ UNCHANGED <<shut, rec, clients, roster, operator>>
    BY <1>7 DEF Release
  <2>2. username' \in [Sids -> Names \cup {<< >>}]
    BY <2>1 DEF Held
  <2>3. PerIp = 0 => UNCHANGED ipConns
    BY <1>7 DEF Release
  <2> QED
    BY <2>1, <2>2, <2>3 DEF Held, Listed, operator
<1>8. ASSUME NEW s \in Sids, NEW silent \in BOOLEAN, JoinPublish(s, silent) PROVE Held'
  BY <1>8, HeldPublish
<1>9. ASSUME NEW s \in Sids, LoginClaim(s) PROVE Held'
  BY <1>9, HeldClaim
<1>10. ASSUME NEW s \in Sids, removeClient(s) PROVE Held'
  BY <1>10, HeldRemove
<1>11. ASSUME NEW n \in Pinned, Passwd(n) \/ Unpasswd(n) PROVE Held'
  BY <1>11, HeldPins
<1>12. ASSUME (\E n \in Names : Kick(n) \/ KickFinds(n)) \/ (\E b \in Bannable : Ban(b) \/ Unban(b))
                 \/ BanScan \/ KickShuts
       PROVE  Held'
  BY <1>12, HeldControl
<1>13. ASSUME NEW a \in Ips, Lapse(a) \/ UNCHANGED vars PROVE Held'
  BY <1>13 DEF Lapse, vars, threads, net, tables, operator, Held, Listed
<1>14. CASE UNCHANGED vars
  BY <1>14 DEF vars, Held, Listed
<1> QED
  BY <1>1, <1>2, <1>3, <1>4, <1>5, <1>6, <1>7, <1>8, <1>9, <1>10, <1>11, <1>12, <1>13, <1>14 DEF Next, Reader

\* Every variable keeps its type, and a verified entry holds a record: what a reader copies of
\* the operator's tables, and the operator of the roster, is still of its kind when it is used
\* (handleLogin, ctlBan, ctlKick).
THEOREM TypesHold == Spec => []TypeOK
<1>1. Core /\ Limits /\ Logins /\ Held => TypeOK
  <2> SUFFICES ASSUME Core, Limits, Logins, Held PROVE TypeOK
    OBVIOUS
  <2>1. roster \in [Fds -> Entries]
    <3>1. ASSUME NEW f \in Fds PROVE roster[f] \in Entries
      <4>1. CASE roster[f] = NoOne
        BY <4>1 DEF Entries
      <4>2. CASE roster[f] # NoOne
        <5>1. roster[f] \in [sid : Sids, name : {roster[f].name}, ip : Ips, verified : {roster[f].verified}]
          BY <4>2 DEF Core, Roster, RosterTyped
        <5>2. roster[f].name \in Names /\ roster[f].verified \in 0..(MaxOrders + 1)
          BY <4>2 DEF Listed, Logins, Held, Records
        <5> QED
          BY <5>1, <5>2 DEF Entries
      <4> QED
        BY <4>1, <4>2
    <3> QED
      BY <3>1 DEF Core, Roster
  <2>2. ipConns \in [Ips -> 0..Connections]
    <3>1. ASSUME NEW a \in Ips PROVE ipConns[a] \in 0..Connections
      <4>1. PerIp \in Nat /\ Connections \in Nat /\ ipConns[a] \in Nat
        BY SessionAssumption DEF Limits
      <4>2. CASE PerIp = 0
        BY <4>1, <4>2 DEF Held
      <4>3. CASE PerIp > 0
        <5>1. 1 \in Int /\ Connections \in Int
          BY <4>1
        <5>2. IsFiniteSet(1..Connections) /\ Cardinality(1..Connections) = IF 1 > Connections THEN 0 ELSE Connections - 1 + 1
          BY <5>1, FS_Interval
        <5>3. Cardinality(Sids) = Connections /\ IsFiniteSet(Sids)
          BY <4>1, <5>2 DEF Sids
        <5>4. Cardinality(Of(a)) <= Cardinality(Sids)
          BY <5>3, FS_Subset DEF Of
        <5>5. ipConns[a] = Cardinality(Of(a))
          BY <4>3 DEF Limits
        <5> QED
          BY <4>1, <5>3, <5>4, <5>5
      <4> QED
        BY <4>1, <4>2, <4>3
    <3> QED
      BY <3>1 DEF Limits
  <2> QED
    BY <2>1, <2>2 DEF Core, Typed, Held, Limits, Records, Orders, TypeOK
<1> QED
  BY <1>1, CoreInvariance, LimitsInvariance, InitLogins, NextLogins, InitHeld, NextHeld, PTL DEF Spec
=============================================================================
