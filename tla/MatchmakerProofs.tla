-------------------------- MODULE MatchmakerProofs --------------------------
(***************************************************************************)
(* The registry of the matchmaker implements the list of module Listing,   *)
(* and its rows are held by handlers that will let go of them, for any     *)
(* servers, addresses, limits, and numbers of connections and crashes.     *)
(***************************************************************************)
EXTENDS Matchmaker, FiniteSetTheorems, TLAPS

Addresses == Ips \X Ports
Peers == {Host[s] : s \in Servers}
Allowed(peer, ip) == peer \in {Home, ip}

-----------------------------------------------------------------------------
(* The invariant. *)

\* A connection's REGISTER names an address its server may have.
RegOf(s) == {r \in [ip : Ips, port : Ports, name : {Name[s]}, peer : {Host[s]}] : Allowed(r.peer, r.ip)}
ThreadOf(s) ==
    [of : {s}, reg : RegOf(s), at : {"open", "added", "serving", "left"},
     displaced : SUBSET Nat, shut : BOOLEAN]

ThreadTyped(x) == x = Ended \/ \E s \in Servers : x \in ThreadOf(s)

ThreadsTyped ==
    /\ \E n \in 0..MaxConns : thread = [c \in 1..n |-> thread[c]]
    /\ \A c \in Conns : ThreadTyped(thread[c])

\* A process that runs, or is about to, has its port; only one that runs has a connection.
ProcsTyped ==
    /\ proc \in [Servers -> [at : {"down", "fork", "up"}, port : Nat \cup Ports, link : Nat, starts : Nat]]
    /\ \A s \in Servers :
          /\ proc[s].at # "down" => proc[s].port \in Ports
          /\ proc[s].link # NoConn => proc[s].at = "up"

\* Only a handler that registered has its socket in the table.
FdsRegistered == \A c \in regFds : c \in Conns /\ thread[c].at \in {"added", "serving"}

\* One row an address, in memory and on disk.
OneRow(rs) == \A e, f \in rs : Addr(e) = Addr(f) => e = f

WorldNames == {Name[s] : s \in Servers}
Rows == [ip : Ips, port : Ports, name : WorldNames, peer : Peers \cup {""}, conn : Nat, heard : BOOLEAN]
Lines == [ip : Ips, port : Ports, name : WorldNames]

Held(e) ==
    /\ e.conn \in Conns
    /\ thread[e.conn].at \in {"added", "serving", "left"}
    /\ Addr(thread[e.conn].reg) = Addr(e)

RowsGood ==
    /\ rows \subseteq Rows /\ OneRow(rows)
    /\ \A e \in rows : e.conn # NoConn => Held(e)
    /\ ~up => rows = {}

FileGood == file \subseteq Lines /\ OneRow(file)

Inv == up \in BOOLEAN /\ ThreadsTyped /\ ProcsTyped /\ FdsRegistered /\ RowsGood /\ FileGood

-----------------------------------------------------------------------------
(* What an action does to one handler. *)

LEMMA ConnsAreNumbers ==
    ASSUME ThreadsTyped
    PROVE  Conns \subseteq 1..MaxConns /\ Conns \subseteq Nat \ {NoConn} /\ thread = [c \in Conns |-> thread[c]]
<1>1. PICK n \in 0..MaxConns : thread = [c \in 1..n |-> thread[c]]
  BY DEF ThreadsTyped
<1>2. Conns = 1..n
  BY <1>1 DEF Conns
<1>3. MaxConns \in Nat
  BY MatchmakerAssumption
<1>4. Conns \subseteq 1..MaxConns /\ Conns \subseteq Nat \ {NoConn}
  BY <1>1, <1>2, <1>3 DEF NoConn
<1> QED
  BY <1>1, <1>2, <1>4

\* A handler that is there and has not ended is some server's, and registers for it.
LEMMA HandlerOf ==
    ASSUME ThreadsTyped, NEW c \in Conns, thread[c].at # "ended"
    PROVE  /\ thread[c].of \in Servers
           /\ thread[c] \in ThreadOf(thread[c].of)
           /\ thread[c].reg \in RegOf(thread[c].of)
<1>1. thread[c] # Ended
  BY DEF Ended
<1>2. PICK s \in Servers : thread[c] \in ThreadOf(s)
  BY <1>1 DEF ThreadsTyped, ThreadTyped
<1>3. thread[c].of = s /\ thread[c].reg \in RegOf(s)
  BY <1>2 DEF ThreadOf
<1> QED
  BY <1>2, <1>3

LEMMA ThreadStep ==
    ASSUME ThreadsTyped, NEW c \in Conns, NEW x, ThreadTyped(x), thread' = [thread EXCEPT ![c] = x]
    PROVE  ThreadsTyped' /\ Conns' = Conns /\ thread'[c] = x /\ \A d \in Conns \ {c} : thread'[d] = thread[d]
<1>1. PICK n \in 0..MaxConns : thread = [d \in 1..n |-> thread[d]]
  BY DEF ThreadsTyped
<1>2. Conns = 1..n
  BY <1>1 DEF Conns
<1>3. thread' = [d \in 1..n |-> IF d = c THEN x ELSE thread[d]]
  BY <1>1, <1>2
<1>4. Conns' = 1..n /\ \A d \in 1..n : thread'[d] = IF d = c THEN x ELSE thread[d]
  BY <1>3 DEF Conns
<1>5. \A d \in 1..n : ThreadTyped(thread'[d])
  BY <1>2, <1>4 DEF ThreadsTyped
<1>6. thread' = [d \in 1..n |-> thread'[d]]
  BY <1>3, <1>4
<1>7. ThreadsTyped'
  BY <1>4, <1>5, <1>6 DEF ThreadsTyped, ThreadTyped, ThreadOf, RegOf, Allowed, Ended
<1> QED
  BY <1>2, <1>4, <1>7

LEMMA SameThreads ==
    ASSUME ThreadsTyped, UNCHANGED thread
    PROVE  ThreadsTyped' /\ Conns' = Conns
BY DEF ThreadsTyped, Conns, ThreadTyped, ThreadOf, RegOf, Allowed, Ended

\* What a server registers is what it may have.
LEMMA RegGood ==
    ASSUME ProcsTyped, NEW s \in Servers, NEW claim \in Ips, proc[s].at = "up"
    PROVE  Reg(s, claim) \in RegOf(s)
<1>1. proc[s].port \in Ports
  BY DEF ProcsTyped
<1>2. advertise_policy(s, claim) \in Ips /\ Allowed(Host[s], advertise_policy(s, claim))
  BY DEF advertise_policy, Trusted, Ips, Allowed
<1> QED
  BY <1>1, <1>2 DEF Reg, RegOf

-----------------------------------------------------------------------------
(* What an action does to the rows. *)

LEMMA RegOfServer ==
    ASSUME NEW s \in Servers, NEW reg \in RegOf(s), NEW c \in Nat
    PROVE  /\ Row(reg, c) \in Rows /\ Row(reg, c).conn = c
           /\ Addr(Row(reg, c)) = Addr(reg) /\ Row(reg, c).peer = Host[s]
BY DEF RegOf, Row, Rows, Peers, WorldNames, Addr

LEMMA AddedGood ==
    ASSUME rows \subseteq Rows, OneRow(rows), NEW c \in Nat, NEW reg, Row(reg, c) \in Rows,
           Addr(Row(reg, c)) = Addr(reg)
    PROVE  /\ Added(reg, c) \subseteq Rows /\ OneRow(Added(reg, c))
           /\ \A e \in Added(reg, c) : e = Row(reg, c) \/ (e \in rows /\ e.conn # c)
<1>1. \A e \in Added(reg, c) : e = Row(reg, c) \/ (e \in rows /\ e.conn # c /\ Addr(e) # Addr(reg))
  BY DEF Added, SameAs, OwnedBy
<1>2. Added(reg, c) \subseteq Rows
  BY <1>1
<1>3. OneRow(Added(reg, c))
  BY <1>1 DEF OneRow
<1> QED
  BY <1>1, <1>2, <1>3

\* A change of some rows that leaves their addresses and takes no new holder.
SameRow(e, f) == Addr(f) = Addr(e) /\ f.peer = e.peer /\ f.conn \in {e.conn, NoConn}

LEMMA Reheard ==
    ASSUME NEW e \in Rows, NEW b \in BOOLEAN
    PROVE  [e EXCEPT !.heard = b] \in Rows /\ SameRow(e, [e EXCEPT !.heard = b])
           /\ [e EXCEPT !.heard = b].conn = e.conn
BY DEF Rows, SameRow, Addr

LEMMA LetGo ==
    ASSUME NEW e \in Rows
    PROVE  [e EXCEPT !.conn = NoConn] \in Rows /\ SameRow(e, [e EXCEPT !.conn = NoConn])
           /\ [e EXCEPT !.conn = NoConn].conn = NoConn
BY DEF Rows, SameRow, Addr, NoConn

LEMMA MappedGood ==
    ASSUME NEW rs, rs \subseteq Rows, OneRow(rs), NEW new \in [rs -> Rows],
           \A e \in rs : SameRow(e, new[e])
    PROVE  /\ {new[e] : e \in rs} \subseteq Rows /\ OneRow({new[e] : e \in rs})
           /\ \A f \in {new[e] : e \in rs} : \E e \in rs : SameRow(e, f)
<1>1. {new[e] : e \in rs} \subseteq Rows
  OBVIOUS
<1>2. OneRow({new[e] : e \in rs})
  BY DEF OneRow, SameRow
<1> QED
  BY <1>1, <1>2

\* The rows an action leaves to their holders, who stay what they were to them.
LEMMA HeldStays ==
    ASSUME NEW e \in rows, NEW f, SameRow(e, f), f.conn # NoConn, Held(e),
           e.conn \in Conns', thread'[e.conn].at \in {"added", "serving", "left"},
           thread'[e.conn].reg = thread[e.conn].reg
    PROVE  Held(f)'
BY DEF Held, SameRow, NoConn

-----------------------------------------------------------------------------
(* Every step keeps the invariant. *)

\* A handler's action on its own record that leaves the rows.
LEMMA ThreadOnly ==
    ASSUME Inv, NEW c \in Conns, NEW x, ThreadTyped(x), thread' = [thread EXCEPT ![c] = x],
           \A e \in rows : e.conn # c \/ (x.at \in {"added", "serving", "left"} /\ x.reg = thread[c].reg),
           \A d \in regFds' : (d \in regFds /\ d # c) \/ (d = c /\ x.at \in {"added", "serving"}),
           UNCHANGED <<up, rows, file, proc>>
    PROVE  Inv'
<1>1. ThreadsTyped' /\ Conns' = Conns /\ thread'[c] = x /\ \A d \in Conns \ {c} : thread'[d] = thread[d]
  BY ThreadStep DEF Inv
<1>2. FdsRegistered'
  BY <1>1 DEF Inv, FdsRegistered
<1>3. \A e \in rows : e.conn # NoConn => Held(e)'
  BY <1>1 DEF Inv, RowsGood, Held, Addr
<1>4. RowsGood'
  BY <1>3 DEF Inv, RowsGood, OneRow, Addr
<1> QED
  BY <1>1, <1>2, <1>4 DEF Inv, ProcsTyped, FileGood, OneRow, Addr

\* Handlers and the table stay; the rows change but not their holders.
LEMMA RowsOnly ==
    ASSUME Inv, rows' \subseteq Rows, OneRow(rows'), \A f \in rows' : \E e \in rows : SameRow(e, f),
           UNCHANGED <<up, file, thread, regFds, proc>>
    PROVE  Inv'
<1>1. \A f \in rows' : f.conn # NoConn => Held(f)'
  <2> SUFFICES ASSUME NEW f \in rows', f.conn # NoConn PROVE Held(f)'
    OBVIOUS
  <2>1. PICK e \in rows : SameRow(e, f)
    OBVIOUS
  <2>2. Held(e)
    BY <2>1 DEF Inv, RowsGood, SameRow
  <2> QED
    BY <2>1, <2>2, HeldStays DEF Held, Conns
<1>2. rows = {} => rows' = {}
  OBVIOUS
<1>3. RowsGood'
  BY <1>1, <1>2 DEF Inv, RowsGood, OneRow, Addr
<1>4. ThreadsTyped' /\ Conns' = Conns
  BY SameThreads DEF Inv
<1>5. FdsRegistered' /\ ProcsTyped' /\ FileGood'
  BY <1>4 DEF Inv, FdsRegistered, ProcsTyped, FileGood, OneRow, Addr
<1> QED
  BY <1>3, <1>4, <1>5 DEF Inv

\* The process table alone.
LEMMA ProcOnly ==
    ASSUME Inv, ProcsTyped', UNCHANGED <<up, rows, file, thread, regFds>>
    PROVE  Inv'
<1>1. ThreadsTyped' /\ Conns' = Conns
  BY SameThreads DEF Inv
<1>2. FdsRegistered' /\ RowsGood' /\ FileGood'
  BY <1>1 DEF Inv, FdsRegistered, RowsGood, Held, FileGood, OneRow, Addr
<1> QED
  BY <1>1, <1>2 DEF Inv

\* Registry::add says yes.
LEMMA AddedStep ==
    ASSUME Inv, up, NEW c \in Conns, NEW s \in Servers, NEW x \in ThreadOf(s), x.at = "added",
           thread' = [thread EXCEPT ![c] = x], rows' = Added(x.reg, c),
           UNCHANGED <<up, file, regFds, proc>>
    PROVE  Inv'
<1>1. ThreadsTyped' /\ Conns' = Conns /\ thread'[c] = x /\ \A d \in Conns \ {c} : thread'[d] = thread[d]
  BY ThreadStep DEF Inv, ThreadTyped
<1>2. c \in Nat \ {NoConn}
  BY ConnsAreNumbers DEF Inv
<1>3. x.reg \in RegOf(s)
  BY DEF ThreadOf
<1>4. Row(x.reg, c) \in Rows /\ Row(x.reg, c).conn = c /\ Addr(Row(x.reg, c)) = Addr(x.reg)
  BY <1>2, <1>3, RegOfServer
<1>5. /\ Added(x.reg, c) \subseteq Rows /\ OneRow(Added(x.reg, c))
      /\ \A e \in Added(x.reg, c) : e = Row(x.reg, c) \/ (e \in rows /\ e.conn # c)
  BY <1>2, <1>4, AddedGood DEF Inv, RowsGood
<1>6. \A e \in rows' : e.conn # NoConn => Held(e)'
  <2> SUFFICES ASSUME NEW e \in rows', e.conn # NoConn PROVE Held(e)'
    OBVIOUS
  <2>1. CASE e = Row(x.reg, c)
    BY <1>1, <1>4, <2>1 DEF Held, Addr
  <2>2. CASE e \in rows /\ e.conn # c
    BY <1>1, <2>2 DEF Inv, RowsGood, Held, Addr
  <2> QED
    BY <1>5, <2>1, <2>2
<1>7. RowsGood'
  BY <1>5, <1>6 DEF RowsGood, OneRow, Addr
<1>8. FdsRegistered' /\ ProcsTyped' /\ FileGood'
  BY <1>1 DEF Inv, FdsRegistered, ProcsTyped, FileGood, OneRow, Addr
<1> QED
  BY <1>1, <1>7, <1>8 DEF Inv

LEMMA DisplacedAreConns ==
    ASSUME Inv, NEW reg, NEW c
    PROVE  Displaced(reg, c) \subseteq Nat
BY DEF Displaced, SameAs, Inv, RowsGood, Rows

LEMMA RegisterStep ==
    ASSUME Inv, NEW c \in Conns, Register(c)
    PROVE  Inv'
<1>1. PICK s \in Servers : thread[c] \in ThreadOf(s)
  BY HandlerOf DEF Inv, Register
<1>2. \A e \in rows : e.conn # c
  BY ConnsAreNumbers DEF Inv, RowsGood, Held, Register
<1>3. c \notin regFds
  BY DEF Inv, FdsRegistered, Register
<1>4. CASE Refuses(thread[c].reg, c)
  <2>1. thread' = [thread EXCEPT ![c] = Ended] /\ ThreadTyped(Ended)
    BY <1>4 DEF Register, ThreadTyped
  <2> QED
    BY <1>2, <1>3, <1>4, <2>1, ThreadOnly DEF Register
<1>5. CASE ~Refuses(thread[c].reg, c)
  <2> DEFINE x == [thread[c] EXCEPT !.at = "added", !.displaced = Displaced(thread[c].reg, c)]
  <2>1. x \in ThreadOf(s) /\ x.at = "added" /\ x.reg = thread[c].reg
    BY <1>1, DisplacedAreConns DEF ThreadOf
  <2>2. thread' = [thread EXCEPT ![c] = x]
    BY <1>5 DEF Register
  <2>3. up /\ rows' = Added(x.reg, c) /\ UNCHANGED <<up, file, regFds, proc>>
    BY <1>5, <2>1 DEF Register
  <2> HIDE DEF x
  <2> QED
    BY <2>1, <2>2, <2>3, AddedStep
<1> QED
  BY <1>4, <1>5

\* Rows are heard of, or are not any more, or are let go of, or go.
LEMMA RowsMapped ==
    ASSUME Inv, NEW rs \in SUBSET rows, NEW new \in [rs -> Rows], \A e \in rs : SameRow(e, new[e]),
           rows' = {new[e] : e \in rs}
    PROVE  rows' \subseteq Rows /\ OneRow(rows') /\ \A f \in rows' : \E e \in rows : SameRow(e, f)
<1>1. rs \subseteq Rows /\ OneRow(rs)
  BY DEF Inv, RowsGood, OneRow
<1> QED
  BY <1>1, MappedGood

LEMMA RowsTouched ==
    ASSUME Inv, NEW c, rows' = touch(c, rows), UNCHANGED <<up, file, thread, regFds, proc>>
    PROVE  Inv'
<1> DEFINE new == [e \in rows |-> IF e.conn = c THEN [e EXCEPT !.heard = TRUE] ELSE e]
<1>1. new \in [rows -> Rows] /\ \A e \in rows : SameRow(e, new[e])
  BY Reheard DEF Inv, RowsGood, SameRow
<1>2. rows' = {new[e] : e \in rows}
  BY DEF touch
<1> HIDE DEF new
<1> QED
  BY <1>1, <1>2, RowsMapped, RowsOnly

LEMMA ReregisterStep ==
    ASSUME Inv, NEW c \in Conns, NEW claim \in Moved, Reregister(c, claim)
    PROVE  Inv'
<1> DEFINE s == thread[c].of
           reg == Reg(s, claim)
<1>1. s \in Servers /\ thread[c] \in ThreadOf(s)
  BY HandlerOf DEF Inv, Reregister, Hears
<1>2. reg \in RegOf(s)
  <2>1. proc[s].link # NoConn
    BY ConnsAreNumbers DEF Inv, Reregister, Hears
  <2> QED
    BY <1>1, <2>1, RegGood DEF Inv, ProcsTyped, Ips
<1>3. CASE Refuses(reg, c)
  BY <1>3, RowsTouched DEF Reregister
<1>4. CASE ~Refuses(reg, c)
  <2> DEFINE x == [thread[c] EXCEPT !.at = "added", !.reg = reg, !.displaced = Displaced(reg, c)]
  <2>1. x \in ThreadOf(s) /\ x.at = "added" /\ x.reg = reg
    BY <1>1, <1>2, DisplacedAreConns DEF ThreadOf
  <2>2. thread' = [thread EXCEPT ![c] = x]
    BY <1>4 DEF Reregister
  <2>3. up /\ rows' = Added(x.reg, c) /\ UNCHANGED <<up, file, regFds, proc>>
    BY <1>4, <2>1 DEF Reregister, Hears
  <2> HIDE DEF x
  <2> QED
    BY <1>1, <2>1, <2>2, <2>3, AddedStep
<1> QED
  BY <1>3, <1>4

\* Shutting sockets down leaves the handlers what they are.
LEMMA EnlistStep ==
    ASSUME Inv, NEW c \in Conns, Enlist(c)
    PROVE  Inv'
<1> DEFINE mid == [thread EXCEPT ![c].at = "serving", ![c].displaced = {}]
           cut == thread[c].displaced \cap regFds
<1>1. PICK n \in 0..MaxConns : thread = [d \in 1..n |-> thread[d]]
  BY DEF Inv, ThreadsTyped
<1>2. Conns = 1..n
  BY <1>1 DEF Conns
<1>3. thread' = [d \in 1..n |-> IF d \in cut THEN [mid[d] EXCEPT !.shut = TRUE] ELSE mid[d]]
  BY <1>2 DEF Enlist, dropDisplaced
<1>4. Conns' = 1..n /\ thread' = [d \in 1..n |-> thread'[d]]
  BY <1>3 DEF Conns
<1>31. \A d \in 1..n :
         mid[d] = IF d = c THEN [thread[c] EXCEPT !.at = "serving", !.displaced = {}] ELSE thread[d]
  BY <1>1, <1>2
<1>32. cut \subseteq regFds
  OBVIOUS
<1> HIDE DEF mid, cut
<1>5. \A d \in 1..n :
         /\ ThreadTyped(thread'[d])
         /\ thread'[d].at = IF d = c THEN "serving" ELSE thread[d].at
         /\ thread[d].at # "ended" => thread'[d].reg = thread[d].reg
  <2> SUFFICES ASSUME NEW d \in 1..n
               PROVE  /\ ThreadTyped(thread'[d])
                      /\ thread'[d].at = IF d = c THEN "serving" ELSE thread[d].at
                      /\ thread[d].at # "ended" => thread'[d].reg = thread[d].reg
    OBVIOUS
  <2>1. mid[d] = IF d = c THEN [thread[c] EXCEPT !.at = "serving", !.displaced = {}] ELSE thread[d]
    BY <1>31
  <2>2. CASE d # c /\ d \notin cut
    <3>1. thread'[d] = thread[d] /\ ThreadTyped(thread[d])
      BY <1>2, <1>3, <2>1, <2>2 DEF Inv, ThreadsTyped
    <3> QED
      BY <2>2, <3>1
  <2>3. CASE d = c \/ d \in cut
    <3>1. thread[d].at # "ended"
      BY <1>32, <2>3 DEF Enlist, Inv, FdsRegistered
    <3>2. PICK s \in Servers : thread[d] \in ThreadOf(s)
      BY <1>2, <3>1, HandlerOf DEF Inv
    <3>3. mid[d] \in ThreadOf(s) /\ mid[d].at = (IF d = c THEN "serving" ELSE thread[d].at)
          /\ mid[d].reg = thread[d].reg
      <4>1. CASE d = c
        <5> DEFINE x == [thread[c] EXCEPT !.at = "serving", !.displaced = {}]
        <5>1. thread[c] \in ThreadOf(s)
          BY <3>2, <4>1
        <5>2. x \in ThreadOf(s) /\ x.at = "serving" /\ x.reg = thread[c].reg
          BY <5>1 DEF ThreadOf
        <5>3. mid[d] = x
          BY <2>1, <4>1
        <5> HIDE DEF x
        <5> QED
          BY <4>1, <5>2, <5>3
      <4>2. CASE d # c
        BY <2>1, <3>2, <4>2
      <4> QED
        BY <4>1, <4>2
    <3>4. [mid[d] EXCEPT !.shut = TRUE] \in ThreadOf(s) /\ [mid[d] EXCEPT !.shut = TRUE].at = mid[d].at
          /\ [mid[d] EXCEPT !.shut = TRUE].reg = mid[d].reg
      BY <3>3 DEF ThreadOf
    <3> QED
      BY <1>3, <3>3, <3>4 DEF ThreadTyped
  <2> QED
    BY <2>2, <2>3
<1>6. ThreadsTyped'
  BY <1>4, <1>5 DEF ThreadsTyped, ThreadTyped, ThreadOf, RegOf, Allowed, Ended
<1>7. FdsRegistered'
  BY <1>2, <1>4, <1>5 DEF Inv, FdsRegistered, Enlist
<1>8. \A e \in rows : e.conn # NoConn => Held(e)'
  BY <1>2, <1>4, <1>5 DEF Inv, RowsGood, Held, Addr
<1>9. RowsGood' /\ ProcsTyped' /\ FileGood' /\ up' \in BOOLEAN
  BY <1>8 DEF Inv, RowsGood, ProcsTyped, FileGood, OneRow, Addr, Enlist
<1> QED
  BY <1>6, <1>7, <1>9 DEF Inv

LEMMA LeaveStep ==
    ASSUME Inv, NEW c \in Conns, Leave(c)
    PROVE  Inv'
<1> DEFINE x == [thread[c] EXCEPT !.at = "left"]
<1>1. ThreadTyped(x) /\ x.at = "left" /\ x.reg = thread[c].reg
  <2>1. PICK s \in Servers : thread[c] \in ThreadOf(s)
    BY HandlerOf DEF Inv, Leave
  <2> QED
    BY <2>1 DEF ThreadTyped, ThreadOf
<1>2. thread' = [thread EXCEPT ![c] = x]
  BY DEF Leave
<1>3. UNCHANGED <<up, rows, file, proc>> /\ \A d \in regFds' : d \in regFds /\ d # c
  BY DEF Leave
<1> HIDE DEF x
<1> QED
  BY <1>1, <1>2, <1>3, ThreadOnly

LEMMA OrphanStep ==
    ASSUME Inv, NEW c \in Conns, Orphan(c)
    PROVE  Inv'
<1> DEFINE new == [e \in rows |-> IF e.conn = c THEN [e EXCEPT !.conn = NoConn] ELSE e]
<1>1. new \in [rows -> Rows] /\ \A e \in rows : SameRow(e, new[e])
  BY LetGo DEF Inv, RowsGood, SameRow
<1>2. rows' = {new[e] : e \in rows}
  BY DEF Orphan
<1>3. c # NoConn
  BY ConnsAreNumbers DEF Inv
<1>4. \A e \in rows : new[e].conn # c
  BY <1>3, LetGo DEF Inv, RowsGood
<1> HIDE DEF new
<1>5. rows' \subseteq Rows /\ OneRow(rows') /\ \A f \in rows' : \E e \in rows : SameRow(e, f)
  BY <1>1, <1>2, RowsMapped
<1>6. ThreadsTyped' /\ Conns' = Conns /\ thread'[c] = Ended /\ \A d \in Conns \ {c} : thread'[d] = thread[d]
  BY ThreadStep DEF Inv, Orphan, ThreadTyped
<1>7. \A f \in rows' : f.conn # NoConn => Held(f)'
  <2> SUFFICES ASSUME NEW f \in rows', f.conn # NoConn PROVE Held(f)'
    OBVIOUS
  <2>1. PICK e \in rows : SameRow(e, f)
    BY <1>5
  <2>2. Held(e) /\ f.conn # c /\ e.conn = f.conn
    BY <1>2, <1>4, <2>1 DEF Inv, RowsGood, SameRow
  <2>3. thread'[e.conn] = thread[e.conn] /\ e.conn \in Conns
    BY <1>6, <2>2 DEF Held
  <2> QED
    BY <1>6, <2>1, <2>2, <2>3, HeldStays DEF Held
<1>8. RowsGood' /\ ProcsTyped' /\ FileGood' /\ up' \in BOOLEAN
  BY <1>5, <1>7 DEF Inv, RowsGood, ProcsTyped, FileGood, OneRow, Addr, Orphan
<1>9. FdsRegistered'
  BY <1>6 DEF Inv, FdsRegistered, Orphan
<1> QED
  BY <1>6, <1>8, <1>9 DEF Inv

LEMMA AgeStep ==
    ASSUME Inv, NEW a, Age(a)
    PROVE  Inv'
<1> DEFINE new == [e \in rows |-> IF Addr(e) = a THEN [e EXCEPT !.heard = FALSE] ELSE e]
<1>1. new \in [rows -> Rows] /\ \A e \in rows : SameRow(e, new[e])
  BY Reheard DEF Inv, RowsGood, SameRow
<1>2. rows' = {new[e] : e \in rows}
  BY DEF Age
<1>3. UNCHANGED <<up, file, thread, regFds, proc>>
  BY DEF Age
<1> HIDE DEF new
<1> QED
  BY <1>1, <1>2, <1>3, RowsMapped, RowsOnly

LEMMA SweepApplyStep ==
    ASSUME Inv, SweepApply
    PROVE  Inv'
<1> DEFINE rs == {e \in rows : Addr(e) \notin sweep.drop}
           new == [e \in rs |-> IF Addr(e) \in sweep.keep THEN [e EXCEPT !.heard = TRUE] ELSE e]
<1>1. new \in [rs -> Rows] /\ \A e \in rs : SameRow(e, new[e])
  BY Reheard DEF Inv, RowsGood, SameRow
<1>2. rows' = {new[e] : e \in rs}
  BY DEF SweepApply
<1>3. UNCHANGED <<up, file, thread, regFds, proc>>
  BY DEF SweepApply
<1>4. rs \in SUBSET rows
  OBVIOUS
<1> HIDE DEF new, rs
<1> QED
  BY <1>1, <1>2, <1>3, <1>4, RowsMapped, RowsOnly

\* An action that leaves everything the invariant is about, but for the file.
LEMMA FileOnly ==
    ASSUME Inv, FileGood', UNCHANGED <<up, rows, thread, regFds, proc>>
    PROVE  Inv'
<1>1. ThreadsTyped' /\ Conns' = Conns
  BY SameThreads DEF Inv
<1>2. FdsRegistered' /\ RowsGood' /\ ProcsTyped'
  BY <1>1 DEF Inv, FdsRegistered, RowsGood, Held, ProcsTyped, OneRow, Addr
<1> QED
  BY <1>1, <1>2 DEF Inv

LEMMA PersistStep ==
    ASSUME Inv, persistRegistry
    PROVE  Inv'
<1>1. \A e \in rows : serialize_entry(e) \in Lines /\ Addr(serialize_entry(e)) = Addr(e)
  BY DEF Inv, RowsGood, Rows, Lines, serialize_entry, Addr
<1>2. file' = {serialize_entry(e) : e \in rows}
  BY DEF persistRegistry
<1>3. file' \subseteq Lines /\ OneRow(file')
  BY <1>1, <1>2 DEF Inv, RowsGood, OneRow
<1> QED
  BY <1>3, FileOnly DEF persistRegistry, FileGood, OneRow, Addr

LEMMA CrashStep ==
    ASSUME Inv, Crash
    PROVE  Inv'
<1>1. PICK n \in 0..MaxConns : thread = [d \in 1..n |-> thread[d]]
  BY DEF Inv, ThreadsTyped
<1>2. Conns = 1..n
  BY <1>1 DEF Conns
<1>3. thread' = [d \in 1..n |-> Ended]
  BY <1>2 DEF Crash
<1>4. ThreadsTyped'
  BY <1>3 DEF ThreadsTyped, Conns, ThreadTyped, Ended
<1>5. FdsRegistered' /\ RowsGood' /\ ProcsTyped' /\ FileGood' /\ up' \in BOOLEAN
  BY DEF Inv, FdsRegistered, RowsGood, ProcsTyped, FileGood, OneRow, Addr, Crash
<1> QED
  BY <1>4, <1>5 DEF Inv

\* The row a line of the file becomes.
Reloaded(l) == [ip |-> l.ip, port |-> l.port, name |-> l.name, peer |-> "", conn |-> NoConn, heard |-> FALSE]

LEMMA ReloadedRows ==
    ASSUME Restart
    PROVE  rows' = {Reloaded(l) : l \in file}
<1>1. rows' = {[ip |-> r.ip, port |-> r.port, name |-> r.name, peer |-> r.peer, conn |-> NoConn, heard |-> FALSE] :
                  r \in {parse_persisted_line(l) : l \in file}}
  BY DEF Restart, load_stale
<1>2. \A l : LET r == parse_persisted_line(l) IN
         [ip |-> r.ip, port |-> r.port, name |-> r.name, peer |-> r.peer, conn |-> NoConn, heard |-> FALSE]
         = Reloaded(l)
  BY DEF parse_persisted_line, Reloaded
<1> QED
  BY <1>1, <1>2

LEMMA ReloadedGood ==
    ASSUME NEW l \in Lines
    PROVE  Reloaded(l) \in Rows /\ Addr(Reloaded(l)) = Addr(l) /\ Reloaded(l).conn = NoConn
           /\ Reloaded(l).peer = ""
BY DEF Reloaded, Rows, Lines, Addr, NoConn

LEMMA RestartStep ==
    ASSUME Inv, Restart
    PROVE  Inv'
<1>1. rows' = {Reloaded(l) : l \in file}
  BY ReloadedRows
<1>2. rows' \subseteq Rows /\ OneRow(rows') /\ \A e \in rows' : e.conn = NoConn
  <2>1. file \subseteq Lines /\ OneRow(file)
    BY DEF Inv, FileGood
  <2>2. \A l \in file : Reloaded(l) \in Rows /\ Addr(Reloaded(l)) = Addr(l) /\ Reloaded(l).conn = NoConn
    BY <2>1, ReloadedGood
  <2>3. rows' \subseteq Rows /\ \A e \in rows' : e.conn = NoConn
    BY <1>1, <2>2
  <2>4. OneRow(rows')
    <3> SUFFICES ASSUME NEW e \in rows', NEW f \in rows', Addr(e) = Addr(f) PROVE e = f
      BY DEF OneRow
    <3>1. PICK l \in file, m \in file : e = Reloaded(l) /\ f = Reloaded(m)
      BY <1>1
    <3>2. Addr(l) = Addr(m)
      BY <2>2, <3>1
    <3> QED
      BY <2>1, <3>1, <3>2 DEF OneRow
  <2> QED
    BY <2>3, <2>4
<1>3. ThreadsTyped' /\ Conns' = Conns
  BY SameThreads DEF Inv, Restart
<1>4. FdsRegistered' /\ RowsGood' /\ ProcsTyped' /\ FileGood' /\ up' \in BOOLEAN
  BY <1>2, <1>3 DEF Inv, FdsRegistered, RowsGood, ProcsTyped, FileGood, OneRow, Addr, Restart
<1> QED
  BY <1>3, <1>4 DEF Inv

LEMMA StartStep ==
    ASSUME Inv, NEW s \in Servers, Start(s)
    PROVE  Inv'
<1>1. Port[s] \in Ports /\ proc[s].starts + 1 \in Nat
  BY DEF Start, Ports, Inv, ProcsTyped
<1>2. ProcsTyped'
  BY <1>1 DEF Start, Inv, ProcsTyped, NoConn
<1> QED
  BY <1>2, ProcOnly DEF Start

LEMMA HostSpawnStep ==
    ASSUME Inv, NEW s \in Servers, HostSpawn(s)
    PROVE  Inv'
<1>1. PICK p \in LowestFree(s) :
         proc' = [proc EXCEPT ![s] = [at |-> "fork", port |-> p, link |-> NoConn, starts |-> proc[s].starts + 1]]
  BY DEF HostSpawn
<1>2. p \in Ports /\ proc[s].starts + 1 \in Nat
  BY DEF LowestFree, FreePorts, Ports, Inv, ProcsTyped
<1>3. ProcsTyped'
  BY <1>1, <1>2 DEF Inv, ProcsTyped, NoConn
<1> QED
  BY <1>3, ProcOnly DEF HostSpawn

LEMMA BindStopHangupStep ==
    ASSUME Inv, NEW s \in Servers, Bind(s) \/ Stop(s) \/ Hangup(s)
    PROVE  Inv'
<1>1. proc[s] \in [at : {"down", "fork", "up"}, port : Nat \cup Ports, link : Nat, starts : Nat]
  BY DEF Inv, ProcsTyped
<1>2. CASE Bind(s)
  BY <1>1, <1>2, ProcOnly DEF Bind, Inv, ProcsTyped, NoConn
<1>3. CASE Stop(s)
  BY <1>1, <1>3, ProcOnly DEF Stop, Inv, ProcsTyped, NoConn
<1>4. CASE Hangup(s)
  BY <1>1, <1>4, ProcOnly DEF Hangup, Inv, ProcsTyped, NoConn
<1> QED
  BY <1>2, <1>3, <1>4

LEMMA DialStep ==
    ASSUME Inv, NEW s \in Servers, Dial(s)
    PROVE  Inv'
<1>1. PICK n \in 0..MaxConns : thread = [d \in 1..n |-> thread[d]]
  BY DEF Inv, ThreadsTyped
<1>2. Conns = 1..n /\ n \in Nat /\ MaxConns \in Nat
  <2>1. MaxConns \in Nat
    BY MatchmakerAssumption
  <2> QED
    BY <1>1, <2>1 DEF Conns
<1>3. Cardinality(Conns) = n
  <2>1. Cardinality(1..n) = IF 1 > n THEN 0 ELSE n - 1 + 1
    BY <1>2, FS_Interval
  <2> QED
    BY <1>2, <2>1
<1> DEFINE x == [of |-> s, reg |-> Reg(s, Claimed[s]), at |-> "open", displaced |-> {}, shut |-> FALSE]
<1>4. thread' = [d \in 1..(n + 1) |-> IF d = n + 1 THEN x ELSE thread[d]] /\ n + 1 \in 0..MaxConns
  BY <1>2, <1>3 DEF Dial
<1>5. ThreadTyped(x)
  <2>1. Reg(s, Claimed[s]) \in RegOf(s)
    BY RegGood DEF Inv, Dial, Live, Ips
  <2> QED
    BY <2>1 DEF ThreadTyped, ThreadOf
<1> HIDE DEF x
<1>6. Conns' = 1..(n + 1) /\ \A d \in 1..n : d \in Conns' /\ thread'[d] = thread[d]
  BY <1>2, <1>4 DEF Conns
<1>7. \A d \in 1..(n + 1) : ThreadTyped(thread'[d])
  <2> SUFFICES ASSUME NEW d \in 1..(n + 1) PROVE ThreadTyped(thread'[d])
    OBVIOUS
  <2>1. CASE d = n + 1
    <3>1. thread'[d] = x
      BY <1>2, <1>4, <2>1
    <3> QED
      BY <1>5, <3>1
  <2>2. CASE d # n + 1
    <3>1. d \in 1..n
      BY <1>2, <2>2
    <3>2. ThreadTyped(thread[d])
      BY <1>2, <3>1 DEF Inv, ThreadsTyped
    <3> QED
      BY <1>6, <3>1, <3>2
  <2> QED
    BY <2>1, <2>2
<1>8. ThreadsTyped'
  <2>1. thread' = [d \in 1..(n + 1) |-> thread'[d]]
    BY <1>4
  <2> QED
    BY <1>4, <1>6, <1>7, <2>1 DEF ThreadsTyped, ThreadTyped, ThreadOf, RegOf, Allowed, Ended
<1>9. \A e \in rows : e.conn # NoConn => Held(e)'
  BY <1>2, <1>6 DEF Inv, RowsGood, Held, Addr
<1>10. ProcsTyped'
  <2>1. proc' = [proc EXCEPT ![s].link = n + 1]
    BY <1>3 DEF Dial
  <2>3. proc[s].at = "up" /\ n + 1 \in Nat
    BY <1>2 DEF Dial, Live
  <2>2. proc[s] \in [at : {"down", "fork", "up"}, port : Nat \cup Ports, link : Nat, starts : Nat]
    BY DEF Inv, ProcsTyped
  <2> QED
    BY <2>1, <2>2, <2>3 DEF Inv, ProcsTyped, NoConn
<1>11. FdsRegistered' /\ RowsGood' /\ FileGood' /\ up' \in BOOLEAN
  BY <1>2, <1>6, <1>9 DEF Inv, FdsRegistered, RowsGood, FileGood, OneRow, Addr, Dial
<1> QED
  BY <1>8, <1>10, <1>11 DEF Inv

-----------------------------------------------------------------------------
(* The theorems. *)

LEMMA InitInv == Init => Inv
<1> SUFFICES ASSUME Init PROVE Inv
  OBVIOUS
<1>1. ThreadsTyped
  <2>0. MaxConns \in Nat
    BY MatchmakerAssumption
  <2>1. 0 \in 0..MaxConns /\ 1..0 = {}
    BY <2>0
  <2>2. Conns = {}
    BY DEF Init, Conns
  <2>3. thread = [c \in 1..0 |-> thread[c]]
    BY <2>1 DEF Init
  <2> QED
    BY <2>1, <2>2, <2>3 DEF ThreadsTyped
<1>2. ProcsTyped
  BY DEF Init, ProcsTyped, NoConn
<1>3. FdsRegistered /\ RowsGood /\ FileGood /\ up \in BOOLEAN
  BY DEF Init, FdsRegistered, RowsGood, FileGood, OneRow
<1> QED
  BY <1>1, <1>2, <1>3 DEF Inv

LEMMA NextInv == Inv /\ [Next]_vars => Inv'
<1> SUFFICES ASSUME Inv, [Next]_vars PROVE Inv'
  OBVIOUS
<1>1. ASSUME NEW c \in Conns, Register(c) PROVE Inv'
  BY <1>1, RegisterStep
<1>2. ASSUME NEW c \in Conns, Enlist(c) PROVE Inv'
  BY <1>2, EnlistStep
<1>3. ASSUME NEW c \in Conns, Heard(c) PROVE Inv'
  BY <1>3, RowsTouched DEF Heard
<1>4. ASSUME NEW c \in Conns, Leave(c) PROVE Inv'
  BY <1>4, LeaveStep
<1>5. ASSUME NEW c \in Conns, Orphan(c) PROVE Inv'
  BY <1>5, OrphanStep
<1>6. ASSUME NEW c \in Conns, NEW claim \in Moved, Reregister(c, claim) PROVE Inv'
  BY <1>6, ReregisterStep
<1>7. ASSUME NEW a \in Ips \X Ports, Age(a) PROVE Inv'
  BY <1>7, AgeStep
<1>8. ASSUME NEW a \in Ips \X Ports, Probe(a) PROVE Inv'
  BY <1>8, FileOnly DEF Probe, Inv, FileGood, OneRow, Addr
<1>9. CASE SweepLook
  BY <1>9, FileOnly DEF SweepLook, Inv, FileGood, OneRow, Addr
<1>10. CASE SweepApply
  BY <1>10, SweepApplyStep
<1>11. CASE persistRegistry
  BY <1>11, PersistStep
<1>12. CASE Crash
  BY <1>12, CrashStep
<1>13. CASE Restart
  BY <1>13, RestartStep
<1>14. ASSUME NEW s \in Servers, Start(s) PROVE Inv'
  BY <1>14, StartStep
<1>15. ASSUME NEW s \in Servers, HostSpawn(s) PROVE Inv'
  BY <1>15, HostSpawnStep
<1>16. ASSUME NEW s \in Servers, Bind(s) \/ Stop(s) \/ Hangup(s) PROVE Inv'
  BY <1>16, BindStopHangupStep
<1>17. ASSUME NEW s \in Servers, Dial(s) PROVE Inv'
  BY <1>17, DialStep
<1>18. CASE UNCHANGED vars
  BY <1>18, FileOnly DEF vars, Inv, FileGood, OneRow, Addr
<1> QED
  BY <1>1, <1>2, <1>3, <1>4, <1>5, <1>6, <1>7, <1>8, <1>9, <1>10, <1>11, <1>12, <1>13, <1>14,
     <1>15, <1>16, <1>17, <1>18 DEF Next

LEMMA Invariance == Spec => []Inv
BY InitInv, NextInv, PTL DEF Spec

\* A row that is held is held by a handler that registered its address and will still let go
\* of it (edenmatch.cpp handleConn, Registry::add and orphan).
THEOREM RowsAreHeld == Spec => []RowsHeldByLive
<1>1. Inv => RowsHeldByLive
  BY DEF Inv, RowsGood, Held, RowsHeldByLive
<1> QED
  BY <1>1, Invariance, PTL

-----------------------------------------------------------------------------
(* The rows as a list. *)

Of(e) == [conn |-> e.conn, peer |-> e.peer]
At(rs, a) == CHOOSE e \in rs : Addr(e) = a
List(rs) == [a \in {Addr(e) : e \in rs} |-> Of(At(rs, a))]

LEMMA Lookup ==
    ASSUME NEW rs, OneRow(rs)
    PROVE  /\ DOMAIN List(rs) = {Addr(e) : e \in rs}
           /\ \A e \in rs : At(rs, Addr(e)) = e /\ List(rs)[Addr(e)] = Of(e)
           /\ \A a \in DOMAIN List(rs) : \E e \in rs : Addr(e) = a /\ List(rs)[a] = Of(e)
<1>1. \A e \in rs : At(rs, Addr(e)) = e
  BY DEF At, OneRow
<1> QED
  BY <1>1 DEF List

\* A list is known by its rows.
LEMMA ListIs ==
    ASSUME NEW rs, OneRow(rs), NEW list, list = [a \in DOMAIN list |-> list[a]],
           DOMAIN list = {Addr(e) : e \in rs}, \A e \in rs : list[Addr(e)] = Of(e)
    PROVE  List(rs) = list
<1>1. \A a \in DOMAIN list : List(rs)[a] = list[a]
  <2> SUFFICES ASSUME NEW a \in DOMAIN list PROVE List(rs)[a] = list[a]
    OBVIOUS
  <2>1. PICK e \in rs : Addr(e) = a
    OBVIOUS
  <2> QED
    BY <2>1, Lookup
<1>2. List(rs) = [a \in DOMAIN list |-> List(rs)[a]]
  BY DEF List
<1> QED
  BY <1>1, <1>2

LEMMA ListAdded ==
    ASSUME rows \subseteq Rows, OneRow(rows), NEW c \in Nat, NEW reg, Row(reg, c) \in Rows,
           Addr(Row(reg, c)) = Addr(reg), Of(Row(reg, c)) = [conn |-> c, peer |-> reg.peer]
    PROVE  List(Added(reg, c)) =
              [b \in {Addr(reg)} \cup {b \in DOMAIN List(rows) : List(rows)[b].conn # c} |->
                  IF b = Addr(reg) THEN [conn |-> c, peer |-> reg.peer] ELSE List(rows)[b]]
<1> DEFINE new == [b \in {Addr(reg)} \cup {b \in DOMAIN List(rows) : List(rows)[b].conn # c} |->
                      IF b = Addr(reg) THEN [conn |-> c, peer |-> reg.peer] ELSE List(rows)[b]]
<1>1. OneRow(Added(reg, c))
  BY AddedGood
<1>2. \A e : e \in Added(reg, c) <=> e = Row(reg, c) \/ (e \in rows /\ e.conn # c /\ Addr(e) # Addr(reg))
  BY DEF Added, SameAs, OwnedBy
<1>3. /\ DOMAIN List(rows) = {Addr(e) : e \in rows}
      /\ \A e \in rows : List(rows)[Addr(e)] = Of(e) /\ Of(e).conn = e.conn
  BY Lookup DEF Of
<1>4. DOMAIN new = {Addr(e) : e \in Added(reg, c)}
  <2>1. ASSUME NEW b \in DOMAIN new PROVE \E e \in Added(reg, c) : Addr(e) = b
    BY <1>2, <1>3, <2>1
  <2>2. ASSUME NEW e \in Added(reg, c) PROVE Addr(e) \in DOMAIN new
    BY <1>2, <1>3, <2>2
  <2> QED
    BY <2>1, <2>2
<1>5. ASSUME NEW e \in Added(reg, c) PROVE new[Addr(e)] = Of(e)
  <2>1. Addr(e) \in DOMAIN new
    BY <1>4
  <2>2. new[Addr(e)] = IF Addr(e) = Addr(reg) THEN [conn |-> c, peer |-> reg.peer] ELSE List(rows)[Addr(e)]
    BY <2>1
  <2> QED
    BY <1>2, <1>3, <2>2
<1>6. new = [b \in DOMAIN new |-> new[b]]
  OBVIOUS
<1> HIDE DEF new
<1>7. List(Added(reg, c)) = new
  BY <1>1, <1>4, <1>5, <1>6, ListIs
<1> QED
  BY <1>7 DEF new

LEMMA ListMapped ==
    ASSUME rows \subseteq Rows, OneRow(rows), NEW rs \in SUBSET rows, NEW new \in [rs -> Rows],
           \A e \in rs : Addr(new[e]) = Addr(e)
    PROVE  List({new[e] : e \in rs}) = [a \in {Addr(e) : e \in rs} |-> Of(new[At(rows, a)])]
<1> DEFINE list == [a \in {Addr(e) : e \in rs} |-> Of(new[At(rows, a)])]
           ns == {new[e] : e \in rs}
<1>1. OneRow(ns) /\ {Addr(f) : f \in ns} = {Addr(e) : e \in rs}
  BY DEF OneRow
<1>2. \A e \in rs : At(rows, Addr(e)) = e
  BY Lookup
<1>3. \A e \in rs : list[Addr(e)] = Of(new[e])
  BY <1>2
<1>4. \A f \in ns : list[Addr(f)] = Of(f)
  BY <1>3
<1>5. list = [a \in DOMAIN list |-> list[a]] /\ DOMAIN list = {Addr(f) : f \in ns}
  BY <1>1
<1> HIDE DEF list, ns
<1>6. List(ns) = list
  BY <1>1, <1>4, <1>5, ListIs
<1> QED
  BY <1>6 DEF list, ns

-----------------------------------------------------------------------------
(* Every step of the registry is a step of the list, or none. *)

Saved(lines) == {Addr(l) : l \in lines}
AbsVars == <<List(rows), Saved(file)>>

LEMMA AbsIs ==
    /\ Promise!vars = AbsVars
    /\ (Promise!vars)' = AbsVars'
BY DEF Promise!vars, AbsVars, List, Saved, Of, At, Holder

LEMMA ClaimStep ==
    ASSUME Inv, NEW c \in Conns, NEW s \in Servers, NEW reg \in RegOf(s), ~Refuses(reg, c),
           rows' = Added(reg, c), UNCHANGED file
    PROVE  Promise!Next
<1> DEFINE a == Addr(reg)
           p == Host[s]
<1>1. c \in 1..MaxConns /\ c \in Nat \ {NoConn}
  BY ConnsAreNumbers DEF Inv
<1>2. Row(reg, c) \in Rows /\ Addr(Row(reg, c)) = a /\ Of(Row(reg, c)) = [conn |-> c, peer |-> p] /\ reg.peer = p
  BY <1>1, RegOfServer DEF Of, Row, RegOf
<1>3. rows \subseteq Rows /\ OneRow(rows)
  BY DEF Inv, RowsGood
<1> HIDE DEF a, p
<1>31. Of(Row(reg, c)) = [conn |-> c, peer |-> reg.peer] /\ Addr(Row(reg, c)) = Addr(reg) /\ a = Addr(reg)
  BY <1>2 DEF a
<1>32. List(Added(reg, c)) =
          [b \in {Addr(reg)} \cup {b \in DOMAIN List(rows) : List(rows)[b].conn # c} |->
              IF b = Addr(reg) THEN [conn |-> c, peer |-> reg.peer] ELSE List(rows)[b]]
  BY <1>1, <1>2, <1>3, <1>31, ListAdded
<1>4. List(rows') = [b \in {a} \cup {b \in DOMAIN List(rows) : List(rows)[b].conn # c} |->
                       IF b = a THEN [conn |-> c, peer |-> p] ELSE List(rows)[b]]
  BY <1>2, <1>31, <1>32
<1>5. a \in DOMAIN List(rows) => List(rows)[a].conn \in {NoConn, c} \/ List(rows)[a].peer = p
  <2> SUFFICES ASSUME a \in DOMAIN List(rows)
               PROVE  List(rows)[a].conn \in {NoConn, c} \/ List(rows)[a].peer = p
    OBVIOUS
  <2>1. PICK e \in rows : Addr(e) = a /\ List(rows)[a] = Of(e)
    BY <1>3, Lookup
  <2>2. e.conn \in {NoConn, c} \/ e.peer = reg.peer
    BY <1>31, <2>1 DEF Refuses, Taken, SameAs
  <2> QED
    BY <1>2, <2>1, <2>2 DEF Of
<1>6. a \in Addresses /\ p \in Peers /\ p \in {Home, a[1]}
  BY DEF a, p, Addr, RegOf, Addresses, Peers, Allowed
<1>7. <<p, a>> \in {e \in Peers \X Addresses : e[1] \in {Home, e[2][1]}}
  BY <1>6
<1>8. Promise!Claim(a, c, p)
  BY <1>4, <1>5, <1>7 DEF Promise!Claim, Promise!Unheld, NoConn, List, Of, At, Holder, Peers, Addresses
<1> QED
  BY <1>1, <1>6, <1>8 DEF Promise!Next, Addresses, Peers

\* Rows are heard of, or are not any more, and some go.
LEMMA ListKept ==
    ASSUME rows \subseteq Rows, OneRow(rows), NEW rs \in SUBSET rows, NEW new \in [rs -> Rows],
           \A e \in rs : SameRow(e, new[e]) /\ new[e].conn = e.conn
    PROVE  List({new[e] : e \in rs}) = [a \in {Addr(e) : e \in rs} |-> List(rows)[a]]
<1>1. \A e \in rs : Of(new[e]) = Of(e) /\ Addr(new[e]) = Addr(e)
  BY DEF Of, SameRow
<1>2. List({new[e] : e \in rs}) = [a \in {Addr(e) : e \in rs} |-> Of(new[At(rows, a)])]
  BY <1>1, ListMapped
<1>3. \A e \in rs : Of(new[At(rows, Addr(e))]) = List(rows)[Addr(e)]
  BY <1>1, Lookup
<1> QED
  BY <1>2, <1>3

LEMMA SameList ==
    ASSUME Inv, NEW new \in [rows -> Rows], rows' = {new[e] : e \in rows},
           \A e \in rows : SameRow(e, new[e]) /\ new[e].conn = e.conn, UNCHANGED file
    PROVE  UNCHANGED Promise!vars
<1>1. rows \subseteq Rows /\ OneRow(rows)
  BY DEF Inv, RowsGood
<1>2. List(rows') = [a \in {Addr(e) : e \in rows} |-> List(rows)[a]]
  BY <1>1, ListKept
<1>3. List(rows) = [a \in {Addr(e) : e \in rows} |-> List(rows)[a]]
  BY <1>1, Lookup DEF List
<1>4. List(rows') = List(rows)
  BY <1>2, <1>3
<1>5. Saved(file') = Saved(file)
  OBVIOUS
<1>6. AbsVars' = AbsVars
  BY <1>4, <1>5 DEF AbsVars, Saved, List, At, Of, Addr
<1> QED
  BY <1>6, AbsIs

LEMMA HeardOf ==
    ASSUME Inv, NEW c, rows' = touch(c, rows), UNCHANGED file
    PROVE  UNCHANGED Promise!vars
<1> DEFINE new == [e \in rows |-> IF e.conn = c THEN [e EXCEPT !.heard = TRUE] ELSE e]
<1>1. new \in [rows -> Rows] /\ \A e \in rows : SameRow(e, new[e]) /\ new[e].conn = e.conn
  BY Reheard DEF Inv, RowsGood, SameRow
<1>2. rows' = {new[e] : e \in rows}
  BY DEF touch
<1> HIDE DEF new
<1> QED
  BY <1>1, <1>2, SameList

LEMMA Aged ==
    ASSUME Inv, NEW a, Age(a)
    PROVE  UNCHANGED Promise!vars
<1> DEFINE new == [e \in rows |-> IF Addr(e) = a THEN [e EXCEPT !.heard = FALSE] ELSE e]
<1>1. new \in [rows -> Rows] /\ \A e \in rows : SameRow(e, new[e]) /\ new[e].conn = e.conn
  BY Reheard DEF Inv, RowsGood, SameRow
<1>2. rows' = {new[e] : e \in rows} /\ UNCHANGED file
  BY DEF Age
<1> HIDE DEF new
<1> QED
  BY <1>1, <1>2, SameList

LEMMA OrphanReleases ==
    ASSUME Inv, NEW c \in Conns, Orphan(c)
    PROVE  Promise!Next
<1> DEFINE new == [e \in rows |-> IF e.conn = c THEN [e EXCEPT !.conn = NoConn] ELSE e]
           freed(x) == IF x.conn = c THEN [x EXCEPT !.conn = NoConn] ELSE x
<1>1. rows \subseteq Rows /\ OneRow(rows) /\ c \in 1..MaxConns
  BY ConnsAreNumbers DEF Inv, RowsGood
<1>2. new \in [rows -> Rows] /\ \A e \in rows : Addr(new[e]) = Addr(e)
  BY <1>1, LetGo DEF SameRow
<1>3. \A e \in rows : Of(new[e]) = freed(Of(e))
  BY <1>1 DEF Of, Rows
<1>4. rows' = {new[e] : e \in rows} /\ UNCHANGED file
  BY DEF Orphan
<1> HIDE DEF new
<1>5. List(rows') = [a \in {Addr(e) : e \in rows} |-> Of(new[At(rows, a)])]
  BY <1>1, <1>2, <1>4, ListMapped
<1>6. DOMAIN List(rows) = {Addr(e) : e \in rows} /\ \A e \in rows : At(rows, Addr(e)) = e /\ List(rows)[Addr(e)] = Of(e)
  BY <1>1, Lookup
<1>7. \A e \in rows : Of(new[At(rows, Addr(e))]) = freed(List(rows)[Addr(e)])
  BY <1>3, <1>6
<1>8. List(rows') = [a \in DOMAIN List(rows) |-> freed(List(rows)[a])]
  BY <1>5, <1>6, <1>7
<1>9. Promise!Release(c)
  BY <1>4, <1>8 DEF Promise!Release, Promise!Unheld, NoConn, List, Of, At, Holder
<1> QED
  BY <1>1, <1>9 DEF Promise!Next

LEMMA SweepDrops ==
    ASSUME Inv, SweepApply
    PROVE  Promise!Next
<1> DEFINE rs == {e \in rows : Addr(e) \notin sweep.drop}
           new == [e \in rs |-> IF Addr(e) \in sweep.keep THEN [e EXCEPT !.heard = TRUE] ELSE e]
           gone == sweep.drop \cap Addresses
<1>1. rows \subseteq Rows /\ OneRow(rows) /\ rs \in SUBSET rows
  BY DEF Inv, RowsGood
<1>2. new \in [rs -> Rows] /\ \A e \in rs : SameRow(e, new[e]) /\ new[e].conn = e.conn
  BY <1>1, Reheard DEF SameRow
<1>3. rows' = {new[e] : e \in rs} /\ UNCHANGED file
  BY DEF SweepApply
<1>4. \A e \in rows : Addr(e) \in Addresses
  BY <1>1 DEF Rows, Addr, Addresses
<1>5. {Addr(e) : e \in rs} = {Addr(e) : e \in rows} \ gone
  BY <1>4
<1> HIDE DEF new
<1>6. List(rows') = [a \in {Addr(e) : e \in rs} |-> List(rows)[a]]
  BY <1>1, <1>2, <1>3, ListKept
<1>7. DOMAIN List(rows) = {Addr(e) : e \in rows}
  BY <1>1, Lookup
<1>8. List(rows') = [a \in DOMAIN List(rows) \ gone |-> List(rows)[a]]
  BY <1>5, <1>6, <1>7
<1>9. gone \in SUBSET Addresses
  OBVIOUS
<1> HIDE DEF gone
<1>10. Promise!Drop(gone)
  BY <1>3, <1>8 DEF Promise!Drop, List, Of, At, Holder
<1> QED
  BY <1>9, <1>10 DEF Promise!Next, Addresses

LEMMA PersistSaves ==
    ASSUME Inv, persistRegistry
    PROVE  Promise!Next
<1>1. \A e \in rows : Addr(serialize_entry(e)) = Addr(e)
  BY DEF serialize_entry, Addr
<1>2. {Addr(l) : l \in file'} = {Addr(e) : e \in rows}
  BY <1>1 DEF persistRegistry
<1>3. Promise!Save
  BY <1>2 DEF Promise!Save, persistRegistry, Holder
<1> QED
  BY <1>3 DEF Promise!Next

LEMMA EmptyList == List({}) = Promise!Empty
<1> DEFINE list == [a \in {} |-> [conn |-> NoConn, peer |-> ""]]
<1>1. list = Promise!Empty
  BY DEF Promise!Empty, Promise!Unheld, Promise!NoPeer, NoConn
<1>2. OneRow({}) /\ list = [a \in DOMAIN list |-> list[a]] /\ DOMAIN list = {Addr(e) : e \in {}}
      /\ \A e \in {} : list[Addr(e)] = Of(e)
  BY DEF OneRow
<1> HIDE DEF list
<1>3. List({}) = list
  BY <1>2, ListIs
<1> QED
  BY <1>1, <1>3

LEMMA CrashEmpties ==
    ASSUME Inv, Crash
    PROVE  Promise!Next
<1>1. List(rows') = Promise!Empty
  BY EmptyList DEF Crash
<1>2. Promise!Crash
  BY <1>1 DEF Promise!Crash, Crash, List, Of, At, Holder
<1> QED
  BY <1>2 DEF Promise!Next

LEMMA RestartReloads ==
    ASSUME Inv, Restart
    PROVE  Promise!Next
<1> DEFINE list == [a \in Saved(file) |-> [conn |-> NoConn, peer |-> ""]]
<1>1. rows = {} /\ UNCHANGED file /\ file \subseteq Lines
  BY DEF Inv, RowsGood, FileGood, Restart
<1>2. rows' = {Reloaded(l) : l \in file}
  BY ReloadedRows
<1>3. OneRow(rows')
  <2>1. Inv'
    BY RestartStep
  <2> QED
    BY <2>1 DEF Inv, RowsGood, OneRow, Addr
<1>4. \A l \in file : Addr(Reloaded(l)) = Addr(l) /\ Of(Reloaded(l)) = [conn |-> NoConn, peer |-> ""]
  BY <1>1, ReloadedGood DEF Of
<1>5. {Addr(e) : e \in rows'} = Saved(file)
  BY <1>2, <1>4 DEF Saved
<1>6. \A e \in rows' : list[Addr(e)] = Of(e)
  BY <1>2, <1>4, <1>5
<1>7. list = [a \in DOMAIN list |-> list[a]] /\ DOMAIN list = {Addr(e) : e \in rows'}
  BY <1>5
<1> HIDE DEF list
<1>8. List(rows') = list
  BY <1>3, <1>6, <1>7, ListIs
<1>9. List(rows) = Promise!Empty
  BY <1>1, EmptyList
<1>10. Promise!Reload
  BY <1>1, <1>8, <1>9 DEF list, Saved, Promise!Reload, Promise!Unheld, Promise!NoPeer, NoConn, List, Of, At, Holder
<1> QED
  BY <1>10 DEF Promise!Next

LEMMA Otherwise ==
    ASSUME UNCHANGED <<rows, file>>
    PROVE  UNCHANGED Promise!vars
<1>1. AbsVars' = AbsVars
  BY DEF AbsVars, List, Saved, At, Of, Addr
<1> QED
  BY <1>1, AbsIs

LEMMA NextKeepsPromise == Inv /\ [Next]_vars => [Promise!Next]_(Promise!vars)
<1> SUFFICES ASSUME Inv, [Next]_vars PROVE Promise!Next \/ UNCHANGED Promise!vars
  OBVIOUS
<1>1. ASSUME NEW c \in Conns, Register(c) PROVE Promise!Next \/ UNCHANGED Promise!vars
  <2>1. thread[c].of \in Servers /\ thread[c].reg \in RegOf(thread[c].of)
    BY <1>1, HandlerOf DEF Inv, Register
  <2>2. CASE Refuses(thread[c].reg, c)
    BY <1>1, <2>2, Otherwise DEF Register
  <2>3. CASE ~Refuses(thread[c].reg, c)
    <3>1. rows' = Added(thread[c].reg, c) /\ UNCHANGED file
      BY <1>1, <2>3 DEF Register
    <3> QED
      BY <2>1, <2>3, <3>1, ClaimStep
  <2> QED
    BY <2>2, <2>3
<1>2. ASSUME NEW c \in Conns, NEW claim \in Moved, Reregister(c, claim)
      PROVE  Promise!Next \/ UNCHANGED Promise!vars
  <2> DEFINE s == thread[c].of
             reg == Reg(s, claim)
  <2>1. s \in Servers
    BY <1>2, HandlerOf DEF Inv, Reregister, Hears
  <2>2. reg \in RegOf(s)
    <3>1. proc[s].link # NoConn
      BY <1>2, ConnsAreNumbers DEF Inv, Reregister, Hears
    <3> QED
      BY <2>1, <3>1, RegGood DEF Inv, ProcsTyped, Ips
  <2>3. UNCHANGED file /\ (Refuses(reg, c) => rows' = touch(c, rows)) /\ (~Refuses(reg, c) => rows' = Added(reg, c))
    BY <1>2 DEF Reregister
  <2> HIDE DEF s, reg
  <2>4. CASE Refuses(reg, c)
    BY <2>3, <2>4, HeardOf
  <2>5. CASE ~Refuses(reg, c)
    BY <2>1, <2>2, <2>3, <2>5, ClaimStep
  <2> QED
    BY <2>4, <2>5
<1>3. ASSUME NEW c \in Conns, Heard(c) PROVE UNCHANGED Promise!vars
  BY <1>3, HeardOf DEF Heard
<1>4. ASSUME NEW c \in Conns, Enlist(c) \/ Leave(c) PROVE UNCHANGED Promise!vars
  BY <1>4, Otherwise DEF Enlist, Leave
<1>5. ASSUME NEW c \in Conns, Orphan(c) PROVE Promise!Next
  BY <1>5, OrphanReleases
<1>6. ASSUME NEW a \in Ips \X Ports, Age(a) PROVE UNCHANGED Promise!vars
  BY <1>6, Aged
<1>7. ASSUME NEW a \in Ips \X Ports, Probe(a) PROVE UNCHANGED Promise!vars
  BY <1>7, Otherwise DEF Probe
<1>8. CASE SweepLook
  BY <1>8, Otherwise DEF SweepLook
<1>9. CASE SweepApply
  BY <1>9, SweepDrops
<1>10. CASE persistRegistry
  BY <1>10, PersistSaves
<1>11. CASE Crash
  BY <1>11, CrashEmpties
<1>12. CASE Restart
  BY <1>12, RestartReloads
<1>13. ASSUME NEW s \in Servers, Start(s) \/ HostSpawn(s) \/ Bind(s) \/ Stop(s) \/ Dial(s) \/ Hangup(s)
       PROVE  UNCHANGED Promise!vars
  BY <1>13, Otherwise DEF Start, HostSpawn, Bind, Stop, Dial, Hangup
<1>14. CASE UNCHANGED vars
  BY <1>14, Otherwise DEF vars
<1> QED
  BY <1>1, <1>2, <1>3, <1>4, <1>5, <1>6, <1>7, <1>8, <1>9, <1>10, <1>11, <1>12, <1>13, <1>14 DEF Next

LEMMA InitPromise == Init => Promise!Init
<1> SUFFICES ASSUME Init PROVE Promise!Init
  OBVIOUS
<1>1. List(rows) = Promise!Empty /\ {Addr(l) : l \in file} = {}
  BY EmptyList DEF Init
<1> QED
  BY <1>1 DEF Promise!Init, List, Of, At, Holder

\* The registry implements the list that is promised: every locked section of Registry and
\* every save, crash and reload of the process is a step of Listing, or none (matchmaker.h).
THEOREM RegistryAsPromised == Spec => ListsAsPromised
BY InitPromise, NextKeepsPromise, Invariance, PTL DEF Spec, ListsAsPromised, Promise!Spec
=============================================================================
