----------------------------- MODULE Matchmaker -----------------------------
(***************************************************************************)
(* The matchmaker (edenmatch.cpp, matchmaker.h): game servers keep a       *)
(* connection to it open and are listed; its sweeper drops rows that went  *)
(* silent and whose server does not answer; its list survives a restart.   *)
(* It starts servers itself for players who ask it to host a world.        *)
(*                                                                         *)
(* The registry is one lock, and one action of it one step.  A handler     *)
(* thread takes several: the registry's, the table of registered sockets', *)
(* and the sweeper probes with no lock at all.  Time is left out: a row    *)
(* not heard of may turn stale at any moment, a timeout may strike at any  *)
(* moment.  So are player counts, the text of the rows and LIST, which     *)
(* only reads.                                                             *)
(***************************************************************************)
EXTENDS Naturals, FiniteSets

CONSTANTS
    Remote,           \* game servers run elsewhere
    Spawned,          \* game servers started on demand, one for each HOST request
    Host,             \* a server's source address
    Claimed,          \* the address its REGISTER advertises
    Port,             \* a remote server's port
    Moved,            \* addresses a server advertises later, its connection kept
    HostPorts,        \* --host-ports
    Home,             \* the matchmaker's loopback address
    Name,             \* a server's display name
    MAX_REGISTRATIONS, MAX_REGISTRATIONS_PER_PEER, MAX_CONNS_PER_IP,
    MaxConns,         \* bound of the model: connections ever made
    MaxStarts,        \* bound of the model: starts of a process
    MaxCrashes        \* bound of the model: crashes of the matchmaker

Servers == Remote \cup Spawned
Ips == {Host[s] : s \in Servers} \cup {Claimed[s] : s \in Servers} \cup Moved
Ports == {Port[s] : s \in Remote} \cup HostPorts

ASSUME MatchmakerAssumption ==
    /\ {MAX_REGISTRATIONS, MAX_REGISTRATIONS_PER_PEER, MAX_CONNS_PER_IP} \subseteq Nat \ {0}
    /\ {MaxConns, MaxStarts, MaxCrashes} \subseteq Nat
    /\ Remote \cap Spawned = {} /\ HostPorts \subseteq Nat \ {0}
    /\ "" \notin Ips
    /\ \A s \in Spawned : Host[s] = Home

VARIABLES
    up,       \* the matchmaker runs
    rows,     \* Registry::entries_, without its order
    file,     \* eden_registry.txt: [ip, port, name]
    thread,   \* handler threads: [of, reg, at, displaced, shut]
    regFds,   \* g_regFds
    proc,     \* a server process: [at, port, link, starts]
    sweep,    \* the sweeper: [at, probe, drop, keep]
    crashes

vars == <<up, rows, file, thread, regFds, proc, sweep, crashes>>

Conns == DOMAIN thread
NoConn == 0
Ended == [at |-> "ended"]
Rest == [at |-> "rest", probe |-> {}, drop |-> {}, keep |-> {}]
Addr(r) == <<r.ip, r.port>>

-----------------------------------------------------------------------------
(* Registering. *)

Trusted(ip) == ip = Home

\* Mutant of advertise_policy: everyone's claim stands.
PolicyOff(s, claim) == claim

\* The address claimed, for those who may; else the peer's own.
advertise_policy(s, claim) == IF Trusted(Host[s]) THEN claim ELSE Host[s]

Reg(s, claim) == [ip |-> advertise_policy(s, claim), port |-> proc[s].port, name |-> Name[s], peer |-> Host[s]]

Row(reg, c) == [ip |-> reg.ip, port |-> reg.port, name |-> reg.name, peer |-> reg.peer,
                conn |-> c, heard |-> TRUE]
SameAs(reg) == {e \in rows : Addr(e) = Addr(reg)}
OwnedBy(c) == {e \in rows : e.conn = c}

\* A row another peer's connection still owns is not displaced.
Taken(reg, c) == \E e \in SameAs(reg) : e.conn \notin {NoConn, c} /\ e.peer # reg.peer
PeerLimit(reg) ==
    ~Trusted(reg.peer) /\ Cardinality({e \in rows : e.peer = reg.peer}) >= MAX_REGISTRATIONS_PER_PEER
Full == Cardinality(rows) >= MAX_REGISTRATIONS

\* Registry::add says no.
Refuses(reg, c) ==
    \/ Taken(reg, c)
    \/ SameAs(reg) = {} /\ OwnedBy(c) = {} /\ (PeerLimit(reg) \/ Full)

\* Mutant of Added: a connection that moves to a row listed before keeps its own too.
AddedKeepsOwn(reg, c) ==
    (rows \ (IF SameAs(reg) = {} THEN OwnedBy(c) ELSE SameAs(reg))) \cup {Row(reg, c)}

\* Registry::add says yes: the address's row, or this connection's, becomes this one.
Added(reg, c) == (rows \ (SameAs(reg) \cup OwnedBy(c))) \cup {Row(reg, c)}
Displaced(reg, c) == {e.conn : e \in SameAs(reg)} \ {NoConn, c}

\* The first line of a connection is a REGISTER.
Register(c) ==
    LET reg == thread[c].reg
    IN /\ up /\ thread[c].at = "open"
       /\ IF Refuses(reg, c)
          THEN thread' = [thread EXCEPT ![c] = Ended] /\ UNCHANGED rows
          ELSE /\ rows' = Added(reg, c)
               /\ thread' = [thread EXCEPT ![c].at = "added", ![c].displaced = Displaced(reg, c)]
       /\ UNCHANGED <<up, file, regFds, proc, sweep, crashes>>

\* The displaced connections whose sockets are in the table are shut down.
dropDisplaced(t, gone) == [c \in Conns |-> IF c \in gone \cap regFds THEN [t[c] EXCEPT !.shut = TRUE] ELSE t[c]]

\* Its socket goes into the table, then the one it displaced is dropped.
Enlist(c) ==
    /\ up /\ thread[c].at = "added"
    /\ regFds' = regFds \cup {c}
    /\ thread' = dropDisplaced([thread EXCEPT ![c].at = "serving", ![c].displaced = {}], thread[c].displaced)
    /\ UNCHANGED <<up, rows, file, proc, sweep, crashes>>

touch(c, s) == {IF e.conn = c THEN [e EXCEPT !.heard = TRUE] ELSE e : e \in s}
Hears(c) == up /\ thread[c].at = "serving" /\ proc[thread[c].of].link = c

\* A PING, or any other line: the row is heard of.
Heard(c) ==
    /\ Hears(c)
    /\ rows' = touch(c, rows)
    /\ UNCHANGED <<up, file, thread, regFds, proc, sweep, crashes>>

\* A second REGISTER; one that is refused leaves things as they are, and one that says
\* what the row says already is Heard.
Reregister(c, claim) ==
    LET reg == Reg(thread[c].of, claim)
    IN /\ Hears(c) /\ Row(reg, c) \notin touch(c, rows)
       /\ IF Refuses(reg, c)
          THEN rows' = touch(c, rows) /\ UNCHANGED thread
          ELSE /\ rows' = Added(reg, c)
               /\ thread' = [thread EXCEPT ![c].at = "added", ![c].reg = reg, ![c].displaced = Displaced(reg, c)]
       /\ UNCHANGED <<up, file, regFds, proc, sweep, crashes>>

\* The connection ends, is shut down or is silent for too long.
Leave(c) ==
    /\ up /\ thread[c].at = "serving"
    /\ thread' = [thread EXCEPT ![c].at = "left"]
    /\ regFds' = regFds \ {c}
    /\ UNCHANGED <<up, rows, file, proc, sweep, crashes>>

\* Registry::orphan, then close.
Orphan(c) ==
    /\ up /\ thread[c].at = "left"
    /\ rows' = {IF e.conn = c THEN [e EXCEPT !.conn = NoConn] ELSE e : e \in rows}
    /\ thread' = [thread EXCEPT ![c] = Ended]
    /\ UNCHANGED <<up, file, regFds, proc, sweep, crashes>>

-----------------------------------------------------------------------------
(* The sweeper. *)

\* HEARTBEAT_TTL_SEC has passed since a row was heard of.
Age(a) ==
    /\ \E e \in rows : Addr(e) = a /\ e.heard
    /\ rows' = {IF Addr(e) = a THEN [e EXCEPT !.heard = FALSE] ELSE e : e \in rows}
    /\ UNCHANGED <<up, file, thread, regFds, proc, sweep, crashes>>

SweepLook ==
    LET stale == {Addr(e) : e \in {e \in rows : ~e.heard}}
    IN /\ up /\ sweep = Rest
       /\ sweep' = IF stale = {} THEN [Rest EXCEPT !.at = "save"]
                   ELSE [Rest EXCEPT !.at = "probe", !.probe = stale]
       /\ UNCHANGED <<up, rows, file, thread, regFds, proc, crashes>>

\* Where a server answers; one started here answers under the address it claims too.
Listens(s) == {<<Host[s], proc[s].port>>} \cup IF Trusted(Host[s]) THEN {<<Claimed[s], proc[s].port>>} ELSE {}
Answers(a) == \E s \in Servers : proc[s].at = "up" /\ a \in Listens(s)

\* probeReachable, with the registry unlocked; a server that is there may be too slow.
Probe(a) ==
    /\ up /\ sweep.at = "probe" /\ a \in sweep.probe
    /\ \/ /\ Answers(a)
          /\ sweep' = [sweep EXCEPT !.probe = @ \ {a}, !.keep = @ \cup {a}]
       \/ sweep' = [sweep EXCEPT !.probe = @ \ {a}, !.drop = @ \cup {a}]
    /\ UNCHANGED <<up, rows, file, thread, regFds, proc, crashes>>

\* Mutant of SweepApply: rows that no connection holds are left to their servers.
ApplySparesOrphans ==
    /\ up /\ sweep.at = "probe" /\ sweep.probe = {}
    /\ rows' = {IF Addr(e) \in sweep.keep THEN [e EXCEPT !.heard = TRUE] ELSE e :
                   e \in {e \in rows : e.conn = NoConn \/ Addr(e) \notin sweep.drop}}
    /\ sweep' = [Rest EXCEPT !.at = "save"]
    /\ UNCHANGED <<up, file, thread, regFds, proc, crashes>>

\* The verdicts fall on whatever rows hold the addresses by now.
SweepApply ==
    /\ up /\ sweep.at = "probe" /\ sweep.probe = {}
    /\ rows' = {IF Addr(e) \in sweep.keep THEN [e EXCEPT !.heard = TRUE] ELSE e :
                   e \in {e \in rows : Addr(e) \notin sweep.drop}}
    /\ sweep' = [Rest EXCEPT !.at = "save"]
    /\ UNCHANGED <<up, file, thread, regFds, proc, crashes>>

\* What a row's line keeps of it; who registered it is not written.
serialize_entry(e) == [ip |-> e.ip, port |-> e.port, name |-> e.name]

persistRegistry ==
    /\ up /\ sweep.at = "save"
    /\ file' = {serialize_entry(e) : e \in rows}
    /\ sweep' = Rest
    /\ UNCHANGED <<up, rows, thread, regFds, proc, crashes>>

\* A connection id is not used again across a restart: a simplification.
Crash ==
    /\ up /\ crashes < MaxCrashes
    /\ up' = FALSE /\ crashes' = crashes + 1
    /\ rows' = {} /\ regFds' = {} /\ sweep' = Rest
    /\ thread' = [c \in Conns |-> Ended]
    /\ UNCHANGED <<file, proc>>

parse_persisted_line(e) == [ip |-> e.ip, port |-> e.port, name |-> e.name, peer |-> ""]
load_stale(regs) ==
    {[ip |-> r.ip, port |-> r.port, name |-> r.name, peer |-> r.peer, conn |-> NoConn, heard |-> FALSE] : r \in regs}

Restart ==
    /\ ~up /\ up' = TRUE
    /\ rows' = load_stale({parse_persisted_line(e) : e \in file})
    /\ UNCHANGED <<file, thread, regFds, proc, sweep, crashes>>

-----------------------------------------------------------------------------
(* The servers. *)

Live(s) == proc[s].at = "up"
BoundOn(s, p) == \E t \in Servers : Live(t) /\ Host[t] = Host[s] /\ proc[t].port = p

Start(s) ==
    /\ s \in Remote /\ proc[s].at = "down" /\ proc[s].starts < MaxStarts /\ ~BoundOn(s, Port[s])
    /\ proc' = [proc EXCEPT ![s] = [at |-> "up", port |-> Port[s], link |-> NoConn, starts |-> proc[s].starts + 1]]
    /\ UNCHANGED <<up, rows, file, thread, regFds, sweep, crashes>>

\* allocHostPort: no row has it and it can be bound now.
FreePorts(s) == {p \in HostPorts : ~BoundOn(s, p) /\ \A e \in rows : e.port # p}

LowestFree(s) == {p \in FreePorts(s) : \A q \in FreePorts(s) : p <= q}

find_live_by_name(regs, n) == {e \in regs : e.conn # NoConn /\ e.name = n}

\* handleHost: a world that runs here is joined; otherwise a server is started for it.
HostSpawn(s) ==
    /\ up /\ s \in Spawned /\ proc[s].at = "down" /\ proc[s].starts < MaxStarts
    /\ find_live_by_name({e \in rows : e.peer = Home}, Name[s]) = {}
    /\ \E p \in LowestFree(s) :
          proc' = [proc EXCEPT ![s] = [at |-> "fork", port |-> p, link |-> NoConn, starts |-> proc[s].starts + 1]]
    /\ UNCHANGED <<up, rows, file, thread, regFds, sweep, crashes>>

\* The child binds its port, or exits because another has bound it meanwhile.
Bind(s) ==
    /\ proc[s].at = "fork"
    /\ proc' = [proc EXCEPT ![s].at = IF BoundOn(s, proc[s].port) THEN "down" ELSE "up"]
    /\ UNCHANGED <<up, rows, file, thread, regFds, sweep, crashes>>

\* A process ends, and nobody need hear of it.
Stop(s) ==
    /\ Live(s)
    /\ proc' = [proc EXCEPT ![s].at = "down", ![s].link = NoConn]
    /\ UNCHANGED <<up, rows, file, thread, regFds, sweep, crashes>>

\* ConnCaps: a slot is held from the accept to the end of the thread.
HasSlot(ip) ==
    Cardinality({c \in Conns : thread[c] # Ended /\ Host[thread[c].of] = ip}) < MAX_CONNS_PER_IP

\* matchmakerThread connects and sends REGISTER; the accept loop gives it a thread.
Dial(s) ==
    LET c == Cardinality(Conns) + 1
    IN /\ up /\ Live(s) /\ proc[s].link = NoConn
       /\ c <= MaxConns /\ HasSlot(Host[s])
       /\ thread' = [d \in 1..c |->
                        IF d = c THEN [of |-> s, reg |-> Reg(s, Claimed[s]), at |-> "open", displaced |-> {}, shut |-> FALSE]
                        ELSE thread[d]]
       /\ proc' = [proc EXCEPT ![s].link = c]
       /\ UNCHANGED <<up, rows, file, regFds, sweep, crashes>>

\* A PING cannot be sent: the matchmaker closed the connection, or the network lost it.
Hangup(s) ==
    /\ Live(s) /\ proc[s].link # NoConn
    /\ proc' = [proc EXCEPT ![s].link = NoConn]
    /\ UNCHANGED <<up, rows, file, thread, regFds, sweep, crashes>>

-----------------------------------------------------------------------------
Init ==
    /\ up = TRUE /\ rows = {} /\ file = {} /\ sweep = Rest
    /\ thread = [c \in {} |-> {}] /\ regFds = {}
    /\ proc = [s \in Servers |-> [at |-> "down", port |-> 0, link |-> NoConn, starts |-> 0]]
    /\ crashes = 0

Next ==
    \/ \E c \in Conns :
          \/ Register(c) \/ Enlist(c) \/ Heard(c) \/ Leave(c) \/ Orphan(c)
          \/ \E claim \in Moved : Reregister(c, claim)
    \/ \E a \in Ips \X Ports : Age(a) \/ Probe(a)
    \/ SweepLook \/ SweepApply \/ persistRegistry \/ Crash \/ Restart
    \/ \E s \in Servers : Start(s) \/ HostSpawn(s) \/ Bind(s) \/ Stop(s) \/ Dial(s) \/ Hangup(s)

Spec == Init /\ [][Next]_vars

\* The sweeper and the handlers are scheduled and time passes; a broken connection
\* ends at the latest with its receive timeout.
Broken(c) == thread[c].shut \/ proc[thread[c].of].link # c
Unanswered(a) == ~Answers(a)

Sweeper == SweepLook \/ (\E a \in Ips \X Ports : Probe(a)) \/ SweepApply \/ persistRegistry
Handler(c) == Register(c) \/ Enlist(c) \/ (Leave(c) /\ Broken(c)) \/ Orphan(c)

Fairness ==
    /\ WF_vars(Sweeper)
    /\ \A a \in Ips \X Ports : WF_vars(Unanswered(a) /\ Age(a))
    /\ \A c \in 1..MaxConns : WF_vars(c \in Conns /\ Handler(c))

FairSpec == Spec /\ Fairness

-----------------------------------------------------------------------------
(* What is promised. *)

Holder(a) == CHOOSE e \in rows : Addr(e) = a

Promise == INSTANCE Listing WITH
    Addresses <- Ips \X Ports,
    Connections <- 1..MaxConns,
    Peers <- {Host[s] : s \in Servers},
    Entitled <- {e \in {Host[s] : s \in Servers} \X (Ips \X Ports) : e[1] \in {Home, e[2][1]}},
    listed <- [a \in {Addr(e) : e \in rows} |-> [conn |-> Holder(a).conn, peer |-> Holder(a).peer]],
    saved <- {Addr(e) : e \in file}

\* The registry is the list that is promised: one row an address, one address a
\* connection, none of them taken from a peer that holds it or given to one that may
\* not have it, and what a restart brings back was saved (Registry::add, sweep, orphan,
\* load_stale; advertise_policy).
ListsAsPromised == Promise!Spec

\* A row is held by a handler that has registered that very address and will still let go
\* of it: a row nobody can release would keep its address from every other peer for as long
\* as something answers there (edenmatch.cpp handleConn, Registry::orphan).
RowsHeldByLive ==
    \A e \in rows : e.conn # NoConn =>
        /\ thread[e.conn].at \in {"added", "serving", "left"}
        /\ Addr(thread[e.conn].reg) = Addr(e)

\* An address whose server is gone for good is not listed for good (Registry::sweep).
Gone(a) == ~Answers(a) /\ \A c \in Conns : thread[c] # Ended => Addr(thread[c].reg) # a
DeadRowsGo ==
    \A a \in Ips \X Ports : <>[]Gone(a) => <>[](\A e \in rows : Addr(e) # a)
=============================================================================
