------------------------------ MODULE Session ------------------------------
(***************************************************************************)
(* A connection's life: the accept loop's admission, the reader thread     *)
(* (handleClient) from JOIN to its exit path, and the operator's kick, ban *)
(* and PIN commands, which act on the roster from the control thread.      *)
(*                                                                         *)
(* playerInfoMap and clients are keyed by descriptor, and a descriptor is  *)
(* handed out again as soon as it is closed; a connection number is not.   *)
(* A name is a sequence: <<"n">> as asked for, <<"n", 2>> with the suffix  *)
(* of the server.  Every section under a lock is one action; at[s] is how   *)
(* far connection s has come.                                              *)
(*                                                                         *)
(* Time is left out: an address's failures lapse at any moment, and any     *)
(* session may have been silent for --stale-session-secs.                  *)
(***************************************************************************)
EXTENDS Integers, Sequences, FiniteSets

CONSTANTS
    Fds,          \* descriptors the process may hold for players
    Ips,          \* source addresses
    Wanted,       \* names asked for at JOIN
    Names,        \* those and the suffixed ones
    Connections,  \* bound of the model: connections accepted
    MaxClients,   \* SV_MAX_CLIENTS
    PerIp,        \* IpConnCounter::max_; 0 is off
    Threshold,    \* AuthFailureLimiter::threshold_; 0 is off
    Stale,        \* --stale-session-secs is positive
    Protected,    \* the server has a password
    MaxOrders,    \* bound of the model: commands of the operator
    Bannable,     \* bound of the model: what the operator may ban
    Pinned        \* bound of the model: the names that are issued PINs

ASSUME SessionAssumption ==
    /\ Connections \in Nat /\ MaxClients \in Nat /\ PerIp \in Nat /\ Threshold \in Nat
    /\ MaxOrders \in Nat /\ Stale \in BOOLEAN /\ Protected \in BOOLEAN
    /\ Wanted \subseteq Names /\ Bannable \subseteq Names \cup Ips /\ Pinned \subseteq Names
    /\ \A n \in Wanted : Len(n) \in Nat \ {0} /\ n = [i \in 1..Len(n) |-> n[i]]
    /\ \A n \in Wanted, k \in 2..Connections : Append(n, k) \in Names
    /\ 0 \notin Fds

Sids == 1..Connections

VARIABLES
    opened,    \* connections admitted so far (clientIdCounter)
    at,        \* where a connection's reader is
    ip, fd,    \* its address and descriptor
    username,  \* its thread's name
    evicted,   \* ClientOut::evicted
    rec,       \* the PIN record a /login copied
    clients,   \* the connected descriptors
    roster,    \* playerInfoMap
    ipConns,   \* g_ipConns
    shut,      \* descriptors shut down
    bans,      \* g_bans
    auth,      \* g_auth: a name's record, 0 for none
    orders,    \* commands given; if the n-th is a passwd, it issues record n + 1
    wrong,     \* wrong PINs counted against an address
    ctl,       \* the control thread: a ban being applied, names to kick, a kick under way
    late       \* history: positions a session remembered once evicted

threads == <<at, username, rec>>
net == <<opened, ip, fd, shut>>
tables == <<clients, roster, ipConns>>
operator == <<bans, auth, orders, ctl>>
vars == <<opened, at, ip, fd, username, evicted, rec, clients, roster, ipConns,
          shut, bans, auth, orders, wrong, ctl, late>>

NoOne == [sid |-> 0]                    \* a descriptor with no roster entry
Idle == [scan |-> {}, todo |-> {}, target |-> 0]

Owns(s) == at[s] \notin {"none", "close", "gone"}
Counted(s) == at[s] \notin {"none", "gone"}
Holder(f) == {s \in Sids : Owns(s) /\ fd[s] = f}

\* AuthFailureLimiter::blocked
blocked(a) == Threshold > 0 /\ wrong[a] >= Threshold
record_failure(a) == wrong' = IF Threshold = 0 THEN wrong ELSE [wrong EXCEPT ![a] = @ + 1]

Init ==
    /\ opened = 0
    /\ at = [s \in Sids |-> "none"]
    /\ ip = [s \in Sids |-> 0] /\ fd = [s \in Sids |-> 0]
    /\ username = [s \in Sids |-> << >>]
    /\ evicted = [s \in Sids |-> FALSE]
    /\ rec = [s \in Sids |-> 0]
    /\ clients = {} /\ roster = [f \in Fds |-> NoOne]
    /\ ipConns = [a \in Ips |-> 0]
    /\ shut = {}
    /\ bans \in SUBSET Bannable /\ orders = 0
    /\ \E loaded \in SUBSET Pinned : auth = [n \in Names |-> IF n \in loaded THEN 1 ELSE 0]
    /\ wrong = [a \in Ips |-> 0]
    /\ ctl = Idle
    /\ late = [s \in Sids |-> 0]

-----------------------------------------------------------------------------
(* The accept loop, one thread. *)

\* A socket is refused, and closed again, for its address's ban, for the number of clients
\* or for the number its address holds, whose count is taken last; the password lockout and
\* the connect limiter may refuse it whatever the state here.  The tests take
\* one lock after the other, but only this thread adds clients and counts, so they are one
\* step.  An accepted socket is listed and its threads started.
Accept(a, f) ==
    LET s == opened + 1 IN
    /\ opened < Connections
    /\ Holder(f) = {}
    /\ a \notin bans
    /\ Cardinality(clients) < MaxClients
    /\ PerIp = 0 \/ ipConns[a] < PerIp
    /\ opened' = s
    /\ at' = [at EXCEPT ![s] = "recv"]
    /\ ip' = [ip EXCEPT ![s] = a] /\ fd' = [fd EXCEPT ![s] = f]
    /\ clients' = clients \cup {f}
    /\ ipConns' = IF PerIp > 0 THEN [ipConns EXCEPT ![a] = @ + 1] ELSE ipConns
    /\ UNCHANGED <<username, evicted, rec, roster, shut, operator, wrong, late>>

-----------------------------------------------------------------------------
(* The reader thread. *)

\* A complete line is taken, received just now or left in the buffer by an earlier recv().
\* Before JOIN only JOIN counts; a second JOIN, chat and the rest change nothing here.
TakeUnchecked(s, verb) ==   \* variant: the evicted flag is only read on the way out
    /\ at[s] = "recv"
    /\ verb = "join" <=> username[s] = << >>
    /\ at' = [at EXCEPT ![s] = verb]
    /\ UNCHANGED <<username, rec, net, evicted, tables, operator, wrong, late>>
Take(s, verb) ==
    /\ at[s] = "recv"
    /\ ~evicted[s]
    /\ verb = "join" <=> username[s] = << >>
    /\ at' = [at EXCEPT ![s] = verb]
    /\ UNCHANGED <<username, rec, net, evicted, tables, operator, wrong, late>>

\* recv() ends the loop: the peer closed, a timeout, an oversized line, or a line in the
\* buffer of an evicted session.  (The exit path says "has left" unless it finds itself
\* evicted; what the others are told is not modelled.)
Leave(s) ==
    /\ at[s] = "recv"
    /\ at' = [at EXCEPT ![s] = "remove"]
    /\ UNCHANGED <<username, rec, net, evicted, tables, operator, wrong, late>>

\* A position: the roster's copy if it is still there, then rememberPos under the thread's name.
Move(s) ==
    /\ at[s] = "move"
    /\ late' = IF evicted[s] THEN [late EXCEPT ![s] = @ + 1] ELSE late
    /\ at' = [at EXCEPT ![s] = "recv"]
    /\ UNCHANGED <<username, rec, net, evicted, tables, operator, wrong>>

-----------------------------------------------------------------------------
(* JOIN: an invalid name is refused like a banned one; the bans, then the password, then *)
(* the name against the roster under clientsMutex.                                       *)

JoinRefused(s) ==
    /\ at[s] = "join"
    /\ Protected \/ \E n \in Wanted : {n, ip[s]} \cap bans # {}
    /\ at' = [at EXCEPT ![s] = "remove"]
    /\ UNCHANGED <<username, rec, net, evicted, tables, operator, wrong, late>>

JoinAllowed(s) ==
    /\ at[s] = "join"
    /\ \E n \in Wanted :
         /\ {n, ip[s]} \cap bans = {}
         /\ username' = [username EXCEPT ![s] = n]
    /\ at' = [at EXCEPT ![s] = "publish"]
    /\ UNCHANGED <<rec, net, evicted, tables, operator, wrong, late>>

Listed == {f \in Fds : roster[f] # NoOne}
TakenAnnounced ==   \* variant: a name counts once its join was announced
    {roster[f].name : f \in {g \in Listed : at[roster[g].sid] # "announce"}}
Taken == {roster[f].name : f \in Listed}

SuffixFromOne(n, taken) ==   \* variant: counts suffixes from 1
    IF n \notin taken THEN n
    ELSE Append(n, CHOOSE k \in 1..(Cardinality(taken) + 2) :
                     /\ Append(n, k) \notin taken
                     /\ \A j \in 1..(k - 1) : Append(n, j) \in taken)
\* The lowest free suffix.  (The base is cut to make room for it: names here are short.)
next_free_username(n, taken) ==
    IF n \notin taken THEN n
    ELSE Append(n, CHOOSE k \in 2..(Cardinality(taken) + 2) :
                     /\ Append(n, k) \notin taken
                     /\ \A j \in 2..(k - 1) : Append(n, j) \in taken)

\* Evict the session whose name this is, or take a suffix.
dup_name_action(sameAddress, silent) == IF sameAddress /\ Stale /\ silent THEN "evict" ELSE "suffix"

PublishAsleep(s, silent) ==   \* variant: the evicted socket is not shut down
    LET n == username[s]
        old == {f \in Listed : /\ roster[f].name = n
                               /\ dup_name_action(roster[f].ip = ip[s], silent) = "evict"}
        taken == IF old = {} THEN Taken ELSE Taken \ {n}
        name == next_free_username(n, taken)
    IN  /\ at[s] = "publish"
        /\ evicted' = [t \in Sids |-> evicted[t] \/ \E f \in old : roster[f].sid = t]
        /\ roster' = [f \in Fds |->
                        IF f = fd[s] THEN [sid |-> s, name |-> name, ip |-> ip[s], verified |-> 0]
                        ELSE IF f \in old THEN NoOne ELSE roster[f]]
        /\ username' = [username EXCEPT ![s] = name]
        /\ at' = [at EXCEPT ![s] = "announce"]
        /\ UNCHANGED <<rec, net, clients, ipConns, operator, wrong, late>>
JoinPublish(s, silent) ==
    LET n == username[s]
        old == {f \in Listed : /\ roster[f].name = n
                               /\ dup_name_action(roster[f].ip = ip[s], silent) = "evict"}
        taken == IF old = {} THEN Taken ELSE Taken \ {n}
        name == next_free_username(n, taken)
    IN  /\ at[s] = "publish"
        /\ evicted' = [t \in Sids |-> evicted[t] \/ \E f \in old : roster[f].sid = t]
        /\ roster' = [f \in Fds |->
                        IF f = fd[s] THEN [sid |-> s, name |-> name, ip |-> ip[s], verified |-> 0]
                        ELSE IF f \in old THEN NoOne ELSE roster[f]]
        /\ shut' = shut \cup old
        /\ username' = [username EXCEPT ![s] = name]
        /\ at' = [at EXCEPT ![s] = "announce"]
        /\ UNCHANGED <<rec, opened, ip, fd, clients, ipConns, operator, wrong, late>>

\* The welcome, the spawn point, and "has joined" to everyone else: messages only.
JoinAnnounce(s) ==
    /\ at[s] = "announce"
    /\ at' = [at EXCEPT ![s] = "recv"]
    /\ UNCHANGED <<username, rec, net, evicted, tables, operator, wrong, late>>

-----------------------------------------------------------------------------
(* /login (handleLogin). *)

Verified(s) == roster[fd[s]].sid = s /\ roster[fd[s]].verified # 0

\* Already logged in, no PIN, a locked-out address or an empty bucket: nothing is hashed,
\* and nothing changes.
LoginUnlimited(s) ==   \* variant: the lockout is not consulted
    /\ at[s] = "recv" /\ username[s] # << >> /\ ~evicted[s]
    /\ ~Verified(s)
    /\ auth[username[s]] # 0
    /\ rec' = [rec EXCEPT ![s] = auth[username[s]]]
    /\ at' = [at EXCEPT ![s] = "hash"]
    /\ UNCHANGED <<username, net, evicted, tables, operator, wrong, late>>
LoginRead(s) ==
    /\ at[s] = "recv" /\ username[s] # << >> /\ ~evicted[s]
    /\ ~Verified(s)
    /\ auth[username[s]] # 0
    /\ ~blocked(ip[s])
    /\ rec' = [rec EXCEPT ![s] = auth[username[s]]]
    /\ at' = [at EXCEPT ![s] = "hash"]
    /\ UNCHANGED <<username, net, evicted, tables, operator, wrong, late>>

\* auth_verify, with no lock held.
LoginWrong(s) ==
    /\ at[s] = "hash"
    /\ record_failure(ip[s])
    /\ rec' = [rec EXCEPT ![s] = 0]
    /\ at' = [at EXCEPT ![s] = "recv"]
    /\ UNCHANGED <<username, net, evicted, tables, operator, late>>

ClaimAnyway(s) ==   \* variant: the record is not compared again
    LET mine == roster[fd[s]].sid # 0 /\ roster[fd[s]].name = username[s] IN
    /\ at[s] = "hash"
    /\ roster' = IF mine THEN [roster EXCEPT ![fd[s]].verified = rec[s]] ELSE roster
    /\ rec' = [rec EXCEPT ![s] = 0]
    /\ at' = [at EXCEPT ![s] = "recv"]
    /\ UNCHANGED <<username, net, evicted, clients, ipConns, operator, wrong, late>>
\* Under g_authMtx, then clientsMutex: only the record that was checked counts, and only
\* for a descriptor still listed under this name.
LoginClaim(s) ==
    LET mine == roster[fd[s]].sid # 0 /\ roster[fd[s]].name = username[s] IN
    /\ at[s] = "hash"
    /\ roster' = IF auth[username[s]] = rec[s] /\ mine
                 THEN [roster EXCEPT ![fd[s]].verified = rec[s]] ELSE roster
    /\ rec' = [rec EXCEPT ![s] = 0]
    /\ at' = [at EXCEPT ![s] = "recv"]
    /\ UNCHANGED <<username, net, evicted, clients, ipConns, operator, wrong, late>>

-----------------------------------------------------------------------------
(* The exit path. *)

RemoveUnlisted(s) ==   \* variant: the roster keeps its entry until the descriptor is reused
    /\ at[s] = "remove"
    /\ clients' = clients \ {fd[s]}
    /\ at' = [at EXCEPT ![s] = "flush"]
    /\ UNCHANGED <<username, rec, net, evicted, roster, ipConns, operator, wrong, late>>
removeClient(s) ==
    /\ at[s] = "remove"
    /\ clients' = clients \ {fd[s]}
    /\ roster' = [roster EXCEPT ![fd[s]] = NoOne]
    /\ at' = [at EXCEPT ![s] = "flush"]
    /\ UNCHANGED <<username, rec, net, evicted, ipConns, operator, wrong, late>>

ReleaseEarly(s) ==   \* variant: the count is released before the descriptor is closed
    /\ at[s] = "flush"
    /\ ipConns' = IF PerIp > 0 THEN [ipConns EXCEPT ![ip[s]] = @ - 1] ELSE ipConns
    /\ at' = [at EXCEPT ![s] = "close"]
    /\ UNCHANGED <<username, rec, net, evicted, clients, roster, operator, wrong, late>>
\* closeOut, then close(): the descriptor may be handed out again from here.
CloseFd(s) ==
    /\ at[s] = "flush"
    /\ shut' = shut \ {fd[s]}
    /\ at' = [at EXCEPT ![s] = "close"]
    /\ UNCHANGED <<opened, ip, fd, username, rec, evicted, tables, operator, wrong, late>>

\* The thread ends, and its locals with it.
Release(s) ==
    /\ at[s] = "close"
    /\ ipConns' = IF PerIp > 0 THEN [ipConns EXCEPT ![ip[s]] = IF @ <= 1 THEN 0 ELSE @ - 1] ELSE ipConns
    /\ at' = [at EXCEPT ![s] = "gone"]
    /\ ip' = [ip EXCEPT ![s] = 0] /\ fd' = [fd EXCEPT ![s] = 0]
    /\ username' = [username EXCEPT ![s] = << >>]
    /\ evicted' = [evicted EXCEPT ![s] = FALSE]
    /\ late' = [late EXCEPT ![s] = 0]
    /\ UNCHANGED <<opened, shut, rec, clients, roster, operator, wrong>>

-----------------------------------------------------------------------------
(* The operator, on the control thread. *)

Order == ctl = Idle /\ orders < MaxOrders /\ orders' = orders + 1

Kick(n) ==
    /\ Order
    /\ ctl' = [Idle EXCEPT !.todo = {n}]
    /\ UNCHANGED <<threads, net, evicted, tables, bans, auth, wrong, late>>

Ban(token) ==
    /\ Order
    /\ token \in Bannable \ bans
    /\ bans' = bans \cup {token}
    /\ ctl' = [Idle EXCEPT !.scan = {token}]
    /\ UNCHANGED <<threads, net, evicted, tables, auth, wrong, late>>

\* After the list is saved: whoever holds the name or the address now is to be kicked.
BanScan ==
    /\ ctl.scan # {}
    /\ ctl' = [Idle EXCEPT !.todo = {roster[f].name : f \in {g \in Listed :
                                       roster[g].name \in ctl.scan \/ roster[g].ip \in ctl.scan}}]
    /\ UNCHANGED <<threads, net, evicted, tables, bans, auth, orders, wrong, late>>

Unban(token) ==
    /\ Order
    /\ token \in bans
    /\ bans' = bans \ {token}
    /\ UNCHANGED <<threads, net, evicted, tables, auth, ctl, wrong, late>>

\* ctlKick looks the name up, lets go of clientsMutex, gives the notice up to 250 ms ...
KickFinds(n) ==
    LET found == {f \in Listed : roster[f].name = n} IN
    /\ ctl.target = 0 /\ n \in ctl.todo
    /\ IF found = {} THEN ctl' = [ctl EXCEPT !.todo = @ \ {n}]
       ELSE \E f \in found : ctl' = [ctl EXCEPT !.todo = @ \ {n}, !.target = f]
    /\ UNCHANGED <<threads, net, evicted, tables, bans, auth, orders, wrong, late>>

\* ... and shuts the descriptor down, whoever holds it by then.
KickShuts ==
    /\ ctl.target # 0
    /\ shut' = IF Holder(ctl.target) # {} THEN shut \cup {ctl.target} ELSE shut
    /\ ctl' = [ctl EXCEPT !.target = 0]
    /\ UNCHANGED <<opened, ip, fd, threads, evicted, tables, bans, auth, orders, wrong, late>>

LogOut(n) == [f \in Fds |-> IF roster[f] # NoOne /\ roster[f].name = n
                            THEN [roster[f] EXCEPT !.verified = 0] ELSE roster[f]]
\* A new record; a save that fails changes nothing.
Passwd(n) ==
    /\ Order
    /\ auth' = [auth EXCEPT ![n] = orders + 2]
    /\ roster' = LogOut(n)
    /\ UNCHANGED <<threads, net, evicted, clients, ipConns, bans, ctl, wrong, late>>

Unpasswd(n) ==
    /\ Order /\ auth[n] # 0
    /\ auth' = [auth EXCEPT ![n] = 0]
    /\ roster' = LogOut(n)
    /\ UNCHANGED <<threads, net, evicted, clients, ipConns, bans, ctl, wrong, late>>

\* An address's failures leave the window and its lockout ends.
Lapse(a) ==
    /\ wrong[a] > 0
    /\ wrong' = [wrong EXCEPT ![a] = 0]
    /\ UNCHANGED <<threads, net, evicted, tables, operator, late>>

-----------------------------------------------------------------------------
Reader(s) ==
    \/ Move(s) \/ JoinRefused(s) \/ JoinAllowed(s) \/ JoinAnnounce(s)
    \/ \E silent \in BOOLEAN : JoinPublish(s, silent)
    \/ LoginWrong(s) \/ LoginClaim(s)
    \/ removeClient(s) \/ CloseFd(s) \/ Release(s)

Next ==
    \/ \E a \in Ips, f \in Fds : Accept(a, f)
    \/ \E s \in Sids :
         \/ \E verb \in {"join", "move"} : Take(s, verb)
         \/ LoginRead(s) \/ Leave(s) \/ Reader(s)
    \/ \E n \in Names : Kick(n) \/ KickFinds(n)
    \/ \E n \in Pinned : Passwd(n) \/ Unpasswd(n)
    \/ \E token \in Bannable : Ban(token) \/ Unban(token)
    \/ BanScan \/ KickShuts
    \/ \E a \in Ips : Lapse(a)

Spec == Init /\ [][Next]_vars

-----------------------------------------------------------------------------
(* Properties. *)

Stages == {"none", "recv", "join", "publish", "announce", "move", "hash", "remove",
           "flush", "close", "gone"}
Entries == [sid : Sids, name : Names, ip : Ips, verified : 0..(MaxOrders + 1)] \cup {NoOne}

\* The type of every variable; a verified entry holds the record it was verified with.
TypeOK ==
    /\ opened \in 0..Connections
    /\ at \in [Sids -> Stages]
    /\ ip \in [Sids -> Ips \cup {0}] /\ fd \in [Sids -> Fds \cup {0}]
    /\ username \in [Sids -> Names \cup {<< >>}]
    /\ evicted \in [Sids -> BOOLEAN]
    /\ rec \in [Sids -> 0..(MaxOrders + 1)]
    /\ clients \subseteq Fds /\ roster \in [Fds -> Entries]
    /\ ipConns \in [Ips -> 0..Connections]
    /\ shut \subseteq Fds /\ bans \subseteq Bannable
    /\ auth \in [Names -> 0..(MaxOrders + 1)] /\ orders \in 0..MaxOrders
    /\ wrong \in [Ips -> Nat]
    /\ ctl \in [scan : SUBSET Bannable, todo : SUBSET Names, target : Fds \cup {0}]
    /\ late \in [Sids -> Nat]

\* No two players in the roster have one name, however joins, evictions and departures of
\* that name overlap: saved positions, kicks, bans and permissions are all keyed by it.
UniqueNames ==
    \A f, g \in Listed : roster[f].name = roster[g].name => f = g

\* A roster entry belongs to the connection that holds its descriptor now, under that
\* connection's own name, and never to an evicted one: a line sent to, or a shutdown of, a
\* listed descriptor reaches the player listed.
RosterLive ==
    \A f \in Listed : LET s == roster[f].sid IN
        /\ Holder(f) = {s}
        /\ username[s] = roster[f].name
        /\ ~evicted[s]
        /\ f \in clients

\* An address never holds more descriptors than its limit, and once its connections are
\* gone its count is zero again: the count is taken by the accept loop and given back by
\* another thread on every way out.
PerAddressExact ==
    PerIp > 0 => \A a \in Ips :
        /\ Cardinality({f \in Fds : \E s \in Holder(f) : ip[s] = a}) <= PerIp
        /\ ipConns[a] = Cardinality({s \in Sids : Counted(s) /\ ip[s] = a})

\* A session that counts as logged in proved the record its name has now: a PIN that is
\* replaced or removed while the slow hash runs does not count, and logs its sessions out.
VerifiedIsCurrent ==
    \A f \in Listed : roster[f].verified # 0 => roster[f].verified = auth[roster[f].name]

\* However many connections of one address guess at once, a lockout stops them within one
\* guess per connection: the check and the count are far apart, with the hash between.
GuessesBounded ==
    Threshold > 0 /\ PerIp > 0 =>
        \A a \in Ips : wrong[a] <= Threshold - 1 + PerIp

\* An evicted session acts on no more than the line it had in hand when it was evicted.
EvictedActsOnce == \A s \in Sids : late[s] <= 1

\* An evicted session that is not on its way out has its own descriptor shut down, so its
\* reader comes out of a recv() that its peer will never answer, and gives back its
\* descriptor and its count.
EvictedIsWoken ==
    \A s \in Sids : evicted[s] /\ Owns(s) => at[s] \in {"remove", "flush"} \/ fd[s] \in shut
=============================================================================
