------------------------------ MODULE Listing ------------------------------
(***************************************************************************)
(* What the matchmaker promises of its list of servers (the comments of    *)
(* Registry::add and advertise_policy, matchmaker.h): an address is listed *)
(* once; a connection lists one address at a time; only a peer entitled to *)
(* an address lists it; and nobody takes a row from another peer that      *)
(* still holds it.  What is reloaded after a crash was saved before.       *)
(***************************************************************************)
CONSTANTS
    Addresses,
    Peers,
    Connections,   \* positive numbers
    Entitled       \* pairs of a peer and an address it may be listed under

Unheld == 0
NoPeer == ""

VARIABLES
    listed,    \* a function from addresses to holders, [conn, peer]
    saved      \* addresses on disk

vars == <<listed, saved>>

Empty == [a \in {} |-> [conn |-> Unheld, peer |-> NoPeer]]

Init == listed = Empty /\ saved = {}

\* Connection c of peer p lists address a, and no other any more.
Claim(a, c, p) ==
    /\ <<p, a>> \in Entitled
    /\ a \in DOMAIN listed =>
          \/ listed[a].conn \in {Unheld, c}
          \/ listed[a].peer = p
    /\ listed' = [b \in {a} \cup {b \in DOMAIN listed : listed[b].conn # c} |->
                     IF b = a THEN [conn |-> c, peer |-> p] ELSE listed[b]]
    /\ UNCHANGED saved

\* A connection is gone; its row stays, held by nobody.
Release(c) ==
    /\ listed' = [a \in DOMAIN listed |->
                     IF listed[a].conn = c THEN [listed[a] EXCEPT !.conn = Unheld] ELSE listed[a]]
    /\ UNCHANGED saved

Drop(gone) ==
    /\ listed' = [a \in DOMAIN listed \ gone |-> listed[a]]
    /\ UNCHANGED saved

Save == saved' = DOMAIN listed /\ UNCHANGED listed
Crash == listed' = Empty /\ UNCHANGED saved

Reload ==
    /\ listed = Empty
    /\ listed' = [a \in saved |-> [conn |-> Unheld, peer |-> NoPeer]]
    /\ UNCHANGED saved

Next ==
    \/ \E a \in Addresses, p \in Peers, c \in Connections : Claim(a, c, p)
    \/ \E c \in Connections : Release(c)
    \/ \E gone \in SUBSET Addresses : Drop(gone)
    \/ Save \/ Crash \/ Reload

Spec == Init /\ [][Next]_vars
=============================================================================
