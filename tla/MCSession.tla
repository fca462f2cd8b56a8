----------------------------- MODULE MCSession -----------------------------
(* Three connections from two addresses over two descriptors, for TLC. *)
EXTENDS Session, TLC

CONSTANTS a, b, f, g      \* addresses; descriptors

plain == <<"n">>
MCPlain == {plain}
MCIps == {a, b}
MCFds == {f, g}
MCWanted == {plain, Append(plain, 2)}
MCNames == MCWanted \cup {Append(n, k) : n \in MCWanted, k \in 2..3}

\* Neither address is banned by itself, and no action or property names a descriptor.
Alike == {p @@ q : p \in Permutations(MCIps), q \in Permutations(MCFds)}
=============================================================================
