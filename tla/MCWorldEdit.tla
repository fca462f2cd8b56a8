---------------------------- MODULE MCWorldEdit ----------------------------
(***************************************************************************)
(* A corridor whose far end is protected: bedrock, two layers of blocks,   *)
(* and an empty row beside them.                                           *)
(***************************************************************************)
EXTENDS WorldEdit

CONSTANTS guest, builder   \* players

\* The world row by row, y = 1 and y = 2 at z = 0, over untouched bedrock.
Corridor(row1, row2) ==
    [c \in Cells |-> CASE c[2] = 1 /\ c[3] = 0 -> row1[c[1] + 1]
                       [] c[2] = 2 /\ c[3] = 0 -> row2[c[1] + 1]
                       [] OTHER -> Absent]

MCPlayers == {guest, builder}
MCLevel == (guest :> -1) @@ (builder :> 2)
MCTerrain == <<Bedrock>>
MCCore == [name |-> "core", lo |-> <<3, 0, 0>>, hi |-> <<3, 2, 1>>, enforced |-> TRUE, level |-> NoLevel]
MCOther == {[name |-> "vault", lo |-> <<1, 1, 0>>, hi |-> <<1, 2, 1>>, enforced |-> TRUE, level |-> 2]}

\* TNT and two expansion blocks that carry its burn into the zone, a third beside them;
\* wood beside painted TNT.
MCWorlds == {
    Corridor(<<<<Tnt, 0>>, <<84, 3>>, <<87, 0>>, <<Air, 0>>, Absent>>, <<Absent, Absent, <<102, 0>>, <<Tnt, 0>>, Absent>>),
    Corridor(<<<<7, 0>>, <<Tnt, 4>>, <<2, 0>>, <<PaintedBase, 1>>, <<Tnt, 0>>>>, <<Absent, Absent, <<Tnt, 0>>, <<81, 0>>, Absent>>)}

\* A row of expansion blocks, whose chain is cut short; TNT that lights a side variant
\* and clears one of its corners; two side variants in a world with no room left, which
\* look at the faces of every corner cell each time it comes round.
Row == Corridor(<<<<84, 0>>, <<84, 0>>, <<84, 0>>, <<84, 0>>, Absent>>, <<Absent, Absent, Absent, Absent, Absent>>)
Cleared ==
    [Corridor(<<Absent, <<Tnt, 0>>, <<102, 0>>, Absent, Absent>>, <<Absent, Absent, Absent, Absent, Absent>>)
        EXCEPT ![<<1, 1, 1>>] = <<7, 0>>]
Full ==
    [c \in Cells |-> CASE c \in {<<1, 1, 0>>, <<2, 2, 0>>} -> <<102, 0>>
                       [] c[2] = 0 /\ c[1] + 2 * c[3] < 5 -> <<Bedrock, 0>>
                       [] OTHER -> Absent]
MCSamples == {Row, Cleared, Full}

Act(mode, at, extra) == [mode |-> mode, at |-> at, extra |-> extra]
MCActions ==
    (guest :> {Act(2, <<0, 1, 0>>, 0), Act(2, <<1, 1, 0>>, 0), Act(1, <<1, 1, 0>>, 0), Act(3, <<3, 1, 0>>, 5)}) @@
    (builder :> {Act(2, <<0, 1, 0>>, 0), Act(0, <<1, 2, 0>>, Tnt)})

MCFills == {[lo |-> <<2, 1, 0>>, hi |-> <<3, 1, 0>>, type |-> Tnt, colour |-> 0]}

\* A sign in the protected end, one beside it; the list is full.
Sign(at, text) == [at |-> at, face |-> 0, text |-> text]
MCHung == {Sign(<<2, 1, 0>>, "old"), Sign(<<3, 1, 0>>, "old")}
MCWritten ==
    (guest :> {Sign(<<2, 1, 0>>, "new"), Sign(<<3, 1, 0>>, "new")}) @@ (builder :> {Sign(<<1, 1, 0>>, "new")})

MCBudgets == {0, 22, 33, 430, 700}

Cmd(verb, lo, hi, type, feet) ==
    [verb |-> verb, lo |-> lo, hi |-> hi, feet |-> feet, type |-> type, colour |-> 0, from |-> 2,
     filter |-> -1, radius |-> 1, height |-> 1]
History_commands == {
    Cmd("undo", <<0, 0, 0>>, <<0, 0, 0>>, 0, <<0, 0, 0>>),
    Cmd("redo", <<0, 0, 0>>, <<0, 0, 0>>, 0, <<0, 0, 0>>)}
MCCommands ==
    (guest :> History_commands \cup {
        Cmd("paint", <<1, 0, 0>>, <<1, 2, 0>>, 0, <<1, 1, 0>>),
        Cmd("up", <<0, 0, 0>>, <<0, 0, 0>>, 0, <<2, 1, 0>>),
        Cmd("copy", <<1, 1, 0>>, <<2, 2, 0>>, 0, <<1, 1, 0>>),
        Cmd("rotate", <<0, 0, 0>>, <<0, 0, 0>>, 0, <<0, 0, 0>>),
        Cmd("paste", <<0, 0, 0>>, <<0, 0, 0>>, 0, <<2, 1, 0>>)}) @@
    (builder :> History_commands \cup {
        Cmd("set", <<1, 1, 0>>, <<3, 1, 0>>, 2, <<0, 1, 0>>),
        Cmd("hsphere", <<0, 0, 0>>, <<0, 0, 0>>, Air, <<2, 1, 0>>),
        Cmd("replacenear", <<0, 0, 0>>, <<0, 0, 0>>, 5, <<2, 1, 0>>)})
=============================================================================
