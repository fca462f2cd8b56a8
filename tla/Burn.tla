-------------------------------- MODULE Burn --------------------------------
(***************************************************************************)
(* What one burn does to the world (explode.h, block_rules.h) and what it  *)
(* would do on the screen of the client that lit it (burn_guard.h): pure   *)
(* functions of a world.  A world is a function from cells to what is      *)
(* stored there, Absent or <<type, colour>>; a cell is <<x, y, z>>, y up.  *)
(*                                                                         *)
(* A simulation carries a record through its steps: the world, what it may *)
(* not touch, its budget and the counts of ExplodeResult.  A dry run's     *)
(* world also takes writes outside the real one, and refuses none.  What   *)
(* depends only on its own cell is written for all cells at once; the      *)
(* order is kept where it decides something: the chain, the lit blocks,    *)
(* the cells the cap refuses.  The cap on the cells of one restore is left *)
(* out.                                                                    *)
(***************************************************************************)
EXTENDS Integers, Sequences, FiniteSets, SequencesExt, FiniteSetsExt

CONSTANTS
    Width, Height, Depth,  \* the world's size (24-bit x and z, SV_WORLD_HEIGHT)
    Terrain,               \* eden_default_profile: natural blocks from y = 0 up
    Radius,                \* --tnt-radius
    Extent,                \* EXPAND_EXTENT
    MaxDepth,              \* EXPLODE_MAX_DEPTH
    ChainReach,            \* EXPAND_CHAIN_REACH
    MaxVisits,             \* --burn-max-cells
    Cap                    \* --max-world-cells

ASSUME BurnAssumption ==
    /\ {Width, Height, Depth, Radius, Extent} \subseteq Nat \ {0}
    /\ {MaxDepth, ChainReach, MaxVisits, Cap} \subseteq Nat
    /\ Extent <= ChainReach

Cells == (0..Width - 1) \X (0..Height - 1) \X (0..Depth - 1)
Absent == <<>>
Content == {Absent} \cup ((0..255) \X (0..255))

\* The members of s that are in S, in order.
Only(s, S) ==
    LET upTo[n \in 0..Len(s)] ==
            IF n = 0 THEN <<>> ELSE IF s[n] \in S THEN Append(upTo[n - 1], s[n]) ELSE upTo[n - 1]
    IN upTo[Len(s)]

-----------------------------------------------------------------------------
(* Blocks. *)

Air == 0
Bedrock == 1
Tnt == 9
Firework == 65
Golden == 71
Steel == 74
PaintedBase == 255

is_expansion(t) == t \in 81..111

is_flammable(t) ==
    \/ t \in {5, 6, 7, Tnt, 18, 21, Firework, 73}
    \/ t \in (28..31) \cup (44..47) \cup (66..70)
    \/ is_expansion(t)

\* Natural terrain neither burns nor explodes (base_profile.h).
ASSUME TerrainAssumption ==
    /\ Terrain \in Seq(0..255)
    /\ \A i \in DOMAIN Terrain : ~is_flammable(Terrain[i])

\* The fillings of the expansion blocks 82 to 111; 81 fills with nothing.
Materials == <<8, 10, 2, 3, 4, Tnt, 7, 56, 58, 57, 6, 5, 13, 14, 22, 18, 15, 16, 17, 19,
               2, 7, 15, 56, 21, 20, 23, Firework, 72, Steel>>
expansion_material(t) == IF t = 81 THEN Air ELSE Materials[t - 81]

\* The first ramp of a side variant's material.
expansion_ramp(t) == CASE t = 102 -> 24 [] t = 103 -> 28 [] t = 104 -> 36 [] t = 105 -> 32 [] OTHER -> 0
ramp_solid_material(ramp) == CASE ramp = 24 -> 2 [] ramp = 36 -> 15 [] ramp = 28 -> 7 [] OTHER -> 56

\* The horizontal faces in the game's order, and which of them a ramp and a
\* side block of each rotation close.
Faces == <<<<1, 0, 0>>, <<0, 0, 1>>, <<-1, 0, 0>>, <<0, 0, -1>>>>
RampFace == <<4, 1, 2, 3>>
SideFaces == <<{3, 4}, {1, 4}, {1, 2}, {2, 3}>>

face_solid(t, d) ==
    /\ t > 0
    /\ t \in 24..39 => d = RampFace[(t % 4) + 1]
    /\ t \in 40..55 => d \in SideFaces[(t % 4) + 1]

ramp_for_faces(ramp, solid) ==
    LET corner == {d \in solid : (d % 4) + 1 \in solid}
    IN CASE Cardinality(solid) = 2 /\ corner # {} -> ramp + 16 + Min(corner) - 1
         [] Cardinality(solid) > 2 -> ramp_solid_material(ramp)
         [] OTHER -> ramp

-----------------------------------------------------------------------------
(* The footprints. *)

Sum3(c, o) == <<c[1] + o[1], c[2] + o[2], c[3] + o[3]>>
Abs(n) == IF n < 0 THEN -n ELSE n
Far(c, d) == Max({Abs(c[1] - d[1]), Abs(c[2] - d[2]), Abs(c[3] - d[3])})
InHeight == Int \X (0..Height - 1) \X Int

\* Offsets <<ox, yy, oz>> with yy from top down to 0, x before z.
Layers(top, n) ==
    LET row == 2 * n + 1
        area == row * row
    IN [i \in 1..(top + 1) * area |->
           <<(((i - 1) % area) \div row) - n, top - ((i - 1) \div area), ((i - 1) % row) - n>>]

\* Every offset is sampled below the centre and then above it, so the centre's
\* own layer comes round twice.
Mirrored(o) == <<o[1], -o[2], o[3]>>
DownUp(s) ==
    [i \in 1..2 * Len(s) |-> IF i % 2 = 1 THEN Mirrored(s[(i + 1) \div 2]) ELSE s[(i + 1) \div 2]]

Ball ==
    {o \in (-Radius..Radius) \X (-Radius..Radius) \X (-Radius..Radius) :
        o[1] * o[1] + o[2] * o[2] + o[3] * o[3] <= Radius * Radius}
Sphere == DownUp(Only(Layers(Radius - 1, Radius), Ball))
Box == DownUp(Layers(Extent, Extent))

explode_visits_per_blast == 1 + Len(Sphere)
explode_reach == Radius * (MaxDepth + 1)
burn_reach == explode_reach + ChainReach

\* Mutant of expand_visits_per_fill: the faces of the corner cells are not charged.
VisitsWithoutFaces ==
    LET box == 2 * (2 * Extent + 1) * (2 * Extent + 1) * (Extent + 1)
    IN 6 + box + 8 * (Extent + 1) + box

expand_visits_per_fill ==
    LET box == 2 * (2 * Extent + 1) * (2 * Extent + 1) * (Extent + 1)
        ring == 8 * (Extent + 1)
    IN 6 + box + 5 * ring + box
EXPAND_VISITS_PER_LINK == 1 + 2 * expand_visits_per_fill

explode_for_each_blast_cell(c) ==
    {d \in Cells : d = c \/ \E i \in 1..Len(Sphere) : d = Sum3(c, Sphere[i])}
expand_for_each_box_cell(c) ==
    {d \in Cells : Far(c, d) <= Extent /\ d[2] > 0}

-----------------------------------------------------------------------------
(* The world a simulation reads and writes. *)

Start(w, root, max, prot, dry) ==
    [w |-> w, root |-> root, max |-> max, prot |-> prot, dry |-> dry,
     refused |-> 0, truncated |-> 0, explosions |-> 0, expansions |-> 0, visits |-> 0,
     hits |-> {}, written |-> {}, aired |-> {}, queue |-> <<>>, lit |-> {}, firing |-> Absent, refire |-> FALSE]

Get(w, c) == IF c \in DOMAIN w THEN w[c] ELSE Absent
Has(w, c, types) == Get(w, c) # Absent /\ Get(w, c)[1] \in types
baseType(y) == IF y < Len(Terrain) THEN Terrain[y + 1] ELSE Air

\* The block a client draws (typeAt); -1 outside the world's height.
Drawn(w, c) ==
    IF c \notin InHeight THEN -1
    ELSE IF Get(w, c) = Absent \/ Has(w, c, {PaintedBase}) THEN baseType(c[2])
    ELSE w[c][1]

Stored(w) == {c \in DOMAIN w : w[c] # Absent}

\* The cells of s that a write reaches, in order: a stored one always, a new one
\* while there is room under the cap.
Accepted(w, s) ==
    LET new == {c \in ToSet(s) : Get(w, c) = Absent}
        room == Cap - Cardinality(Stored(w))
        upTo(i) == {s[j] : j \in 1..i} \cap new
    IN {s[i] : i \in {i \in DOMAIN s : \/ Cardinality(new) <= room
                                       \/ s[i] \notin new
                                       \/ Cardinality(upTo(i)) <= room}}

\* Write val[c] to each cell c of s in turn.
Wrote(r, s, taken, val) ==
    [r EXCEPT !.w = [c \in DOMAIN @ \cup taken |-> IF c \in taken THEN val[c] ELSE @[c]],
              !.written = @ \cup taken,
              !.aired = @ \cup {c \in taken : val[c][1] = Air},
              !.refused = @ + Len(s) - Len(Only(s, taken))]

Write(r, s, val) ==
    LET inside == Only(s, DOMAIN r.w)
    IN IF r.dry THEN Wrote(r, s, ToSet(s), val) ELSE Wrote(r, inside, Accepted(r.w, inside), val)

Clear(r, c) == Write(r, <<c>>, [d \in {c} |-> <<Air, 0>>])

\* The first of each of s, in order.
Firsts(s) ==
    LET places == Only([i \in 1..Len(s) |-> i], {i \in 1..Len(s) : \A j \in 1..i - 1 : s[j] # s[i]})
    IN [i \in 1..Len(places) |-> s[places[i]]]

\* The expansion blocks s are lit: each once, not the one firing, none out of reach.
\* A fill also asks the zones; a blast already has.
FillsInReach == burn_reach - Extent

\* Mutant of lightNew: a chain of expansion blocks goes on however far it leads.
LightAnywhere(r, new, askZone) ==
    LET asked == Only(new, ToSet(new) \ IF askZone THEN r.prot ELSE {})
    IN [r EXCEPT !.lit = @ \cup ToSet(new),
                 !.queue = @ \o [i \in 1..Len(asked) |-> [at |-> asked[i], type |-> r.w[asked[i]][1]]]]

lightNew(r, new, askZone) ==
    LET asked == Only(new, ToSet(new) \ IF askZone THEN r.prot ELSE {})
        near == Only(asked, {c \in ToSet(asked) : Far(c, r.root) <= FillsInReach})
    IN [r EXCEPT !.lit = @ \cup ToSet(new),
                 !.hits = @ \cup (ToSet(new) \ ToSet(asked)),
                 !.truncated = @ + Len(asked) - Len(near),
                 !.queue = @ \o [i \in 1..Len(near) |-> [at |-> near[i], type |-> r.w[near[i]][1]]]]

light(r, s, askZone) ==
    lightNew([r EXCEPT !.refire = @ \/ r.firing \in ToSet(s)],
             Firsts(Only(s, ToSet(s) \ (r.lit \cup {r.firing}))), askZone)

-----------------------------------------------------------------------------
(* Blasts.  What a sample does depends on its own cell only. *)

Of(w, s, types) == {c \in ToSet(s) : Has(w, c, types)}

\* <<r, the TNT found>>; a coloured TNT paints, another destroys.
Hit(r, open, colour) ==
    LET painted == Only(open, {c \in ToSet(open) : Get(r.w, c) # <<Tnt, 0>>})
        torn == Only(open, ToSet(open) \ Of(r.w, open, {Tnt, Bedrock, Steel, Golden} \cup 81..111))
        kept(c) == IF Get(r.w, c) = Absent THEN PaintedBase ELSE r.w[c][1]
    IN IF colour # 0
       THEN <<Write(r, painted, [c \in ToSet(painted) |-> <<kept(c), colour>>]), <<>>>>
       ELSE <<light(Write(r, torn, [c \in ToSet(torn) |-> <<Air, 0>>]),
                    Only(open, Of(r.w, open, 81..111)), FALSE),
              Only(open, Of(r.w, open, {Tnt}))>>

HitOpen(r, cells, colour) == Hit(r, Only(cells, ToSet(cells) \ (r.prot \cup Of(r.w, cells, {Air}))), colour)

GoOff(r, n) ==
    LET cells == Only([i \in 1..Len(Sphere) |-> Sum3(n.at, Sphere[i])], InHeight)
        begun == [r EXCEPT !.explosions = @ + 1, !.visits = @ + 1 + Len(cells),
                           !.hits = @ \cup (ToSet(cells) \cap r.prot)]
    IN HitOpen(Clear(begun, n.at), cells, IF Get(r.w, n.at) = Absent THEN 0 ELSE r.w[n.at][2])

maxBlasts(max) == Max({1, max \div explode_visits_per_blast})

\* The TNT a blast found joins the stack while the budget has room; past the depth
\* guard it is the chain's natural end.
Linked(blast, n, work, max) ==
    LET found == IF n.depth + 1 > MaxDepth THEN <<>> ELSE blast[2]
        room == maxBlasts(max) - blast[1].explosions - Len(work)
        joined == Max({0, Min({room, Len(found)})})
    IN [r |-> [blast[1] EXCEPT !.truncated = @ + Len(found) - joined],
        work |-> work \o [i \in 1..joined |-> [at |-> found[i], depth |-> n.depth + 1]]]

\* The last on the stack goes off; there are as many as the budget buys, or fewer.
NextBlast(s) ==
    IF s.work = <<>> THEN s
    ELSE Linked(GoOff(s.r, Last(s.work)), Last(s.work), Front(s.work), s.r.max)

blastChain(s) ==
    LET after[n \in 0..maxBlasts(s.r.max)] == IF n = 0 THEN s ELSE NextBlast(after[n - 1])
    IN after[maxBlasts(s.r.max)].r

-----------------------------------------------------------------------------
(* Expansion blocks. *)

\* The box as the fill visits it: bounded by what the centre stands against, or whole.
BoxCells(c, lo, hi) ==
    LET within(i) ==
            /\ \A k \in 1..3 : Box[i][k] \in -lo[k]..hi[k]
            /\ IF i % 2 = 1 THEN c[2] + Box[i][2] > 0 ELSE c[2] + Box[i][2] < Height
        places == Only([i \in 1..Len(Box) |-> i], {i \in 1..Len(Box) : within(i)})
    IN [i \in 1..Len(places) |-> Sum3(c, Box[places[i]])]

Expanders(r, s) == Only(s, {c \in ToSet(s) : is_expansion(Drawn(r.w, c))})

\* Each cell of s: air outside the zones takes val[c], an expansion block is lit.
FillCells(r, s, val) ==
    LET air == Only(s, {c \in ToSet(s) : Drawn(r.w, c) = Air})
        free == Only(air, ToSet(air) \ r.prot)
        hit == [r EXCEPT !.visits = @ + Len(s), !.hits = @ \cup (ToSet(air) \cap r.prot)]
    IN light(Write(hit, free, val), Expanders(r, s), TRUE)

\* Whether a cell is in a corner column of the box, which a side variant leaves for its ramps.
Corner(c, d, t) == expansion_ramp(t) # 0 /\ Abs(d[1] - c[1]) + Abs(d[3] - c[3]) = 2 * Extent
Corners(c, box, t) == {d \in ToSet(box) : Corner(c, d, t)}

\* The box; TYPE_BLOCK_TNT puts air into air.
FillBox(r, inner, t, colour) ==
    IF expansion_material(t) = Air
    THEN light([r EXCEPT !.visits = @ + Len(inner)], Expanders(r, inner), TRUE)
    ELSE FillCells(r, inner, [d \in ToSet(inner) |-> <<expansion_material(t), colour>>])

\* The corner columns, each by what its faces are against.
FillRing(r, corners, t, colour) ==
    LET faces(d) == {f \in 1..4 : face_solid(Drawn(r.w, Sum3(d, Faces[f])), f)}
    IN FillCells(r, corners, [d \in ToSet(corners) |-> <<ramp_for_faces(expansion_ramp(t), faces(d)), colour>>])

\* Each sample of the corner columns that is air outside the zones looks at its four
\* faces: once where the ring takes the cell, again where it was refused or lies
\* outside the world and is still air when it comes round again.
RingLooks(r, filled, corners) ==
    4 * Cardinality({i \in 1..Len(corners) :
            /\ Drawn(filled.w, corners[i]) = Air
            /\ corners[i] \notin filled.prot
            /\ \/ Drawn(r.w, corners[i]) = Air
               \/ \A j \in 1..i - 1 : corners[j] # corners[i]})

\* Last, every expansion block in the whole box.
LightWhole(r, whole, looked) ==
    light([r EXCEPT !.visits = @ + looked + Len(whole)], Expanders(r, whole), TRUE)

Ringed(filled, c, box, t, colour) ==
    LET corners == Only(box, Corners(c, box, t))
        ring == FillRing(filled, corners, t, colour)
    IN LightWhole(ring, BoxCells(c, <<Extent, Extent, Extent>>, <<Extent, Extent, Extent>>),
                  RingLooks(ring, filled, corners))

fillWithin(r, c, box, t, colour) ==
    Ringed(FillBox(r, Only(box, ToSet(box) \ Corners(c, box, t)), t, colour), c, box, t, colour)

fill(r, c, t, colour) ==
    LET open(o) == IF Drawn(r.w, Sum3(c, o)) > 0 THEN 0 ELSE Extent
        floor == c[2] - 1 <= 0
        ceiling == c[2] + 1 = Height
        beyond == (IF floor THEN 0 ELSE 1) + (IF ceiling THEN 0 ELSE 1)
        lo == <<open(<<-1, 0, 0>>), IF floor THEN 0 ELSE open(<<0, -1, 0>>), open(<<0, 0, -1>>)>>
        hi == <<open(<<1, 0, 0>>), IF ceiling THEN 0 ELSE open(<<0, 1, 0>>), open(<<0, 0, 1>>)>>
    IN fillWithin([r EXCEPT !.visits = @ + 4 + beyond], c, BoxCells(c, lo, hi), t, colour)

\* The fill meets the block that fires and marks it; once that is emptied it fills
\* again, colourless, and so the centre becomes the material.
Refire(r, n) == [IF r.refire THEN fill(r, n.at, n.type, 0) ELSE r EXCEPT !.firing = Absent]

fire(r, n) ==
    LET begun == [r EXCEPT !.expansions = @ + 1, !.visits = @ + 1, !.firing = n.at, !.refire = FALSE]
    IN Refire(Clear(fill(begun, n.at, n.type, IF Get(r.w, n.at) = Absent THEN 0 ELSE r.w[n.at][2]), n.at), n)

\* Entry qi of the queue fires while the budget has a whole link left; no block is lit twice.
link(r, qi, rootQueued) ==
    CASE qi > Len(r.queue) -> r
      [] qi <= Len(r.queue) /\ ~(rootQueued /\ qi = 1) /\ r.visits + EXPAND_VISITS_PER_LINK > r.max ->
            [r EXCEPT !.truncated = @ + 1]
      [] OTHER -> fire(r, r.queue[qi])

expansions(r, rootQueued) ==
    LET after[qi \in 0..Cardinality(Cells)] == IF qi = 0 THEN r ELSE link(after[qi - 1], qi, rootQueued)
    IN after[Cardinality(Cells)]

-----------------------------------------------------------------------------
(* A burn, and the preview of a burn. *)

simExplode(r) == expansions(blastChain([r |-> r, work |-> <<[at |-> r.root, depth |-> 0]>>]), FALSE)

simBurn(w, c, max, prot, dry) ==
    LET r == Start(w, c, max, prot, dry)
        seen == [r EXCEPT !.visits = 1]
    IN IF c \in prot THEN [r EXCEPT !.hits = {c}]
       ELSE CASE Get(w, c) = Absent \/ Has(w, c, {Air}) -> seen
              [] Has(w, c, {Tnt}) -> simExplode(r)
              [] Has(w, c, 81..111) -> expansions(light(seen, <<c>>, FALSE), TRUE)
              [] OTHER -> Clear(seen, c)

Beside == <<<<1, 0, 0>>, <<-1, 0, 0>>, <<0, 0, 1>>, <<0, 0, -1>>, <<0, 1, 0>>, <<0, -1, 0>>>>

\* The blocks the fire reaches, in its order: it passes on from every flammable
\* block but an expansion block.
Caught(w, burning, c) ==
    LET fresh(o) == is_flammable(Drawn(w, Sum3(c, o))) /\ Sum3(c, o) \notin ToSet(burning)
        caught == IF is_expansion(Drawn(w, c)) THEN <<>> ELSE SelectSeq(Beside, fresh)
    IN [k \in 1..Len(caught) |-> Sum3(c, caught[k])]

PassedOn(w, burning, i) ==
    IF i > Len(burning) THEN burning ELSE burning \o Caught(w, burning, burning[i])

Spread(w, c) ==
    LET after[i \in 0..Cardinality(DOMAIN w)] == IF i = 0 THEN <<c>> ELSE PassedOn(w, after[i - 1], i)
    IN after[Cardinality(DOMAIN w)]

\* A burning block goes; TNT and expansion blocks go off on what is left of the budget.
Went(p, r) ==
    [p EXCEPT !.w = r.w, !.visits = @ + r.visits, !.cells = @ \cup r.written,
              !.touchesTnt = @ \/ r.explosions > 0 \/ \E d \in r.written : Has(r.w, d, {Tnt})]

BurnAway(p, c, max) ==
    LET t == Drawn(p.w, c)
    IN CASE (t = Tnt \/ is_expansion(t)) /\ p.visits < max ->
              Went(p, simBurn(p.w, c, max - p.visits, {}, TRUE))
         [] t > 0 /\ t # Tnt /\ ~is_expansion(t) ->
              [p EXCEPT !.w = [d \in DOMAIN @ \cup {c} |-> IF d = c THEN <<Air, 0>> ELSE @[d]]]
         [] OTHER -> p

\* The fire goes over what it reached; where nothing burns there is no fire.
Previewed(w, root, burning, max) ==
    FoldLeft(LAMBDA p, d : BurnAway(p, d, max),
             [w |-> w, flammable |-> TRUE, explosive |-> root \in {Tnt, Firework} \/ is_expansion(root),
              touchesTnt |-> \E i \in 1..Len(burning) : Drawn(w, burning[i]) \in {Tnt, 87},
              cells |-> ToSet(burning), visits |-> 0],
             burning)

preview_burn(w, c, max) ==
    IF is_flammable(Drawn(w, c))
    THEN Previewed(w, Drawn(w, c), Spread(w, c), max)
    ELSE [flammable |-> FALSE, explosive |-> FALSE, touchesTnt |-> FALSE, cells |-> {}]

\* burn_verdict: the burn goes ahead.
Allowed(tntOn, fireOn, p) == fireOn /\ (tntOn \/ ~p.touchesTnt)
=============================================================================
