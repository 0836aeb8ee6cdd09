--------------------------- MODULE MCMaxDesRemap ---------------------------
(***************************************************************************)
(* Small instances of MaxDesRemap: two links, and every valid routing      *)
(* table of up to MaxRoutes routes (test pattern included).                *)
(***************************************************************************)
EXTENDS MaxDesRemap, Functions

CONSTANTS MaxRoutes   \* bound on the length of a routing table

\* Source streams are numbered by position, only their being distinct matters;
\* the PHYs are interchangeable, so link 0 leaves through PHY 0.
Table(c, out) ==
    [k \in DOMAIN c |-> [sink |-> c[k][1], stream |-> c[k][2], phy |-> out[c[k][1]], source |-> k - 1]]

MCRoutings ==
    {Table(c, out) :
        c \in UNION {{f \in [1 .. n -> Links \X Streams] : IsInjective(f)} : n \in 1 .. MaxRoutes},
        out \in {f \in [Links -> Phys] : f[0] = 0}}
    \cup {<<[sink |-> Tpg, stream |-> 0, phy |-> 0, source |-> 0]>>}

\* Link 0 carries two sensors on one channel or on two, link 1 a third one;
\* a stream may be missing and a channel may be out of range.
MCFrameDescs ==
    {[x \in Links \X Streams |-> IF x = <<0, 0>> THEN 0 ELSE IF x[1] = 0 THEN v ELSE w] :
        v \in {0, 1, NoEntry}, w \in {0, NumVcs}}

MCSerModes == [l \in Enabled |-> IF l = 0 THEN {"pixel", "tunnel"} ELSE Modes]
MCPixelLink0 == [l \in Enabled |-> IF l = 0 THEN {"pixel"} ELSE Modes]
============================================================================
