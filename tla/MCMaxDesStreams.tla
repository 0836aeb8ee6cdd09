-------------------------- MODULE MCMaxDesStreams --------------------------
(***************************************************************************)
(* Instances of MaxDesStreams: two links, the link 0 with two cameras.     *)
(***************************************************************************)
EXTENDS MaxDesStreams

To(l, s, h, n) == [sink |-> l, stream |-> s, phy |-> h, source |-> n]

\* Two cameras of link 0 and one of link 1 on one PHY; the second camera of
\* link 0 takes the first pipe and link 1 has a PHY of its own; test pattern.
MCRoutings ==
    {<<To(0, 0, 0, 0), To(0, 1, 0, 1), To(1, 0, 0, 2)>>,
     <<To(1, 0, 1, 0), To(0, 1, 0, 0)>>,
     <<To(Tpg, 0, 0, 0)>>}

\* The same but for link 1, which has two cameras and steals a pipe of link 0.
MCStealing == <<To(1, 0, 1, 0), To(1, 1, 1, 1), To(0, 1, 0, 0)>>
MCStealingRoutings ==
    {<<To(0, 0, 0, 0), To(0, 1, 0, 1), To(1, 0, 0, 2)>>, MCStealing, <<To(Tpg, 0, 0, 0)>>}

\* All of these.  Bound: the stealing table is not explored after a call has
\* failed, nor a call failing under it.
MCAllRoutings == MCRoutings \cup {MCStealing}
MCStealsCalmly == faults > 0 => routing # MCStealing

\* The cameras of a link are on channels of their own; the first camera of
\* link 1 can also be left out of the description.
MCFrameDescs ==
    {[x \in Links \X Streams |-> IF x = <<1, 0>> THEN v ELSE x[2]] : v \in {0, NoEntry}}

MCSerModes == [l \in Enabled |-> Modes]
MCSerPipes == [l \in Enabled |-> 2]

\* One link: both of its cameras, or the second one only.
MCLink0Routings == {<<To(0, 0, 0, 0), To(0, 1, 0, 1)>>, <<To(0, 1, 0, 0)>>}
MCPixelLink0 == [l \in Enabled |-> IF l = 0 THEN {"pixel"} ELSE Modes]
============================================================================
