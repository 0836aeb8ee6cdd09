--------------------------- MODULE MCMax9xStreams ---------------------------
(***************************************************************************)
(* Instances of Max9xStreams: two cameras behind each deserializer, one of *)
(* them perhaps with two streams.                                          *)
(***************************************************************************)
EXTENDS Max9xStreams

\* Source streams 0 and 1 from a link each, swapped, or with a second stream
\* of the first link.
Straight == [s \in {0, 1} |-> <<s, 0>>]
Crossed  == [s \in {0, 1} |-> <<1 - s, 0>>]
Doubled  == [s \in {0, 1, 2} |-> IF s = 2 THEN <<0, 1>> ELSE <<s, 0>>]

Board(chip, streams, tables) ==
    [chip |-> chip, links |-> {0, 1}, serStreams |-> streams,
     default |-> Straight, routings |-> tables]

MCScenes == {Board(chip, {0}, {Straight, Crossed}) : chip \in {"max9296", "max96724"}}
       \cup {Board(chip, {0, 1}, {Doubled}) : chip \in {"max9296", "max96724"}}
=============================================================================
