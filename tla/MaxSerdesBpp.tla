---------------------------- MODULE MaxSerdesBpp ----------------------------
(***************************************************************************)
(* The bits-per-pixel rules of a GMSL2 pipe in pixel mode, which the       *)
(* serializer and the deserializer drivers both apply                      *)
(* (max_serdes_process_bpps): a pipe carries one constant bpp, so formats  *)
(* that share it are doubled or padded to a common one.                    *)
(***************************************************************************)
EXTENDS Naturals, FiniteSets

\* The bpps of max_serdes_mipi_formats; other data types have no bpp (NoBpp).
Bpps  == {8, 10, 12, 14, 16, 18, 20, 24}
NoBpp == 0

Least(S)    == CHOOSE x \in S : \A y \in S : x <= y
Greatest(S) == CHOOSE x \in S : \A y \in S : y <= x

\* Whether the hardware can double the lowest bpp of a pipe.
CanDouble(bpps) ==
    /\ bpps # {}
    /\ LET b == Least(bpps)
       IN  b = 8 \/ (b \in {10, 12} /\ bpps \subseteq {b, 2 * b})

\* The bpp that is doubled when the other side allows the bpps of "allowed".
Doubled(bpps, allowed) ==
    IF CanDouble(bpps) /\ Least(bpps) \in allowed THEN Least(bpps) ELSE NoBpp

\* The bpps on the wire once one of them is doubled.
AfterDoubling(bpps, doubled) ==
    IF doubled = NoBpp THEN bpps ELSE (bpps \ {doubled}) \cup {2 * doubled}

\* Whether max_serdes_process_bpps() accepts the combination.
Streamable(bpps, allowed) ==
    LET fits(low, high) == high <= 24 /\ (high <= 16 \/ (low > 16 /\ low = high))
        sendable(sent) == fits(Least(sent), Greatest(sent))
    IN  bpps = {} \/ sendable(AfterDoubling(bpps, Doubled(bpps, allowed)))
=============================================================================
