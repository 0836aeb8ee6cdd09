----------------------------- MODULE MCMaxDesBpp -----------------------------
(***************************************************************************)
(* Instances of MaxDesBpp: the combinations of bpps that the rules tell    *)
(* apart, accepted and refused.                                            *)
(***************************************************************************)
EXTENDS MaxDesBpp

MCLoads == {{}, {8}, {8, 16}, {10}, {10, 12}, {10, 20}, {12}, {16, 24}}
=============================================================================
