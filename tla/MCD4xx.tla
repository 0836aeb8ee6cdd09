------------------------------- MODULE MCD4xx -------------------------------
(***************************************************************************)
(* An instance of D4xx for TLC: which calls are made together.             *)
(***************************************************************************)
EXTENDS D4xx

\* Two control handlers and an update; an update that is opened again; streams
\* with controls and format changes.
MCBudgets ==
    LET Of(c, v, u, s, f) == [control |-> c, video |-> v, update |-> u,
                              stream |-> s, format |-> f]
    IN  {Of(3, 0, 0, 0, 0), Of(1, 0, 2, 0, 0), Of(0, 2, 4, 0, 0),
         Of(1, 0, 0, 1, 0), Of(0, 0, 0, 2, 2), Of(0, 0, 0, 4, 1)}

=============================================================================
