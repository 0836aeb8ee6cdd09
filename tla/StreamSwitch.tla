---------------------------- MODULE StreamSwitch ----------------------------
(***************************************************************************)
(* What the deserializer promises to the capture side, without pipes,      *)
(* registers, channels or modes: streams are switched on and off in groups *)
(* by one call at a time; a call that succeeds has done what it was asked, *)
(* one that fails has taken nothing over, and neither of them interrupts   *)
(* the streams it is not about.  Power may be lost between calls.          *)
(***************************************************************************)
CONSTANT Stream        \* the streams that can be switched

VARIABLES
    on,                \* the streams that are on
    flowing,           \* the streams that arrive at the receiver
    asked              \* the streams the running call is about, {} if none runs

switchVars == <<on, flowing, asked>>

SwitchInit == on = {} /\ flowing = {} /\ asked = {}

Ask == asked = {} /\ asked' \in (SUBSET Stream) \ {{}} /\ UNCHANGED <<on, flowing>>

\* While a call runs its own streams come and go; a stream that is on but
\* was interrupted earlier may come back, none of the others is interrupted.
Switch ==
    /\ asked # {}
    /\ flowing' \in SUBSET (on \cup asked)
    /\ flowing \ asked \subseteq flowing'
    /\ UNCHANGED <<on, asked>>

TurnedOn  == asked \subseteq flowing /\ on' = on \cup asked
TurnedOff == asked \cap flowing = {} /\ on' = on \ asked
Refused   == flowing \subseteq on /\ on' = on

Answer ==
    /\ asked # {} /\ asked' = {}
    /\ TurnedOn \/ TurnedOff \/ Refused
    /\ UNCHANGED flowing

LosePower == asked = {} /\ flowing' = {} /\ UNCHANGED <<on, asked>>

SwitchNext == Ask \/ Switch \/ Answer \/ LosePower

SwitchSpec == SwitchInit /\ [][SwitchNext]_switchVars
=============================================================================
