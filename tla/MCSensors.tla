----------------------------- MODULE MCSensors ------------------------------
(***************************************************************************)
(* Instances of Sensors: two modes, every driver or isx031 alone.          *)
(***************************************************************************)
EXTENDS Sensors

MCModes == {"1536p", "1080p"}
MCDefault == "1536p"
Isx031Only == {"isx031"}
=============================================================================
