--------------------------- MODULE MCPowerPointOpen ---------------------------
(* Instances of PowerPointOpen for TLC. *)
EXTENDS PowerPointOpen, TLC
=============================================================================
