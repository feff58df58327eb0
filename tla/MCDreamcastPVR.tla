--------------------------- MODULE MCDreamcastPVR ---------------------------
(* The instance of DreamcastPVR that TLC checks.                            *)
EXTENDS DreamcastPVR, TLC

=============================================================================
