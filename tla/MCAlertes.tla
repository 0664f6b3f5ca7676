------------------------------- MODULE MCAlertes -------------------------------
(* Instance of Alertes for TLC. *)
EXTENDS Alertes

CONSTANTS r1, r2
DeuxRequetes == {r1, r2}

================================================================================
