--------------------------- MODULE MCOrganizerJobs ---------------------------
(* Instances of OrganizerJobs for TLC. *)
EXTENDS OrganizerJobs, TLC
=============================================================================
