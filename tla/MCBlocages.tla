----------------------------- MODULE MCBlocages -----------------------------
(* Instances of Blocages for TLC: c works on the task, m manages the office *)
(* and works on the task too.                                               *)
EXTENDS Blocages, TLC

CONSTANTS c, m

LesUsers == {c, m}
LesManagers == {m}

=============================================================================
