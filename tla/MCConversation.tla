---------------------------- MODULE MCConversation ----------------------------
(* Instances of Conversation for TLC. *)
EXTENDS Conversation, TLC

CONSTANTS x, y, f1, f2, q1, q2

DeuxConv == {x, y}
UneConv == {x}
DeuxFils == {f1, f2}
DeuxRequetes == {q1, q2}

Scene(n, cs, o, k, m, s, a) ==
    [nature |-> n, convs |-> cs, ouvertures |-> o, coupures |-> k, messages |-> m,
     suppressions |-> s, anciens |-> a]

(* From one conversation to another and back; cuts; deletions; older pages. *)
Departs ==
    {Scene("dm", DeuxConv, 3, 0, 1, FALSE, FALSE)} \cup
    {Scene(n, UneConv, 1, 2, 2, FALSE, FALSE) : n \in {"bureau", "organizer"}} \cup
    {Scene("dm", UneConv, 2, 0, 1, TRUE, FALSE), Scene("dm", UneConv, 1, 1, 2, FALSE, TRUE),
     Scene("organizer", UneConv, 1, 0, 2, TRUE, TRUE),
     Scene("organizer", UneConv, 1, 1, 2, TRUE, FALSE)}
DepartCoupe == {Scene("bureau", UneConv, 1, 1, 2, FALSE, FALSE)}
Symetrie == Permutations(DeuxFils) \cup Permutations(DeuxRequetes)

================================================================================
