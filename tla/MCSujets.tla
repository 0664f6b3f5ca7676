------------------------------- MODULE MCSujets -------------------------------
(* Instances of Sujets for TLC. *)
EXTENDS Sujets, TLC

CONSTANTS r1, r2

DeuxRequetes == {r1, r2}

(* Deletions and archivals without the chat; the chat; the tasks. *)
Departs ==
    {[sujets |-> 3, taches |-> 1, chat |-> FALSE, mains |-> 2,
      operations |-> {"creer", "ajouter", "deplacer", "supprimer", "archiver", "desarchiver"}],
     [sujets |-> 3, taches |-> 0, chat |-> TRUE, mains |-> 1, operations |-> {"creer", "supprimer"}],
     [sujets |-> 2, taches |-> 1, chat |-> TRUE, mains |-> 2,
      operations |-> {"creer", "ajouter", "archiver", "desarchiver"}],
     [sujets |-> 2, taches |-> 2, chat |-> FALSE, mains |-> 2,
      operations |-> {"ajouter", "terminer", "convertir", "deplacer", "dupliquer", "regrouper",
                      "supprimer"}]}

================================================================================
