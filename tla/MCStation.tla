------------------------------ MODULE MCStation ------------------------------
(* Station on a small instance: model values for tags and tasks, and the     *)
(* symmetries of tasks and of tags, which only the safety runs use.          *)
EXTENDS Station, TLC

CONSTANTS alice, bob, task1, task2

MCTags == {alice, bob}
MCOneTag == {alice}
MCTwoTasks == {task1, task2}
MCOneTask == {task1}
MCOneId == {1}
MCTwoIds == {1, 2}
MCNone == {}

TaskSymmetry == Permutations(Task)
TagSymmetry == Permutations(IdTag)

-----------------------------------------------------------------------------
(* What the documentation says and the code does not do.                    *)

\* README.md, "Remote starts produce Preparing, StartTransaction, and Charging
\* transitions": a connector starts to charge out of Preparing only.
ChargingFollowsPreparing ==
    [][\A c \in Connector :
        status'[c] = "Charging" /\ status[c] # "Charging" => status[c] = "Preparing"]_vars
=============================================================================
