------------------------------- MODULE MCMetering -------------------------------
(* Metering on a small instance.                                             *)
EXTENDS Metering, TLC

CONSTANTS alice, task1, task2

MCTags == {alice}
MCTasks == {task1, task2}
MCNone == {}
TaskSymmetry == Permutations(Task)
=============================================================================
