---------------------------- MODULE MCStatusReports ----------------------------
(* StatusReports on one connector, where notifications of handlers, of a      *)
(* transaction and of the run loop overtake each other.                       *)
EXTENDS StatusReports

CONSTANTS alice, task1, courier1

MCTags == {alice}
MCTasks == {task1}
MCOneCourier == {courier1}
MCIds == {1}
MCNone == {}
=============================================================================
