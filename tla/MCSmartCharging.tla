---------------------------- MODULE MCSmartCharging ----------------------------
(* SmartCharging on a small instance: profile 1 is a default of the station,   *)
(* replaced by one with a window, profile 2 is for a transaction.              *)
EXTENDS SmartCharging

CONSTANTS alice, task1, task2

MCTags == {alice}
MCTasks == {task1, task2}
MCNone == {}

Profile(id, level, purpose, tx, from, to, unit) ==
    [id |-> id, stackLevel |-> level, purpose |-> purpose, transactionId |-> tx,
     validFrom |-> from, validTo |-> to, unit |-> unit]

MCProfiles ==
    {Profile(1, 1, "TxDefaultProfile", 0, -1, -1, "A"),
     Profile(1, 2, "ChargePointMaxProfile", 0, 1, 2, "W"),
     Profile(2, 2, "TxProfile", 1, -1, -1, "A")}
=============================================================================
