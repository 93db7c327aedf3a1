-------------------------------- MODULE MCJobs --------------------------------
(* Jobs on a small instance: jobs of all kinds, two goroutines at a time.     *)
EXTENDS Jobs

CONSTANTS worker1, worker2

MCWorkers == {worker1, worker2}
MCKinds == {"diagnostics", "firmware", "log", "signed"}
MCIds == {1, 2}
=============================================================================
