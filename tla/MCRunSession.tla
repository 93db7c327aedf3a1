----------------------------- MODULE MCRunSession -----------------------------
(* RunSession on a small instance: two emitters and a channel that two events *)
(* fill.                                                                      *)
EXTENDS RunSession

CONSTANTS emitter1, emitter2

MCEmitters == {emitter1, emitter2}
MCOneEmitter == {emitter1}
MCErrors == ErrorKind

-----------------------------------------------------------------------------
(* What the documentation says and the code does not do.                    *)

\* README.md, exit code 3, "transport or connection error": when Run returned an
\* error, the process exits to report it.
FailureIsReported == pc = "returned" /\ outcome # "nil" ~> cli = "exited"
=============================================================================
