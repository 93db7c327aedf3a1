------------------------------- MODULE OneShot -------------------------------
(***************************************************************************)
(* One invocation of a one-shot command of ocpp-cli, from its arguments to *)
(* its exit code: the command (App.Run and its handler), the goroutine     *)
(* that await starts for the request, and the central system.              *)
(*                                                                         *)
(* Commands differ in what they do with a connection:                      *)
(*   local        validate-config: none                                    *)
(*   probe        test-connection, status: opens and closes one            *)
(*   report       heartbeat, status-notification, ...: a request that the  *)
(*                confirmation cannot refuse                               *)
(*   request      boot-notification, authorize, data-transfer,             *)
(*                sign-certificate: one that it can refuse                 *)
(*   transaction  start-transaction, stop-transaction: likewise, and sent  *)
(*                only with --yes                                          *)
(* Of an error's text only what the exit code depends on is kept.          *)
(* Definitions marked "faulty variant" are no part of the specification.   *)
(***************************************************************************)
EXTENDS Classification

CONSTANT ErrorText \* bound: the texts of the errors that calls end with

\* "flagLike" has "is required" or "invalid value" in it, "timeoutLike" "timeout".
ASSUME ErrorTextAssumption == ErrorText \subseteq {"plain", "flagLike", "timeoutLike"}

VARIABLES
    command, \* which of the five the arguments name
    yes,     \* --yes
    dryRun,  \* --dry-run
    pc,      \* where the command is
    ctx,     \* the context of connect: "none", "live", "done" after --timeout
    link,    \* the connection: "none", "open", "closed"
    call,    \* where the goroutine of await is
    wire,    \* what the central system did with the request
    answer,  \* what the goroutine hands to await
    failure, \* the error the command returns
    rendered \* whether a result was written

commandVars == <<command, yes, dryRun>>
vars == <<commandVars, pc, ctx, link, call, wire, answer, failure, rendered>>

Handled == {"accepted", "refused", "failed"}
NoFailure == [class |-> "nil", text |-> "plain"]
NoAnswer == [kind |-> "none", text |-> "plain"]

TypeOK ==
    /\ command \in {"local", "probe", "report", "request", "transaction"}
    /\ yes \in BOOLEAN /\ dryRun \in BOOLEAN
    /\ pc \in {"parsing", "resolving", "creating", "connecting", "calling",
               "rendering", "returning", "exited"}
    /\ ctx \in {"none", "live", "done"}
    /\ link \in {"none", "open", "closed"}
    /\ call \in {"idle", "started", "sent", "answered"}
    /\ wire \in {"none", "sent"} \cup Handled
    /\ answer \in [kind : {"none", "accepted", "refused"} \cup ErrorKind,
                   text : {"plain"} \cup ErrorText]
    /\ failure \in [class : {"nil", "help", "plain", "ErrConfig", "ErrValidation", "ErrTimeout",
                             "ErrOutput", "ErrAuthSecurity", "ErrRejected", "ErrProtocol", "ErrConnection"},
                    text : {"plain", "flagLike"} \cup ErrorText]
    /\ rendered \in BOOLEAN

Init ==
    /\ command \in {"local", "probe", "report", "request", "transaction"}
    /\ yes \in BOOLEAN /\ dryRun \in BOOLEAN
    /\ command # "transaction" => ~yes /\ ~dryRun
    /\ pc = "parsing"
    /\ ctx = "none"
    /\ link = "none"
    /\ call = "idle"
    /\ wire = "none"
    /\ answer = NoAnswer
    /\ failure = NoFailure
    /\ rendered = FALSE

\* Faulty variant: a request error is taken for a usage error.
ExitCodeForUsage(error) ==
    IF error.text = "flagLike" \/ error.class = "ErrProtocol" THEN 2
    ELSE [nil |-> 0, help |-> 0, ErrConfig |-> 2, ErrValidation |-> 2, ErrTimeout |-> 8,
          ErrOutput |-> 9, ErrAuthSecurity |-> 5, ErrRejected |-> 7, ErrConnection |-> 3,
          plain |-> 1][error.class]
\* mapExitCode.  The text is looked at before the class.
ExitCode(error) ==
    IF error.text = "flagLike" THEN 2
    ELSE [nil |-> 0, help |-> 0, ErrConfig |-> 2, ErrValidation |-> 2, ErrTimeout |-> 8,
          ErrOutput |-> 9, ErrAuthSecurity |-> 5, ErrRejected |-> 7, ErrProtocol |-> 4,
          ErrConnection |-> 3, plain |-> 1][error.class]

\* classify, which looks for "timeout" in the text before it looks at the kind.
Classified(error, fallback) ==
    [class |-> Classify(IF error.text = "timeoutLike" THEN "timeout" ELSE error.kind, fallback),
     text  |-> error.text]

Errors(kinds) == [kind : kinds, text : ErrorText]

-----------------------------------------------------------------------------
(* The command.                                                             *)

Return(error) == pc' = "returning" /\ failure' = error

\* --help, an operation send does not know, a flag the parser refuses, or
\* arguments the handler refuses.
ParseFails ==
    /\ pc = "parsing"
    /\ \E error \in {[class |-> "help", text |-> "plain"], [class |-> "plain", text |-> "plain"],
                     [class |-> "plain", text |-> "flagLike"], [class |-> "ErrConfig", text |-> "plain"],
                     [class |-> "ErrConfig", text |-> "flagLike"]} : Return(error)
    /\ UNCHANGED <<commandVars, ctx, link, call, wire, answer, rendered>>

Parse ==
    /\ pc = "parsing"
    /\ pc' = "resolving"
    /\ UNCHANGED <<commandVars, ctx, link, call, wire, answer, failure, rendered>>

\* resolveCommon refuses the configuration or the format.
ResolveFails ==
    /\ pc = "resolving"
    /\ \E text \in {"plain", "flagLike"} : Return([class |-> "ErrConfig", text |-> text])
    /\ UNCHANGED <<commandVars, ctx, link, call, wire, answer, rendered>>

\* Faulty variant: the request is sent unless --dry-run is given.
MayExecuteByDefault == ~dryRun
\* safety.Resolve: without --yes a transaction is a dry run.
MayExecute == command = "transaction" => yes

\* The configuration is resolved, and after it the two flags.
Resolve ==
    /\ pc = "resolving"
    /\ IF yes /\ dryRun
       THEN Return([class |-> "ErrConfig", text |-> "plain"])
       ELSE /\ pc' = IF MayExecute /\ command # "local" THEN "creating" ELSE "rendering"
            /\ UNCHANGED failure
    /\ UNCHANGED <<commandVars, ctx, link, call, wire, answer, rendered>>

\* ocppclient.New fails: the configuration, or the certificates.
CreateFails ==
    /\ pc = "creating"
    /\ \E class \in {"ErrValidation", "ErrAuthSecurity"} : Return([class |-> class, text |-> "plain"])
    /\ UNCHANGED <<commandVars, ctx, link, call, wire, answer, rendered>>

\* The deadline is set here, before the connection is made.
Create ==
    /\ pc = "creating"
    /\ pc' = "connecting"
    /\ ctx' = "live"
    /\ UNCHANGED <<commandVars, link, call, wire, answer, failure, rendered>>

\* client.Connect finds the context done already, or cp.Start fails.
ConnectFails ==
    /\ pc = "connecting"
    /\ \/ ctx = "done" /\ Return([class |-> "ErrTimeout", text |-> "plain"])
       \/ \E error \in Errors(ErrorKind) : Return(Classified(error, "ErrConnection"))
    /\ UNCHANGED <<commandVars, ctx, link, call, wire, answer, rendered>>

\* Faulty variant: test-connection returns without Close.
ConnectUnclosed ==
    /\ pc = "connecting"
    /\ IF command = "probe"
       THEN link' = "open" /\ pc' = "rendering" /\ UNCHANGED call
       ELSE link' = "open" /\ pc' = "calling" /\ call' = "started"
    /\ UNCHANGED <<commandVars, ctx, wire, answer, failure, rendered>>
\* cp.Start succeeds, which takes no notice of the context.  test-connection
\* closes at once, the others start the request.
Connect ==
    /\ pc = "connecting"
    /\ IF command = "probe"
       THEN link' = "closed" /\ pc' = "rendering" /\ UNCHANGED call
       ELSE link' = "open" /\ pc' = "calling" /\ call' = "started"
    /\ UNCHANGED <<commandVars, ctx, wire, answer, failure, rendered>>

\* Faulty variant: the context is looked at only once there is an answer.
AwaitGivesUpLate ==
    /\ pc = "calling"
    /\ ctx = "done" /\ call = "answered"
    /\ Return(Classified([kind |-> "timeout", text |-> "plain"], "ErrProtocol"))
    /\ UNCHANGED <<commandVars, ctx, link, call, wire, answer, rendered>>
\* await gives up when the context is done, whatever the goroutine is doing.
AwaitGivesUp ==
    /\ pc = "calling"
    /\ ctx = "done"
    /\ Return(Classified([kind |-> "timeout", text |-> "plain"], "ErrProtocol"))
    /\ UNCHANGED <<commandVars, ctx, link, call, wire, answer, rendered>>

\* Faulty variant: a refused confirmation is returned before it is rendered.
TakeAnswerUnrendered ==
    /\ pc = "calling"
    /\ call = "answered"
    /\ CASE answer.kind = "accepted" -> pc' = "rendering" /\ UNCHANGED failure
         [] answer.kind = "refused" -> Return([class |-> "ErrRejected", text |-> "plain"])
         [] OTHER -> Return(Classified(answer, "ErrProtocol"))
    /\ UNCHANGED <<commandVars, ctx, link, call, wire, answer, rendered>>
\* The confirmation goes on to be rendered, a refused one with ErrRejected.
TakeAnswer ==
    /\ pc = "calling"
    /\ call = "answered"
    /\ CASE answer.kind = "accepted" -> pc' = "rendering" /\ UNCHANGED failure
         [] answer.kind = "refused" ->
              pc' = "rendering" /\ failure' = [class |-> "ErrRejected", text |-> "plain"]
         [] OTHER -> Return(Classified(answer, "ErrProtocol"))
    /\ UNCHANGED <<commandVars, ctx, link, call, wire, answer, rendered>>

\* Faulty variant: the error of the operation is dropped once it is rendered.
RenderForgetting ==
    /\ pc = "rendering"
    /\ rendered' = TRUE
    /\ Return(NoFailure)
    /\ UNCHANGED <<commandVars, ctx, link, call, wire, answer>>
Render ==
    /\ pc = "rendering"
    /\ rendered' = TRUE
    /\ Return(failure)
    /\ UNCHANGED <<commandVars, ctx, link, call, wire, answer>>

\* The error of the output takes the place of the operation's.
RenderFails ==
    /\ pc = "rendering"
    /\ Return([class |-> "ErrOutput", text |-> "plain"])
    /\ UNCHANGED <<commandVars, ctx, link, call, wire, answer, rendered>>

\* The deferred Close of the commands that send, then the exit.
Exit ==
    /\ pc = "returning"
    /\ pc' = "exited"
    /\ link' = IF command # "probe" /\ link = "open" THEN "closed" ELSE link
    /\ UNCHANGED <<commandVars, ctx, call, wire, answer, failure, rendered>>

Deadline ==
    /\ ctx = "live"
    /\ ctx' = "done"
    /\ UNCHANGED <<commandVars, pc, link, call, wire, answer, failure, rendered>>

-----------------------------------------------------------------------------
(* The goroutine of await, which outlives it, and the central system.       *)

\* The message is written, or not: it is not valid, or the connection is lost.
Send ==
    /\ call = "started"
    /\ call' = "sent"
    /\ wire' = "sent"
    /\ UNCHANGED <<commandVars, pc, ctx, link, answer, failure, rendered>>

SendFails ==
    /\ call = "started"
    /\ call' = "answered"
    /\ answer' \in Errors({"protocol", "network", "other"})
    /\ UNCHANGED <<commandVars, pc, ctx, link, wire, failure, rendered>>

\* The central system confirms, refuses in its confirmation, or answers with a
\* CALLERROR.
Handle ==
    /\ wire = "sent"
    /\ wire' \in IF command = "report" THEN {"accepted", "failed"} ELSE Handled
    /\ UNCHANGED <<commandVars, pc, ctx, link, call, answer, failure, rendered>>

ReplyArrives ==
    /\ call = "sent"
    /\ wire \in Handled
    /\ call' = "answered"
    /\ IF wire = "failed"
       THEN answer' \in Errors({"protocol"})
       ELSE answer' = [kind |-> wire, text |-> "plain"]
    /\ UNCHANGED <<commandVars, pc, ctx, link, wire, failure, rendered>>

\* The library's own timeout, or the connection is lost, before or after the
\* central system handled the request.
ReplyLost ==
    /\ call = "sent"
    /\ call' = "answered"
    /\ answer' \in Errors({"timeout", "network", "other"})
    /\ UNCHANGED <<commandVars, pc, ctx, link, wire, failure, rendered>>

-----------------------------------------------------------------------------
CommandStep ==
    \/ ParseFails \/ Parse \/ ResolveFails \/ Resolve \/ CreateFails \/ Create
    \/ ConnectFails \/ Connect \/ AwaitGivesUp \/ TakeAnswer
    \/ Render \/ RenderFails \/ Exit

Next ==
    /\ pc # "exited"
    /\ CommandStep \/ Deadline \/ Send \/ SendFails \/ Handle \/ ReplyArrives \/ ReplyLost

Spec == Init /\ [][Next]_vars

\* The command keeps running, cp.Start ends (the handshake has a time limit),
\* and the timer of the context fires.  Nothing is assumed of the central system.
Fairness == WF_vars(pc # "exited" /\ CommandStep) /\ WF_vars(pc # "exited" /\ Deadline)

FairSpec == Spec /\ Fairness

-----------------------------------------------------------------------------
(* Safety.                                                                  *)

exited == pc = "exited"
code == ExitCode(failure)

\* Exit code 0 is only given for what was done and shown: the request was sent,
\* handled and not refused, or the probe had its connection, or nothing was to
\* be sent; and the result was written.
SuccessIsHonest ==
    exited /\ code = 0 /\ failure.class # "help" =>
        /\ rendered
        /\ command \in {"report", "request"} \/ yes => wire = "accepted"
        /\ command = "probe" => link = "closed"

\* The exit code of a refused confirmation is given after the confirmation was
\* written, and only for a request that the central system refused.
RejectionIsRendered == exited /\ code = 7 => rendered /\ wire = "refused"

\* A transaction goes on the wire only with --yes and without --dry-run, on
\* whichever path the command and the goroutine take.
TransactionIsConfirmed == command = "transaction" /\ link # "none" => yes /\ ~dryRun

\* Every way out closes the connection that was opened.
ConnectionIsReleased == exited => link # "open"

\* README.md, exit code 4, "OCPP protocol or request error": a CALLERROR that
\* the command took as its answer is given that code, unless its text misleads.
CallErrorIsTold ==
    exited /\ wire = "failed" /\ answer = [kind |-> "protocol", text |-> "plain"] /\ ctx = "live"
        => code = 4

-----------------------------------------------------------------------------
(* Liveness, under Fairness.                                                *)

\* The command ends, if the central system never answers too.
EndIsReached == <>(pc = "exited")
=============================================================================
