----------------------------- MODULE CommandProofs -----------------------------
(* Proofs about a one-shot command: the settings it connects with, whatever    *)
(* the layers say (ConfigResolution), and what its exit code tells, whatever   *)
(* the texts of the errors (OneShot).                                          *)
EXTENDS OneShot, ConfigResolution, TLAPS

-----------------------------------------------------------------------------
(* The command on its way out (OneShot).                                    *)

\* The commands that send a request, once nothing holds them back.
Sends == command \in {"report", "request"} \/ yes

\* The connection is where the command is: none before it is made, open during the
\* call, and never open once the command has exited; only a command that may
\* execute makes one.
LinkFollowsCommand ==
    /\ pc \in {"parsing", "resolving", "creating"} => ctx = "none"
    /\ pc \in {"parsing", "resolving", "creating", "connecting"} => link = "none"
    /\ pc \in {"creating", "connecting"} \/ link # "none" => MayExecute /\ ~(yes /\ dryRun) /\ command # "local"
    /\ command = "probe" => link # "open"
    /\ pc = "calling" => link = "open"
    /\ pc = "exited" => link # "open"

\* The goroutine and the central system: there is a call only with a connection,
\* an answer only at its end, and a confirmation or a CALLERROR only of what was
\* handled that way.
AnswerFollowsWire ==
    /\ pc = "calling" => call # "idle"
    /\ pc \in {"parsing", "resolving", "creating", "connecting"} \/ command = "probe" => call = "idle"
    /\ call \in {"idle", "started"} => wire = "none"
    /\ call # "answered" => answer = NoAnswer
    /\ call = "answered" => answer.kind # "none"
    /\ answer.kind \in {"accepted", "refused"} => wire = answer.kind /\ call = "answered"
    /\ answer.kind = "protocol" => wire \in {"none", "failed"}

\* What may be rendered without an error.
Achieved ==
    /\ command = "probe" => link = "closed"
    /\ Sends => wire = "accepted"

\* The error the command goes out with says how it went.
FailureTellsOutcome ==
    /\ command # "transaction" => ~yes /\ ~dryRun
    /\ pc \in {"parsing", "resolving", "creating", "connecting", "calling"} =>
          failure = NoFailure /\ ~rendered
    /\ pc = "rendering" =>
          /\ call \in {"idle", "answered"}
          /\ \/ failure = NoFailure /\ Achieved
             \/ failure = [class |-> "ErrRejected", text |-> "plain"] /\ wire = "refused"
          /\ answer.kind \in {"none", "accepted", "refused"}
    /\ pc \in {"returning", "exited"} =>
          /\ failure.class = "nil" => failure.text = "plain" /\ rendered /\ Achieved
          /\ failure.class = "ErrRejected" => rendered /\ wire = "refused"
          /\ ctx # "done" => call \in {"idle", "answered"}
          /\ ctx # "done" /\ answer = [kind |-> "protocol", text |-> "plain"] =>
                failure = [class |-> "ErrProtocol", text |-> "plain"]

CommandInv == TypeOK /\ LinkFollowsCommand /\ AnswerFollowsWire /\ FailureTellsOutcome

-----------------------------------------------------------------------------
\* What classify makes of an error is neither success nor a rejection, and a
\* request error whose text does not mislead stays one.
LEMMA ClassifiedType ==
    ASSUME NEW error \in [kind : ErrorKind, text : ErrorText \cup {"plain"}],
           NEW fallback \in {"ErrConnection", "ErrProtocol"},
           NEW failed, failed = Classified(error, fallback)
    PROVE  /\ failed = [class |-> failed.class, text |-> error.text]
           /\ failed.class \in {"ErrTimeout", "ErrProtocol", "ErrConnection", "ErrAuthSecurity"}
           /\ error.kind = "protocol" /\ error.text = "plain" => failed.class = "ErrProtocol"
BY DEF Classified, Classify, ErrorKind

\* The outcome of a command that goes out with an error neither success nor a
\* rejection.
Failed(error) == error.class \notin {"nil", "ErrRejected"}

ErrorClass == {"nil", "help", "plain", "ErrConfig", "ErrValidation", "ErrTimeout", "ErrOutput",
               "ErrAuthSecurity", "ErrRejected", "ErrProtocol", "ErrConnection"}
FailureText == {"plain", "flagLike"} \cup ErrorText

\* Going out with such an error before there is a call keeps the invariant.
LEMMA EarlyReturnKeepsCommandInv ==
    ASSUME CommandInv, pc \in {"parsing", "resolving", "creating", "connecting"},
           NEW error \in [class : ErrorClass, text : FailureText], Failed(error), Return(error),
           UNCHANGED <<commandVars, ctx, link, call, wire, answer, rendered>>
    PROVE  CommandInv'
<1> USE DEF CommandInv
<1>1. answer = NoAnswer /\ call = "idle" /\ link = "none" /\ answer.kind = "none"
  BY DEF LinkFollowsCommand, AnswerFollowsWire, NoAnswer
<1>2. TypeOK'
  BY DEF TypeOK, Return, commandVars, ErrorClass, FailureText
<1>3. LinkFollowsCommand'
  BY <1>1 DEF LinkFollowsCommand, Return, commandVars, MayExecute
<1>4. AnswerFollowsWire'
  BY <1>1 DEF AnswerFollowsWire, Return, commandVars
<1>5. FailureTellsOutcome'
  BY <1>1 DEF FailureTellsOutcome, Return, commandVars, Failed
<1> QED
  BY <1>2, <1>3, <1>4, <1>5

\* Parsing, resolving and creating, as far as the connection.
LEMMA PreparationKeepsCommandInv ==
    ASSUME CommandInv,
           ParseFails \/ Parse \/ ResolveFails \/ Resolve \/ CreateFails \/ Create \/ ConnectFails
    PROVE  CommandInv'
<1>1. ASSUME NEW error \in [class : ErrorClass, text : FailureText], Failed(error), Return(error),
             pc \in {"parsing", "resolving", "creating", "connecting"},
             UNCHANGED <<commandVars, ctx, link, call, wire, answer, rendered>>
      PROVE  CommandInv'
  BY <1>1, EarlyReturnKeepsCommandInv
<1>2. CASE ParseFails
  BY <1>1, <1>2 DEF ParseFails, ErrorClass, FailureText, Failed
<1>3. CASE ResolveFails
  BY <1>1, <1>3 DEF ResolveFails, ErrorClass, FailureText, Failed
<1>4. CASE CreateFails
  BY <1>1, <1>4 DEF CreateFails, ErrorClass, FailureText, Failed
<1>5. CASE ConnectFails
  <2>1. CASE Return([class |-> "ErrTimeout", text |-> "plain"])
    BY <1>1, <1>5, <2>1 DEF ConnectFails, ErrorClass, FailureText, Failed
  <2>2. ASSUME NEW error \in Errors(ErrorKind), Return(Classified(error, "ErrConnection"))
        PROVE  CommandInv'
    <3> DEFINE failed == Classified(error, "ErrConnection")
    <3>1. error \in [kind : ErrorKind, text : ErrorText \cup {"plain"}] /\ error.text \in ErrorText
      BY DEF Errors
    <3>2. /\ failed = [class |-> failed.class, text |-> error.text]
          /\ failed.class \in {"ErrTimeout", "ErrProtocol", "ErrConnection", "ErrAuthSecurity"}
      BY <3>1, ClassifiedType
    <3> HIDE DEF failed
    <3>3. failed \in [class : ErrorClass, text : FailureText] /\ Failed(failed)
      BY <3>1, <3>2 DEF ErrorClass, FailureText, Failed
    <3> QED
      BY <1>1, <1>5, <2>2, <3>3 DEF ConnectFails, failed
  <2> QED
    BY <1>5, <2>1, <2>2 DEF ConnectFails
<1>6. CASE Parse
  BY <1>6 DEF Parse, CommandInv, TypeOK, LinkFollowsCommand, AnswerFollowsWire, FailureTellsOutcome,
      commandVars, MayExecute
<1>7. CASE Resolve
  <2>1. CASE yes /\ dryRun
    BY <1>1, <1>7, <2>1 DEF Resolve, ErrorClass, FailureText, Failed
  <2>2. CASE ~(yes /\ dryRun) /\ MayExecute /\ command # "local"
    BY <1>7, <2>2 DEF Resolve, CommandInv, TypeOK, LinkFollowsCommand, AnswerFollowsWire,
        FailureTellsOutcome, commandVars, MayExecute
  <2>3. CASE ~(yes /\ dryRun) /\ ~(MayExecute /\ command # "local")
    <3>1. /\ pc = "resolving" /\ pc' = "rendering" /\ UNCHANGED failure
          /\ UNCHANGED <<commandVars, ctx, link, call, wire, answer, rendered>>
      BY <1>7, <2>3 DEF Resolve
    <3>2. ~Sends /\ command # "probe"
      BY <2>3 DEF CommandInv, TypeOK, FailureTellsOutcome, MayExecute, Sends
    <3>3. TypeOK' /\ LinkFollowsCommand' /\ AnswerFollowsWire'
      BY <3>1 DEF CommandInv, TypeOK, LinkFollowsCommand, AnswerFollowsWire, commandVars, MayExecute
    <3>4. FailureTellsOutcome'
      BY <3>1, <3>2 DEF CommandInv, AnswerFollowsWire, FailureTellsOutcome, commandVars, Achieved,
          Sends, NoAnswer
    <3> QED
      BY <3>3, <3>4 DEF CommandInv
  <2> QED
    BY <2>1, <2>2, <2>3
<1>8. CASE Create
  BY <1>8 DEF Create, CommandInv, TypeOK, LinkFollowsCommand, AnswerFollowsWire, FailureTellsOutcome,
      commandVars, MayExecute
<1> QED
  BY <1>2, <1>3, <1>4, <1>5, <1>6, <1>7, <1>8

\* The connection is made, and closed or used.
LEMMA ConnectKeepsCommandInv ==
    ASSUME CommandInv, Connect
    PROVE  CommandInv'
<1>1. /\ pc = "connecting" /\ call = "idle" /\ answer = NoAnswer /\ wire = "none" /\ failure = NoFailure
      /\ MayExecute /\ command # "local" /\ UNCHANGED <<ctx, wire, answer, failure, rendered>>
      /\ UNCHANGED <<command, yes, dryRun>>
  BY DEF Connect, CommandInv, LinkFollowsCommand, AnswerFollowsWire, FailureTellsOutcome, commandVars
<1>2. CASE command = "probe"
  <2>1. link' = "closed" /\ pc' = "rendering" /\ call' = call
    BY <1>2 DEF Connect
  <2>2. ~Sends
    BY <1>2 DEF CommandInv, FailureTellsOutcome, Sends
  <2>3. TypeOK' /\ LinkFollowsCommand' /\ AnswerFollowsWire'
    BY <1>1, <1>2, <2>1 DEF CommandInv, TypeOK, LinkFollowsCommand, AnswerFollowsWire, MayExecute
  <2>4. FailureTellsOutcome'
    BY <1>1, <1>2, <2>1, <2>2 DEF CommandInv, FailureTellsOutcome, Achieved, Sends, NoAnswer
  <2> QED
    BY <2>3, <2>4 DEF CommandInv
<1>3. CASE command # "probe"
  BY <1>1, <1>3 DEF Connect, CommandInv, TypeOK, LinkFollowsCommand, AnswerFollowsWire,
      FailureTellsOutcome, MayExecute
<1> QED
  BY <1>2, <1>3

\* The end of the call: a deadline, an error, or a confirmation to render.
LEMMA CallEndKeepsCommandInv ==
    ASSUME CommandInv, AwaitGivesUp \/ TakeAnswer
    PROVE  CommandInv'
<1>1. /\ pc = "calling" /\ call # "idle" /\ link = "open" /\ MayExecute /\ ~(yes /\ dryRun)
      /\ command \notin {"local", "probe"} /\ failure = NoFailure /\ ~rendered
      /\ UNCHANGED <<command, yes, dryRun, ctx, link, call, wire, answer, rendered>>
  BY DEF AwaitGivesUp, TakeAnswer, CommandInv, LinkFollowsCommand, AnswerFollowsWire,
      FailureTellsOutcome, commandVars
<1>2. LinkFollowsCommand' /\ AnswerFollowsWire'
  <2>1. pc' \in {"rendering", "returning"}
    BY DEF AwaitGivesUp, TakeAnswer, Return
  <2> QED
    BY <1>1, <2>1 DEF CommandInv, LinkFollowsCommand, AnswerFollowsWire, MayExecute
<1>3. ASSUME NEW error \in [kind : ErrorKind, text : ErrorText \cup {"plain"}],
             Return(Classified(error, "ErrProtocol")),
             ctx = "done" \/ (call = "answered" /\ answer = error)
      PROVE  TypeOK' /\ FailureTellsOutcome'
  <2> DEFINE failed == Classified(error, "ErrProtocol")
  <2>1. /\ failed = [class |-> failed.class, text |-> error.text]
        /\ failed.class \in {"ErrTimeout", "ErrProtocol", "ErrConnection", "ErrAuthSecurity"}
        /\ error.kind = "protocol" /\ error.text = "plain" => failed.class = "ErrProtocol"
    BY ClassifiedType
  <2>2. pc' = "returning" /\ failure' = failed
    BY <1>3 DEF Return
  <2> HIDE DEF failed
  <2>3. TypeOK'
    BY <1>1, <2>1, <2>2 DEF CommandInv, TypeOK
  <2>4. FailureTellsOutcome'
    BY <1>1, <1>3, <2>1, <2>2 DEF CommandInv, FailureTellsOutcome
  <2> QED
    BY <2>3, <2>4
<1>4. CASE AwaitGivesUp
  <2>1. PICK error \in [kind : ErrorKind, text : ErrorText \cup {"plain"}] :
          error = [kind |-> "timeout", text |-> "plain"]
    BY DEF ErrorKind
  <2>2. ctx = "done" /\ Return(Classified(error, "ErrProtocol"))
    BY <1>4, <2>1 DEF AwaitGivesUp
  <2> QED
    BY <1>2, <1>3, <2>2 DEF CommandInv
<1>5. CASE TakeAnswer /\ answer.kind = "accepted"
  <2>1. /\ call = "answered" /\ pc' = "rendering" /\ failure' = failure /\ wire = "accepted"
    BY <1>5 DEF TakeAnswer, CommandInv, AnswerFollowsWire
  <2> QED
    BY <1>1, <1>2, <1>5, <2>1 DEF CommandInv, TypeOK, FailureTellsOutcome, Achieved
<1>6. CASE TakeAnswer /\ answer.kind = "refused"
  <2>1. /\ call = "answered" /\ pc' = "rendering" /\ wire = "refused"
        /\ failure' = [class |-> "ErrRejected", text |-> "plain"]
    BY <1>6 DEF TakeAnswer, CommandInv, AnswerFollowsWire
  <2> QED
    BY <1>1, <1>2, <1>6, <2>1 DEF CommandInv, TypeOK, FailureTellsOutcome, Achieved
<1>7. CASE TakeAnswer /\ answer.kind \notin {"accepted", "refused"}
  <2>1. call = "answered" /\ Return(Classified(answer, "ErrProtocol"))
    BY <1>7 DEF TakeAnswer
  <2>2. answer \in [kind : ErrorKind, text : ErrorText \cup {"plain"}]
    BY <1>7, <2>1 DEF CommandInv, TypeOK, AnswerFollowsWire
  <2> QED
    BY <1>2, <1>3, <2>1, <2>2 DEF CommandInv
<1> QED
  BY <1>4, <1>5, <1>6, <1>7


\* The result is written, or not, and the command exits.
LEMMA WayOutKeepsCommandInv ==
    ASSUME CommandInv, Render \/ RenderFails \/ Exit
    PROVE  CommandInv'
<1> USE DEF CommandInv
<1>1. CASE Render \/ RenderFails
  <2>1. /\ pc = "rendering" /\ pc' = "returning"
        /\ UNCHANGED <<command, yes, dryRun, ctx, link, call, wire, answer>>
        /\ \/ failure' = failure /\ rendered' = TRUE
           \/ failure' = [class |-> "ErrOutput", text |-> "plain"] /\ rendered' = rendered
    BY <1>1 DEF Render, RenderFails, Return, commandVars
  <2>2. TypeOK'
    <3>1. rendered' \in BOOLEAN
      BY <2>1 DEF TypeOK
    <3>2. failure' \in [class : ErrorClass, text : FailureText]
      BY <2>1 DEF TypeOK, ErrorClass, FailureText
    <3> QED
      BY <2>1, <3>1, <3>2 DEF TypeOK, ErrorClass, FailureText
  <2>3. LinkFollowsCommand' /\ AnswerFollowsWire'
    BY <2>1 DEF LinkFollowsCommand, AnswerFollowsWire, MayExecute
  <2>4. FailureTellsOutcome'
    BY <2>1 DEF FailureTellsOutcome, Achieved, Sends, NoFailure
  <2> QED
    BY <2>2, <2>3, <2>4
<1>2. CASE Exit
  <2>1. /\ pc = "returning" /\ pc' = "exited"
        /\ UNCHANGED <<command, yes, dryRun, ctx, call, wire, answer, failure, rendered>>
        /\ link' = IF command # "probe" /\ link = "open" THEN "closed" ELSE link
    BY <1>2 DEF Exit, commandVars
  <2>2. TypeOK' /\ LinkFollowsCommand' /\ AnswerFollowsWire'
    BY <2>1 DEF TypeOK, LinkFollowsCommand, AnswerFollowsWire, MayExecute
  <2>3. FailureTellsOutcome'
    BY <2>1 DEF FailureTellsOutcome, Achieved, Sends
  <2> QED
    BY <2>2, <2>3
<1> QED
  BY <1>1, <1>2

\* The deadline passes.
LEMMA DeadlineKeepsCommandInv ==
    ASSUME CommandInv, Deadline
    PROVE  CommandInv'
BY DEF Deadline, CommandInv, TypeOK, LinkFollowsCommand, AnswerFollowsWire, FailureTellsOutcome,
    commandVars, MayExecute, Achieved, Sends

\* The goroutine of await and the central system: what happens to a request the
\* command has given up changes nothing of what it goes out with.
LEMMA RequestKeepsCommandInv ==
    ASSUME CommandInv, Send \/ SendFails \/ Handle \/ ReplyArrives \/ ReplyLost
    PROVE  CommandInv'
<1> USE DEF CommandInv
<1>1. UNCHANGED <<command, yes, dryRun, pc, ctx, link, failure, rendered>>
  BY DEF Send, SendFails, Handle, ReplyArrives, ReplyLost, commandVars
<1>2. LinkFollowsCommand'
  BY <1>1 DEF LinkFollowsCommand, MayExecute
<1>3. CASE Send
  <2>1. call = "started" /\ wire = "none" /\ call' = "sent" /\ wire' = "sent" /\ answer' = answer
        /\ answer = NoAnswer
    BY <1>3 DEF Send, AnswerFollowsWire
  <2> QED
    BY <1>1, <1>2, <2>1 DEF TypeOK, AnswerFollowsWire, FailureTellsOutcome, Achieved, Sends, NoAnswer
<1>4. ASSUME NEW kinds \in SUBSET ErrorKind, answer' \in Errors(kinds), call' = "answered",
             \/ call = "started" /\ wire' = wire
             \/ call = "sent" /\ wire' = wire /\ ("protocol" \in kinds => wire = "failed")
      PROVE  CommandInv'
  <2>1. answer'.kind \in kinds /\ answer'.text \in ErrorText
        /\ answer' = [kind |-> answer'.kind, text |-> answer'.text]
    BY <1>4 DEF Errors
  <2>2. answer'.kind \notin {"none", "accepted", "refused"}
    BY <2>1 DEF ErrorKind
  <2>3. TypeOK'
    BY <1>1, <1>4, <2>1 DEF TypeOK
  <2>4. AnswerFollowsWire'
    BY <1>1, <1>4, <2>1, <2>2 DEF AnswerFollowsWire
  <2>5. FailureTellsOutcome'
    BY <1>1, <1>4 DEF FailureTellsOutcome, Achieved, Sends
  <2> QED
    BY <1>2, <2>3, <2>4, <2>5
<1>5. CASE SendFails
  <2>1. {"protocol", "network", "other"} \in SUBSET ErrorKind
    BY DEF ErrorKind
  <2> QED
    BY <1>4, <1>5, <2>1 DEF SendFails
<1>6. CASE Handle
  <2>1. /\ wire = "sent" /\ wire' \in Handled /\ call' = call /\ answer' = answer
    BY <1>6 DEF Handle, Handled
  <2> QED
    BY <1>1, <1>2, <2>1 DEF TypeOK, AnswerFollowsWire, FailureTellsOutcome, Achieved, Sends, Handled,
        NoAnswer
<1>7. CASE ReplyArrives /\ wire = "failed"
  <2>1. {"protocol"} \in SUBSET ErrorKind
    BY DEF ErrorKind
  <2> QED
    BY <1>4, <1>7, <2>1 DEF ReplyArrives
<1>8. CASE ReplyArrives /\ wire # "failed"
  <2>1. /\ call = "sent" /\ call' = "answered" /\ wire' = wire /\ wire \in {"accepted", "refused"}
        /\ answer' = [kind |-> wire, text |-> "plain"]
    BY <1>8 DEF ReplyArrives, Handled
  <2> QED
    BY <1>1, <1>2, <2>1 DEF TypeOK, AnswerFollowsWire, FailureTellsOutcome, Achieved, Sends, Handled
<1>9. CASE ReplyLost
  <2>1. {"timeout", "network", "other"} \in SUBSET ErrorKind
    BY DEF ErrorKind
  <2> QED
    BY <1>4, <1>9, <2>1 DEF ReplyLost
<1> QED
  BY <1>3, <1>5, <1>6, <1>7, <1>8, <1>9

LEMMA CommandInvHolds == Spec => []CommandInv
<1>1. ASSUME Init PROVE CommandInv
  <2>1. TypeOK
    BY <1>1 DEF Init, TypeOK, NoAnswer, NoFailure
  <2>2. LinkFollowsCommand /\ AnswerFollowsWire /\ FailureTellsOutcome
    BY <1>1 DEF Init, LinkFollowsCommand, AnswerFollowsWire, FailureTellsOutcome, NoAnswer
  <2> QED
    BY <2>1, <2>2 DEF CommandInv
<1>2. CommandInv /\ [Next]_vars => CommandInv'
  <2> SUFFICES ASSUME CommandInv, [Next]_vars PROVE CommandInv'
    OBVIOUS
  <2>1. CASE CommandStep
    BY <2>1, PreparationKeepsCommandInv, ConnectKeepsCommandInv, CallEndKeepsCommandInv,
       WayOutKeepsCommandInv DEF CommandStep
  <2>2. CASE UNCHANGED vars
    BY <2>2 DEF vars, commandVars, CommandInv, TypeOK, LinkFollowsCommand, AnswerFollowsWire,
        FailureTellsOutcome, Achieved, Sends, MayExecute
  <2> QED
    BY <2>1, <2>2, DeadlineKeepsCommandInv, RequestKeepsCommandInv DEF Next
<1> QED
  BY <1>1, <1>2, PTL DEF Spec

-----------------------------------------------------------------------------
\* What the exit codes come from: 0 only from no error or a request for help, 7
\* only from a rejection, whatever the text says otherwise.
LEMMA ExitCodesTell ==
    ASSUME NEW error \in [class : ErrorClass, text : FailureText]
    PROVE  /\ ExitCode(error) = 0 /\ error.class # "help" => error.class = "nil"
           /\ ExitCode(error) = 7 => error.class = "ErrRejected"
           /\ error = [class |-> "ErrProtocol", text |-> "plain"] => ExitCode(error) = 4
BY DEF ExitCode, ErrorClass, FailureText

LEMMA FailureType ==
    ASSUME TypeOK
    PROVE  failure \in [class : ErrorClass, text : FailureText]
BY DEF TypeOK, ErrorClass, FailureText

\* Exit code 0 is given for nothing but what was done and shown, whatever errors
\* calls end with and whenever the deadline passes.
THEOREM ZeroIsEarned == Spec => []SuccessIsHonest
<1>1. ASSUME CommandInv PROVE SuccessIsHonest
  BY <1>1, FailureType, ExitCodesTell
     DEF SuccessIsHonest, CommandInv, FailureTellsOutcome, Achieved, Sends, LinkFollowsCommand, exited, code
<1> QED
  BY <1>1, CommandInvHolds, PTL

\* Exit code 7 is given for nothing but a refusal that was sent by the central
\* system and shown to the user.
THEOREM SevenIsARejection == Spec => []RejectionIsRendered
<1>1. ASSUME CommandInv PROVE RejectionIsRendered
  BY <1>1, FailureType, ExitCodesTell
     DEF RejectionIsRendered, CommandInv, FailureTellsOutcome, exited, code
<1> QED
  BY <1>1, CommandInvHolds, PTL

\* No transaction goes on the wire unconfirmed.
THEOREM NothingUnconfirmedIsSent == Spec => []TransactionIsConfirmed
<1>1. ASSUME CommandInv PROVE TransactionIsConfirmed
  BY <1>1 DEF TransactionIsConfirmed, CommandInv, LinkFollowsCommand, MayExecute, TypeOK
<1> QED
  BY <1>1, CommandInvHolds, PTL

\* No way out leaves the connection open.
THEOREM NoConnectionIsLeft == Spec => []ConnectionIsReleased
<1>1. ASSUME CommandInv PROVE ConnectionIsReleased
  BY <1>1 DEF ConnectionIsReleased, CommandInv, LinkFollowsCommand, exited
<1> QED
  BY <1>1, CommandInvHolds, PTL

\* A CALLERROR that the command took as its answer ends in exit code 4.
THEOREM FourIsACallError == Spec => []CallErrorIsTold
<1>1. ASSUME CommandInv PROVE CallErrorIsTold
  BY <1>1, FailureType, ExitCodesTell
     DEF CallErrorIsTold, CommandInv, FailureTellsOutcome, exited, code
<1> QED
  BY <1>1, CommandInvHolds, PTL

-----------------------------------------------------------------------------
(* The settings on their way into the connection (ConfigResolution).        *)

\* What the layers of the file make of a setting, the profile over the top.
FromFile(s) ==
    IF s \in said["profile"] THEN "profile" ELSE IF s \in said["file"] THEN "file" ELSE DefaultConfig[s]

\* What the flags make of that.
FromFlags(s) ==
    IF s \in FlagSetting /\ flags[s] # "unset" THEN IF flags[s] = "given" THEN "flag" ELSE ""
    ELSE IF \E f \in DOMAIN Inline : flags[f] # "unset" /\ s = Inline[f] THEN ""
    ELSE FromFile(s)

\* The configuration is what the layers read so far make of it, whole; it is valid
\* once the command connects, and what is presented comes from it.
ConfigInv ==
    /\ said \in [{"file", "profile"} -> SUBSET Setting]
    /\ flags \in [FlagSetting -> {"unset", "given", "empty"}]
    /\ stage \in {"loading", "selecting", "validating", "flags"} =>
          /\ flags = [s \in FlagSetting |-> "unset"]
          /\ cfg = [s \in Setting |-> FromFile(s)]
    /\ stage = "loading" => said["file"] = {}
    /\ stage \in {"loading", "selecting"} => said["profile"] = {}
    /\ stage \in {"checking", "connecting", "connected"} => cfg = [s \in Setting |-> FromFlags(s)]
    /\ stage \in {"connecting", "connected"} => Valid
    /\ stage = "connected" =>
          presented = [station |-> cfg["charge_point_id"],
                       client |-> cfg[FileFirst("client_cert", "client_cert_base64")],
                       ca |-> cfg[FileFirst("ca_cert", "ca_cert_base64")]]

LEMMA LoadingKeepsConfigInv ==
    ASSUME ConfigInv, NEW settings \in SUBSET Setting, LoadFile(settings) \/ ApplyProfile(settings)
    PROVE  ConfigInv'
<1>1. CASE LoadFile(settings)
  <2>1. /\ stage = "loading" /\ stage' = "selecting" /\ flags' = flags
        /\ said' = [said EXCEPT !["file"] = settings]
        /\ cfg' = [s \in Setting |-> IF s \in settings THEN "file" ELSE cfg[s]]
    BY <1>1 DEF LoadFile, Apply, Goto
  <2>2. said["file"] = {} /\ said["profile"] = {} /\ cfg = [s \in Setting |-> FromFile(s)]
    BY <2>1 DEF ConfigInv
  <2>3. said' \in [{"file", "profile"} -> SUBSET Setting] /\ said'["file"] = settings /\ said'["profile"] = {}
    BY <2>1, <2>2 DEF ConfigInv
  <2>4. \A s \in Setting : cfg'[s] = FromFile(s)'
    BY <2>1, <2>2, <2>3 DEF FromFile
  <2>5. cfg' = [s \in Setting |-> FromFile(s)']
    BY <2>1, <2>4
  <2> QED
    BY <2>1, <2>3, <2>5 DEF ConfigInv
<1>2. CASE ApplyProfile(settings)
  <2>1. /\ stage = "selecting" /\ stage' = "validating" /\ flags' = flags
        /\ said' = [said EXCEPT !["profile"] = settings]
        /\ cfg' = [s \in Setting |-> IF s \in settings THEN "profile" ELSE cfg[s]]
    BY <1>2 DEF ApplyProfile, Apply, Goto
  <2>2. said["profile"] = {} /\ cfg = [s \in Setting |-> FromFile(s)]
    BY <2>1 DEF ConfigInv
  <2>3. /\ said' \in [{"file", "profile"} -> SUBSET Setting]
        /\ said'["file"] = said["file"] /\ said'["profile"] = settings
    BY <2>1 DEF ConfigInv
  <2>4. \A s \in Setting : cfg'[s] = FromFile(s)'
    BY <2>1, <2>2, <2>3 DEF FromFile
  <2>5. cfg' = [s \in Setting |-> FromFile(s)']
    BY <2>1, <2>4
  <2> QED
    BY <2>1, <2>3, <2>5 DEF ConfigInv
<1> QED
  BY <1>1, <1>2

\* What is read off settings that stay the same stays the same.
LEMMA SameSettings ==
    ASSUME UNCHANGED <<said, flags, cfg>>
    PROVE  /\ \A s \in Setting : FromFile(s)' = FromFile(s) /\ FromFlags(s)' = FromFlags(s)
           /\ Valid' <=> Valid
           /\ \A file, inline : FileFirst(file, inline)' = FileFirst(file, inline)
BY DEF FromFile, FromFlags, Valid, FileFirst, Given

\* The stages that change no setting.
LEMMA PassingKeepsConfigInv ==
    ASSUME ConfigInv, SkipFile \/ LoadFails \/ NoProfiles \/ Validate \/ TLSFails
    PROVE  ConfigInv'
<1>1. /\ UNCHANGED <<said, flags, cfg, presented>>
      /\ \/ stage = "loading" /\ stage' = "flags"
         \/ stage' = "refused"
         \/ stage = "selecting" /\ stage' = "validating"
         \/ stage = "validating" /\ stage' = "flags"
         \/ stage = "checking" /\ stage' = "connecting" /\ Valid
  BY DEF SkipFile, LoadFails, NoProfiles, Validate, TLSFails, Refuse, Goto
<1>2. Valid' <=> Valid
  BY <1>1, SameSettings
<1>3. cfg = [s \in Setting |-> FromFile(s)] => cfg' = [s \in Setting |-> FromFile(s)']
  BY <1>1, SameSettings
<1>4. cfg = [s \in Setting |-> FromFlags(s)] => cfg' = [s \in Setting |-> FromFlags(s)']
  BY <1>1, SameSettings
<1> QED
  BY <1>1, <1>2, <1>3, <1>4 DEF ConfigInv

LEMMA FlagsKeepConfigInv ==
    ASSUME ConfigInv, NEW given \in [FlagSetting -> {"unset", "given", "empty"}], ResolveFlags(given)
    PROVE  ConfigInv'
<1> DEFINE named == {s \in FlagSetting : given[s] # "unset"}
<1>1. /\ stage = "flags" /\ stage' = "checking" /\ flags' = given /\ said' = said
      /\ cfg' = [s \in Setting |->
                   IF s \in named THEN IF given[s] = "given" THEN "flag" ELSE ""
                   ELSE IF s \in {Inline[f] : f \in named \cap DOMAIN Inline} THEN ""
                   ELSE cfg[s]]
  BY DEF ResolveFlags, Goto
<1>2. cfg = [s \in Setting |-> FromFile(s)]
  BY <1>1 DEF ConfigInv
<1>3. DOMAIN Inline \subseteq FlagSetting
  BY DEF Inline, FlagSetting
<1>4. ASSUME NEW s \in Setting PROVE cfg'[s] = FromFlags(s)'
  <2>1. FromFile(s)' = FromFile(s)
    BY <1>1 DEF FromFile
  <2>2. s \in {Inline[f] : f \in named \cap DOMAIN Inline}
          <=> \E f \in DOMAIN Inline : given[f] # "unset" /\ s = Inline[f]
    BY <1>3
  <2>3. s \in named <=> s \in FlagSetting /\ given[s] # "unset"
    OBVIOUS
  <2> HIDE DEF named
  <2> QED
    BY <1>1, <1>2, <2>1, <2>2, <2>3 DEF FromFlags
<1>5. cfg' = [s \in Setting |-> FromFlags(s)']
  BY <1>1, <1>4
<1> QED
  BY <1>1, <1>5 DEF ConfigInv

LEMMA ConfigInvHolds == ConfigSpec => []ConfigInv
<1>1. ASSUME ConfigInit PROVE ConfigInv
  BY <1>1 DEF ConfigInit, ConfigInv, FromFile, DefaultConfig
<1>2. ConfigInv /\ [ConfigNext]_configVars => ConfigInv'
  <2> SUFFICES ASSUME ConfigInv, [ConfigNext]_configVars PROVE ConfigInv'
    OBVIOUS
  <2>1. CASE BuildTLSConfig \/ UNCHANGED configVars
    <3>1. /\ UNCHANGED <<said, flags, cfg>>
          /\ \/ stage' = stage /\ presented' = presented
             \/ /\ stage = "connecting" /\ stage' = "connected"
                /\ presented' = [station |-> cfg["charge_point_id"],
                                 client |-> cfg[FileFirst("client_cert", "client_cert_base64")],
                                 ca |-> cfg[FileFirst("ca_cert", "ca_cert_base64")]]
      BY <2>1 DEF BuildTLSConfig, Goto, configVars
    <3>2. /\ Valid' <=> Valid
          /\ FileFirst("client_cert", "client_cert_base64")' = FileFirst("client_cert", "client_cert_base64")
          /\ FileFirst("ca_cert", "ca_cert_base64")' = FileFirst("ca_cert", "ca_cert_base64")
      BY <3>1, SameSettings
    <3>3. cfg = [s \in Setting |-> FromFile(s)] => cfg' = [s \in Setting |-> FromFile(s)']
      BY <3>1, SameSettings
    <3>4. cfg = [s \in Setting |-> FromFlags(s)] => cfg' = [s \in Setting |-> FromFlags(s)']
      BY <3>1, SameSettings
    <3> QED
      BY <3>1, <3>2, <3>3, <3>4 DEF ConfigInv
  <2> QED
    BY <2>1, LoadingKeepsConfigInv, PassingKeepsConfigInv, FlagsKeepConfigInv DEF ConfigNext
<1> QED
  BY <1>1, <1>2, PTL DEF ConfigSpec

-----------------------------------------------------------------------------
\* What the flags make of a setting with an inline form, and of that form.
LEMMA FlagTakesBothForms ==
    /\ \A s \in FlagSetting : flags[s] # "unset" => FromFlags(s) = IF flags[s] = "given" THEN "flag" ELSE ""
    /\ \A s \in DOMAIN Inline : flags[s] # "unset" => FromFlags(Inline[s]) = ""
    /\ \A s \in DOMAIN Inline : flags[s] = "unset" =>
          FromFlags(s) = FromFile(s) /\ FromFlags(Inline[s]) = FromFile(Inline[s])
    /\ flags["charge_point_id"] = "unset" => FromFlags("charge_point_id") = FromFile("charge_point_id")
<1>1. /\ DOMAIN Inline = {"ca_cert", "client_cert", "client_key"}
      /\ Inline["ca_cert"] = "ca_cert_base64" /\ Inline["client_cert"] = "client_cert_base64"
      /\ Inline["client_key"] = "client_key_base64"
  BY DEF Inline
<1>2. \A f, g \in DOMAIN Inline : Inline[f] \notin FlagSetting /\ (Inline[f] = Inline[g] => f = g)
  BY <1>1 DEF FlagSetting
<1>3. \A f \in DOMAIN Inline, s \in FlagSetting : s # Inline[f]
  BY <1>2
<1>4. "charge_point_id" \in FlagSetting /\ DOMAIN Inline \subseteq FlagSetting
  BY <1>1 DEF FlagSetting
<1>5. \A s \in FlagSetting : flags[s] # "unset" => FromFlags(s) = IF flags[s] = "given" THEN "flag" ELSE ""
  BY DEF FromFlags
<1>6. \A s \in FlagSetting : flags[s] = "unset" => FromFlags(s) = FromFile(s)
  BY <1>3 DEF FromFlags
<1>7. \A s \in DOMAIN Inline : flags[s] # "unset" => FromFlags(Inline[s]) = ""
  BY <1>2 DEF FromFlags
<1>8. \A s \in DOMAIN Inline : flags[s] = "unset" => FromFlags(Inline[s]) = FromFile(Inline[s])
  BY <1>2 DEF FromFlags
<1> QED
  BY <1>4, <1>5, <1>6, <1>7, <1>8

\* The settings of the connection are those of the most specific layers, whatever
\* the layers and the flags say.
THEOREM ConnectsWithMostSpecific == ConfigSpec => []PresentedIsMostSpecific
<1>1. ASSUME ConfigInv, stage = "connected" PROVE PresentedIsMostSpecific
  <2>1. /\ cfg = [s \in Setting |-> FromFlags(s)] /\ Valid
        /\ presented.station = cfg["charge_point_id"]
        /\ presented.client = cfg[FileFirst("client_cert", "client_cert_base64")]
    BY <1>1 DEF ConfigInv
  <2>2. \A s \in {"charge_point_id", "client_cert", "client_cert_base64"} : cfg[s] = FromFlags(s)
    BY <2>1 DEF Setting, FlagSetting
  <2>3. /\ "client_cert" \in DOMAIN Inline /\ Inline["client_cert"] = "client_cert_base64"
        /\ {"client_cert", "charge_point_id"} \subseteq FlagSetting
    BY DEF Inline, FlagSetting
  <2>4. presented.station = LET station == MostSpecific("charge_point_id", "charge_point_id")
                            IN  IF station = "" THEN "default" ELSE station
    <3>1. FromFlags("charge_point_id") # ""
      BY <2>1, <2>2 DEF Valid, Given
    <3>2. DefaultConfig["charge_point_id"] = "default"
      BY DEF DefaultConfig, Setting, FlagSetting
    <3> QED
      BY <2>1, <2>2, <2>3, <3>1, <3>2, FlagTakesBothForms DEF MostSpecific, FromFile
  <2>5. presented.client = MostSpecific("client_cert", "client_cert_base64")
    <3>1. DefaultConfig["client_cert"] = "" /\ DefaultConfig["client_cert_base64"] = ""
      BY DEF DefaultConfig, Setting, FlagSetting
    <3>2. ~(FromFlags("client_cert") # "" /\ FromFlags("client_cert_base64") # "")
      BY <2>1, <2>2 DEF Valid, Given
    <3>3. presented.client = IF FromFlags("client_cert") # "" THEN FromFlags("client_cert")
                             ELSE FromFlags("client_cert_base64")
      BY <2>1, <2>2 DEF FileFirst, Given
    <3> QED
      BY <2>3, <3>1, <3>2, <3>3, FlagTakesBothForms DEF MostSpecific, FromFile
  <2> QED
    BY <2>4, <2>5 DEF PresentedIsMostSpecific
<1>2. ConfigInv => PresentedIsMostSpecific
  BY <1>1 DEF PresentedIsMostSpecific
<1> QED
  BY <1>2, ConfigInvHolds, PTL

\* The CA certificate trusted is the one a flag names, or none that a flag took back.
THEOREM CAFlagIsFinal == ConfigSpec => []CAFlagDecides
<1>1. ASSUME ConfigInv, stage = "connected", flags["ca_cert"] # "unset"
      PROVE  presented.ca = IF flags["ca_cert"] = "given" THEN "flag" ELSE ""
  <2>1. /\ cfg = [s \in Setting |-> FromFlags(s)]
        /\ presented.ca = cfg[FileFirst("ca_cert", "ca_cert_base64")]
    BY <1>1 DEF ConfigInv
  <2>2. \A s \in {"ca_cert", "ca_cert_base64"} : cfg[s] = FromFlags(s)
    BY <2>1 DEF Setting, FlagSetting
  <2>3. /\ "ca_cert" \in DOMAIN Inline /\ Inline["ca_cert"] = "ca_cert_base64"
        /\ "ca_cert" \in FlagSetting
    BY DEF Inline, FlagSetting
  <2> QED
    BY <1>1, <2>1, <2>2, <2>3, FlagTakesBothForms DEF FileFirst, Given
<1>2. ConfigInv => CAFlagDecides
  BY <1>1 DEF CAFlagDecides
<1> QED
  BY <1>2, ConfigInvHolds, PTL
=============================================================================
