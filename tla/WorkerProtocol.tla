--------------------------- MODULE WorkerProtocol ---------------------------
(***************************************************************************)
(* One launch of a worker process: the harness spawns it, writes the       *)
(* request to its stdin, makes the one model call it asks for, records the *)
(* call, hands the answer over and reads the final response, all within    *)
(* the time limit.  A conscious and an unconscious launch differ only in   *)
(* names; a smoke launch makes no model call.  Harness and worker are two  *)
(* processes joined by pipes, and either may die at any moment.            *)
(***************************************************************************)
EXTENDS Sequences

CONSTANT Launches      \* bound: launches side by side

WorkerKinds == {"smoke", "conscious", "unconscious"}

\* The entry points of the workers binary; the configuration may name any.
EntryOf(kind) ==
  CASE kind = "smoke" -> "smoke-worker"
    [] kind = "conscious" -> "conscious-worker"
    [] kind = "unconscious" -> "unconscious-worker"
EntryPoints == {EntryOf(kind) : kind \in WorkerKinds} \cup
  {"wrong-result-worker", "exit-after-model-request-worker", "stall-worker"}

VARIABLES
  launch,      \* the harness: next step, what it launched, response and result
  worker,      \* the process: where it stands, and its exit status
  stdin,       \* lines written and not yet read, and whether it is still open
  stdout,      \* messages written and not yet read
  provider,    \* what the model provider made of the call
  calls        \* model_call_records

protocolVars == <<launch, worker, stdin, stdout, provider, calls>>

Outbound == WorkerKinds \cup {"modelCall", "error"}
LaunchPoints == {"idle", "spawned", "write", "readFirst", "record", "call", "succeed",
                 "refuse", "answer", "readFinal", "exit", "cleanup", "returned",
                 "unattended", "lost"}
Operation == {"write", "readFirst", "record", "call", "succeed", "refuse", "answer",
              "readFinal", "exit"}

ProtocolTypeOK ==
  /\ launch \in [Launches -> [at : LaunchPoints, kind : WorkerKinds, entry : EntryPoints,
                              response : Outbound \cup {"none"},
                              result : {"none", "answered", "error", "timeout"}]]
  /\ worker \in [Launches -> [at : {"none", "reading", "asking", "gone"}, ok : BOOLEAN]]
  /\ stdin \in [Launches -> [lines : Seq({"request", "answer"}), open : BOOLEAN]]
  /\ stdout \in [Launches -> Seq(Outbound)]
  /\ provider \in [Launches -> {"unasked", "answered", "refused"}]
  /\ calls \in [Launches -> {"none", "unrecorded", "pending", "succeeded", "failed"}]

ProtocolInit ==
  /\ launch = [l \in Launches |-> [at |-> "idle", kind |-> "smoke", entry |-> "smoke-worker",
                                   response |-> "none", result |-> "none"]]
  /\ worker = [l \in Launches |-> [at |-> "none", ok |-> TRUE]]
  /\ stdin = [l \in Launches |-> [lines |-> <<>>, open |-> TRUE]]
  /\ stdout = [l \in Launches |-> <<>>]
  /\ provider = [l \in Launches |-> "unasked"]
  /\ calls = [l \in Launches |-> "none"]

-----------------------------------------------------------------------------
InPhase(l, point) == launch[l].at = point
Phase(l, point) == launch' = [launch EXCEPT ![l].at = point]
Gone(l) == worker[l].at = "gone"
Exits(l, ok) == worker' = [worker EXCEPT ![l] = [at |-> "gone", ok |-> ok]]
Says(l, message) == stdout' = [stdout EXCEPT ![l] = Append(@, message)]
Returns(l, result) ==
  launch' = [launch EXCEPT ![l].at = "returned", ![l].result = result]

\* Nobody reads the pipe once the launch is over.
Listening(l) == launch[l].at \notin {"returned", "unattended", "lost"}

\* An error ends the operation, which holds the worker's stdin.
Fails(l) ==
  /\ Phase(l, "cleanup")
  /\ stdin' = [stdin EXCEPT ![l].open = FALSE]

-----------------------------------------------------------------------------
(***************************************************************************)
(* The harness.                                                            *)
(***************************************************************************)
\* Without a configured command the sibling binary serves its own entry point.
Spawn(l, kind, entry) ==
  /\ InPhase(l, "idle")
  /\ launch' = [launch EXCEPT ![l].at = IF kind = "smoke" THEN "write" ELSE "spawned",
                              ![l].kind = kind, ![l].entry = entry]
  /\ worker' = [worker EXCEPT ![l].at = "reading"]
  /\ UNCHANGED <<stdin, stdout, provider, calls>>

\* The pool is opened after the process: without it the launch returns and
\* leaves the process to find its stdin closed.
Connect(l) ==
  /\ InPhase(l, "spawned")
  /\ \/ Phase(l, "write") /\ UNCHANGED stdin
     \/ /\ launch' = [launch EXCEPT ![l].at = "unattended", ![l].result = "error"]
        /\ stdin' = [stdin EXCEPT ![l].open = FALSE]
  /\ UNCHANGED <<worker, stdout, provider, calls>>

\* A smoke worker gets its request alone, and its stdin is closed after it.
WriteRequest(l) ==
  /\ InPhase(l, "write")
  /\ \/ Gone(l) /\ Fails(l)
     \/ /\ ~Gone(l)
        /\ stdin' = [stdin EXCEPT ![l] =
             [lines |-> <<"request">>, open |-> launch[l].kind # "smoke"]]
        /\ Phase(l, IF launch[l].kind = "smoke" THEN "exit" ELSE "readFirst")
  /\ UNCHANGED <<worker, stdout, provider, calls>>

\* The next line of the worker, or the end of its output when it has exited.
ReadFirst(l) ==
  /\ InPhase(l, "readFirst")
  /\ \/ /\ stdout[l] # <<>>
        /\ stdout' = [stdout EXCEPT ![l] = Tail(@)]
        /\ IF Head(stdout[l]) = "modelCall"
           THEN Phase(l, "record")
           ELSE launch' = [launch EXCEPT ![l].at = "exit", ![l].response = Head(stdout[l])]
        /\ UNCHANGED stdin
     \/ stdout[l] = <<>> /\ Gone(l) /\ Fails(l) /\ UNCHANGED stdout
  /\ UNCHANGED <<worker, provider, calls>>

\* A database without the table is no error; the links follow the row in
\* statements of their own, and one of them may fail after it.
RecordCall(l) ==
  /\ InPhase(l, "record")
  /\ \/ \E status \in {"pending", "unrecorded"} :
          /\ calls' = [calls EXCEPT ![l] = status]
          /\ Phase(l, "call")
          /\ UNCHANGED stdin
     \/ /\ calls' \in {calls, [calls EXCEPT ![l] = "pending"]}
        /\ Fails(l)
  /\ UNCHANGED <<worker, stdout, provider>>

\* The provider rejects a request, garbles it or cannot be reached, or answers.
ProviderOutcomes == {"answered", "refused"}

\* A request the gateway does not accept ends like one the provider refuses.
CallModel(l) ==
  /\ InPhase(l, "call")
  /\ \E outcome \in ProviderOutcomes :
       /\ provider' = [provider EXCEPT ![l] = outcome]
       /\ Phase(l, IF outcome = "answered" THEN "succeed" ELSE "refuse")
  /\ UNCHANGED <<worker, stdin, stdout, calls>>

\* Mutant: the answer is handed over when its record could not be written.
MarkSucceededOrNot(l) ==
  /\ InPhase(l, "succeed")
  /\ calls' \in {calls, [calls EXCEPT ![l] = IF @ = "pending" THEN "succeeded" ELSE @]}
  /\ Phase(l, "answer")
  /\ UNCHANGED <<worker, stdin, stdout, provider>>

MarkSucceeded(l) ==
  /\ InPhase(l, "succeed")
  /\ \/ /\ calls' = [calls EXCEPT ![l] = IF @ = "pending" THEN "succeeded" ELSE @]
        /\ Phase(l, "answer")
        /\ UNCHANGED stdin
     \/ calls[l] = "pending" /\ Fails(l) /\ UNCHANGED calls
  /\ UNCHANGED <<worker, stdout, provider>>

MarkFailed(l) ==
  /\ InPhase(l, "refuse")
  /\ calls' \in {calls, [calls EXCEPT ![l] = IF @ = "pending" THEN "failed" ELSE @]}
  /\ Fails(l)
  /\ UNCHANGED <<worker, stdout, provider>>

WriteModelAnswer(l) ==
  /\ InPhase(l, "answer")
  /\ \/ Gone(l) /\ Fails(l)
     \/ /\ ~Gone(l)
        /\ stdin' = [stdin EXCEPT ![l] = [lines |-> Append(@.lines, "answer"), open |-> FALSE]]
        /\ Phase(l, "readFinal")
  /\ UNCHANGED <<worker, stdout, provider, calls>>

\* One model call per worker: a second request is an error.
ReadFinal(l) ==
  /\ InPhase(l, "readFinal")
  /\ \/ /\ stdout[l] # <<>>
        /\ stdout' = [stdout EXCEPT ![l] = Tail(@)]
        /\ IF Head(stdout[l]) = "modelCall"
           THEN Fails(l)
           ELSE /\ launch' = [launch EXCEPT ![l].at = "exit", ![l].response = Head(stdout[l])]
                /\ UNCHANGED stdin
     \/ stdout[l] = <<>> /\ Gone(l) /\ Fails(l) /\ UNCHANGED stdout
  /\ UNCHANGED <<worker, provider, calls>>

\* What the worker said last: a smoke launch reads it once the worker is gone.
Response(l) ==
  IF launch[l].kind # "smoke" THEN launch[l].response
  ELSE IF stdout[l] = <<>> THEN "none" ELSE Head(stdout[l])

\* The exit status is asked for first, then the kind of the result.  The other
\* entry points wrap their response in a message a smoke launch cannot decode.
Accepted(l) ==
  /\ worker[l].ok
  /\ Response(l) = launch[l].kind
  /\ launch[l].kind = "smoke" => launch[l].entry = "smoke-worker"

AwaitExit(l) ==
  /\ InPhase(l, "exit")
  /\ Gone(l)
  /\ Returns(l, IF Accepted(l) THEN "answered" ELSE "error")
  /\ stdin' = [stdin EXCEPT ![l].open = FALSE]
  /\ UNCHANGED <<worker, stdout, provider, calls>>

\* Mutant: a worker that does not exit within the bound is left alone.
LeaveWorker(l) ==
  /\ InPhase(l, "cleanup")
  /\ Returns(l, "error")
  /\ UNCHANGED <<worker, stdin, stdout, provider, calls>>

\* collect_worker_protocol_failure_context waits, and kills after its own bound.
CollectFailure(l) ==
  /\ InPhase(l, "cleanup")
  /\ Returns(l, "error")
  /\ IF Gone(l) THEN UNCHANGED worker ELSE Exits(l, FALSE)
  /\ UNCHANGED <<stdin, stdout, provider, calls>>

\* The time limit cuts the operation at any of its awaits.  The request of a
\* smoke worker is written outside it.
TimeOut(l) ==
  /\ launch[l].at \in Operation
  /\ launch[l].kind = "smoke" => InPhase(l, "exit")
  /\ Returns(l, "timeout")
  /\ stdin' = [stdin EXCEPT ![l].open = FALSE]
  /\ IF Gone(l) THEN UNCHANGED worker ELSE Exits(l, FALSE)
  /\ UNCHANGED <<stdout, provider, calls>>

\* The harness process ends, and its side of the pipes with it.
LoseHarness(l) ==
  /\ Listening(l) /\ ~InPhase(l, "idle")
  /\ Phase(l, "lost")
  /\ stdin' = [stdin EXCEPT ![l].open = FALSE]
  /\ UNCHANGED <<worker, stdout, provider, calls>>

-----------------------------------------------------------------------------
(***************************************************************************)
(* The worker process.                                                     *)
(***************************************************************************)
HasLine(l) == stdin[l].lines # <<>>
AtEnd(l) == stdin[l].lines = <<>> /\ ~stdin[l].open

\* A worker that cannot write its last message exits with an error.
SaysAndExits(l, message) ==
  /\ IF Listening(l) THEN Says(l, message) ELSE UNCHANGED stdout
  /\ Exits(l, Listening(l))

\* The entry point serves the kind of request it was launched with.
Serves(l) == EntryOf(launch[l].kind) = launch[l].entry

\* A conscious or an unconscious worker sends the one model call it makes, and
\* answers the request of another kind with an error.
ServeModelWorker(l) ==
  /\ launch[l].entry \in {"conscious-worker", "unconscious-worker"}
  /\ \/ /\ HasLine(l) /\ Serves(l) /\ Listening(l)
        /\ Says(l, "modelCall")
        /\ stdin' = [stdin EXCEPT ![l].lines = Tail(@)]
        /\ worker' = [worker EXCEPT ![l].at = "asking"]
     \/ /\ AtEnd(l) \/ (HasLine(l) /\ ~(Serves(l) /\ Listening(l)))
        /\ SaysAndExits(l, "error")
        /\ UNCHANGED stdin

\* A smoke worker reads to the end of its input.
ServeSmoke(l) ==
  /\ launch[l].entry = "smoke-worker"
  /\ ~stdin[l].open
  /\ SaysAndExits(l, IF Serves(l) /\ HasLine(l) THEN "smoke" ELSE "error")
  /\ UNCHANGED stdin

ServeWrongResult(l) ==
  /\ launch[l].entry = "wrong-result-worker"
  /\ \/ HasLine(l) /\ SaysAndExits(l, "smoke")
     \/ AtEnd(l) /\ SaysAndExits(l, "error")
  /\ UNCHANGED stdin

ServeEarlyExit(l) ==
  /\ launch[l].entry = "exit-after-model-request-worker"
  /\ \/ HasLine(l) /\ launch[l].kind # "smoke" /\ SaysAndExits(l, "modelCall")
     \/ /\ AtEnd(l) \/ (HasLine(l) /\ launch[l].kind = "smoke")
        /\ Exits(l, TRUE)
        /\ UNCHANGED stdout
  /\ UNCHANGED stdin

ServeStall(l) ==
  /\ launch[l].entry = "stall-worker"
  /\ Exits(l, TRUE)
  /\ UNCHANGED <<stdin, stdout>>

WorkerReads(l) ==
  /\ worker[l].at = "reading"
  /\ \/ ServeModelWorker(l) \/ ServeSmoke(l)
     \/ ServeWrongResult(l) \/ ServeEarlyExit(l) \/ ServeStall(l)
  /\ UNCHANGED <<launch, provider, calls>>

\* Control blocks that cannot be read make a conscious worker's answer an error.
RefusesBlocks(l) == launch[l].kind = "conscious"

\* The result is built from the model's answer.
WorkerAnswers(l) ==
  /\ worker[l].at = "asking"
  /\ \/ HasLine(l) /\ SaysAndExits(l, launch[l].kind)
     \/ HasLine(l) /\ RefusesBlocks(l) /\ SaysAndExits(l, "error")
     \/ AtEnd(l) /\ SaysAndExits(l, "error")
  /\ UNCHANGED <<launch, stdin, provider, calls>>

WorkerDies(l) ==
  /\ worker[l].at \in {"reading", "asking"}
  /\ Exits(l, FALSE)
  /\ UNCHANGED <<launch, stdin, stdout, provider, calls>>

ProtocolNext ==
  \E l \in Launches :
    \/ \E kind \in WorkerKinds, entry \in EntryPoints : Spawn(l, kind, entry)
    \/ Connect(l) \/ WriteRequest(l) \/ ReadFirst(l) \/ RecordCall(l) \/ CallModel(l)
    \/ MarkSucceeded(l) \/ MarkFailed(l) \/ WriteModelAnswer(l) \/ ReadFinal(l)
    \/ AwaitExit(l) \/ CollectFailure(l) \/ TimeOut(l) \/ LoseHarness(l)
    \/ WorkerReads(l) \/ WorkerAnswers(l) \/ WorkerDies(l)

ProtocolSpec == ProtocolInit /\ [][ProtocolNext]_protocolVars

-----------------------------------------------------------------------------
\* When a launch has returned its worker is gone, whatever that worker did:
\* exit early, stall, answer twice, or talk past its request.  Only a launch
\* that finds no database after the spawn leaves one (Connect).
NoWorkerOutlivesItsLaunch ==
  \A l \in Launches : InPhase(l, "returned") => Gone(l)

\* A conscious or an unconscious result is accepted only when the provider has
\* answered the worker's call, and after the record of the call said so.
AnswersComeFromTheModel ==
  \A l \in Launches :
    launch[l].result = "answered" /\ launch[l].kind # "smoke" =>
      provider[l] = "answered" /\ calls[l] \in {"succeeded", "unrecorded"}
=============================================================================
