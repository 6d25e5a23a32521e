------------------------ MODULE WorkerProtocolProofs ------------------------
(***************************************************************************)
(* Proofs about WorkerProtocol, for any number of launches side by side,   *)
(* of any kind and with any entry point, and a crash of either process     *)
(* anywhere.                                                               *)
(***************************************************************************)
EXTENDS WorkerProtocol, Naturals, TLAPS

LaunchRecords == [at : LaunchPoints, kind : WorkerKinds, entry : EntryPoints,
                  response : Outbound \cup {"none"},
                  result : {"none", "answered", "error", "timeout"}]
WorkerRecords == [at : {"none", "reading", "asking", "gone"}, ok : BOOLEAN]
StdinRecords == [lines : Seq({"request", "answer"}), open : BOOLEAN]

\* What the harness writes of its own launch.
LEMMA LaunchTyped ==
  ASSUME ProtocolTypeOK, NEW l \in Launches,
         \/ \E point \in LaunchPoints : Phase(l, point)
         \/ \E result \in {"answered", "error", "timeout"} : Returns(l, result)
         \/ \E r \in LaunchRecords : launch' = [launch EXCEPT ![l] = r]
         \/ UNCHANGED launch
  PROVE  launch' \in [Launches -> LaunchRecords]
<1>1. launch \in [Launches -> LaunchRecords]
  BY DEF ProtocolTypeOK, LaunchRecords
<1>2. ASSUME NEW point \in LaunchPoints, Phase(l, point)
      PROVE  launch' \in [Launches -> LaunchRecords]
  <2>1. [launch[l] EXCEPT !.at = point] \in LaunchRecords
    BY <1>1 DEF LaunchRecords
  <2> QED
    BY <1>1, <1>2, <2>1 DEF Phase
<1>3. ASSUME NEW result \in {"answered", "error", "timeout"}, Returns(l, result)
      PROVE  launch' \in [Launches -> LaunchRecords]
  <2>1. [launch[l] EXCEPT !.at = "returned", !.result = result] \in LaunchRecords
    BY <1>1 DEF LaunchRecords, LaunchPoints
  <2> QED
    BY <1>1, <1>3, <2>1 DEF Returns
<1> QED
  BY <1>1, <1>2, <1>3

\* What the worker's state becomes.
LEMMA WorkerTyped ==
  ASSUME ProtocolTypeOK, NEW l \in Launches,
         \/ \E ok \in BOOLEAN : Exits(l, ok)
         \/ \E point \in {"reading", "asking"} : worker' = [worker EXCEPT ![l].at = point]
         \/ UNCHANGED worker
  PROVE  worker' \in [Launches -> WorkerRecords]
<1>1. worker \in [Launches -> WorkerRecords]
  BY DEF ProtocolTypeOK, WorkerRecords
<1>2. ASSUME NEW ok \in BOOLEAN, Exits(l, ok) PROVE worker' \in [Launches -> WorkerRecords]
  <2>1. [at |-> "gone", ok |-> ok] \in WorkerRecords
    BY DEF WorkerRecords
  <2> QED
    BY <1>1, <1>2, <2>1 DEF Exits
<1>3. ASSUME NEW point \in {"reading", "asking"}, worker' = [worker EXCEPT ![l].at = point]
      PROVE  worker' \in [Launches -> WorkerRecords]
  <2>1. [worker[l] EXCEPT !.at = point] \in WorkerRecords
    BY <1>1 DEF WorkerRecords
  <2> QED
    BY <1>1, <1>3, <2>1
<1> QED
  BY <1>1, <1>2, <1>3

\* What the pipes hold.
LEMMA StdinTyped ==
  ASSUME ProtocolTypeOK, NEW l \in Launches,
         \/ stdin' = [stdin EXCEPT ![l].open = FALSE]
         \/ \E lines \in Seq({"request", "answer"}), open \in BOOLEAN :
              stdin' = [stdin EXCEPT ![l] = [lines |-> lines, open |-> open]]
         \/ \E lines \in Seq({"request", "answer"}) : stdin' = [stdin EXCEPT ![l].lines = lines]
         \/ UNCHANGED stdin
  PROVE  stdin' \in [Launches -> StdinRecords]
<1>1. stdin \in [Launches -> StdinRecords]
  BY DEF ProtocolTypeOK, StdinRecords
<1>2. CASE stdin' = [stdin EXCEPT ![l].open = FALSE]
  BY <1>1, <1>2 DEF StdinRecords
<1>3. ASSUME NEW lines \in Seq({"request", "answer"}), NEW open \in BOOLEAN,
             stdin' = [stdin EXCEPT ![l] = [lines |-> lines, open |-> open]]
      PROVE  stdin' \in [Launches -> StdinRecords]
  BY <1>1, <1>3 DEF StdinRecords
<1>4. ASSUME NEW lines \in Seq({"request", "answer"}), stdin' = [stdin EXCEPT ![l].lines = lines]
      PROVE  stdin' \in [Launches -> StdinRecords]
  BY <1>1, <1>4 DEF StdinRecords
<1> QED
  BY <1>1, <1>2, <1>3, <1>4

\* What a worker's output holds after a line is written or read.
LEMMA StdoutTyped ==
  ASSUME ProtocolTypeOK, NEW l \in Launches,
         \/ \E message \in Outbound : Says(l, message)
         \/ stdout[l] # <<>> /\ stdout' = [stdout EXCEPT ![l] = Tail(stdout[l])]
         \/ UNCHANGED stdout
  PROVE  stdout' \in [Launches -> Seq(Outbound)]
<1>1. stdout \in [Launches -> Seq(Outbound)]
  BY DEF ProtocolTypeOK
<1>2. ASSUME NEW message \in Outbound, Says(l, message)
      PROVE  stdout' \in [Launches -> Seq(Outbound)]
  <2>1. Append(stdout[l], message) \in Seq(Outbound)
    BY <1>1
  <2> QED
    BY <1>1, <1>2, <2>1 DEF Says
<1>3. ASSUME stdout[l] # <<>>, stdout' = [stdout EXCEPT ![l] = Tail(stdout[l])]
      PROVE  stdout' \in [Launches -> Seq(Outbound)]
  <2>1. Tail(stdout[l]) \in Seq(Outbound)
    BY <1>1, <1>3
  <2> QED
    BY <1>1, <1>3, <2>1
<1> QED
  BY <1>1, <1>2, <1>3

\* The kinds of results name entry points, and are messages.
LEMMA EntriesAndMessages ==
  /\ \A kind \in WorkerKinds : EntryOf(kind) \in EntryPoints /\ kind \in Outbound
  /\ "modelCall" \in Outbound /\ "error" \in Outbound /\ "smoke" \in Outbound
BY DEF EntryPoints, Outbound, WorkerKinds

\* Both processes write what the pipes and the record of the call allow.
THEOREM ProtocolTypeCorrect == ProtocolSpec => []ProtocolTypeOK
<1>1. ProtocolInit => ProtocolTypeOK
  BY EntriesAndMessages
     DEF ProtocolInit, ProtocolTypeOK, LaunchPoints, WorkerKinds, EntryOf
<1>2. ProtocolTypeOK /\ [ProtocolNext]_protocolVars => ProtocolTypeOK'
  <2> SUFFICES ASSUME ProtocolTypeOK, [ProtocolNext]_protocolVars
               PROVE  ProtocolTypeOK'
    OBVIOUS
  <2> DEFINE LaunchOK == launch' \in [Launches -> LaunchRecords]
             WorkerOK == worker' \in [Launches -> WorkerRecords]
             StdinOK == stdin' \in [Launches -> StdinRecords]
             StdoutOK == stdout' \in [Launches -> Seq(Outbound)]
             CallsOK == /\ provider' \in [Launches -> {"unasked", "answered", "refused"}]
                        /\ calls' \in [Launches -> {"none", "unrecorded", "pending", "succeeded", "failed"}]
  <2>0. /\ launch \in [Launches -> LaunchRecords] /\ worker \in [Launches -> WorkerRecords]
        /\ stdin \in [Launches -> StdinRecords] /\ stdout \in [Launches -> Seq(Outbound)]
        /\ (UNCHANGED <<provider, calls>> => CallsOK)
        /\ (LaunchOK /\ WorkerOK /\ StdinOK /\ StdoutOK /\ CallsOK => ProtocolTypeOK')
    BY DEF ProtocolTypeOK, LaunchRecords, WorkerRecords, StdinRecords
  <2>a. ASSUME NEW l \in Launches, Fails(l) PROVE LaunchOK /\ StdinOK
    BY <2>a, LaunchTyped, StdinTyped DEF Fails, LaunchPoints
  <2>b. ASSUME NEW l \in Launches, stdout[l] # <<>> PROVE Head(stdout[l]) \in Outbound
    BY <2>0, <2>b
  <2>c. ASSUME NEW l \in Launches, NEW m \in Outbound
        PROVE  [launch[l] EXCEPT !.at = "exit", !.response = m] \in LaunchRecords
    <3>1. launch[l] \in LaunchRecords
      BY <2>0
    <3> QED
      BY <3>1 DEF LaunchRecords, LaunchPoints
  <2>1. ASSUME NEW l \in Launches, NEW kind \in WorkerKinds, NEW entry \in EntryPoints,
               Spawn(l, kind, entry)
        PROVE  ProtocolTypeOK'
    <3> DEFINE point == IF kind = "smoke" THEN "write" ELSE "spawned"
    <3>0. launch[l] \in LaunchRecords /\ point \in LaunchPoints
      BY <2>0 DEF LaunchPoints
    <3> DEFINE row == [launch[l] EXCEPT !.at = point, !.kind = kind, !.entry = entry]
    <3>1. row \in LaunchRecords
      BY <3>0 DEF LaunchRecords
    <3>2. launch' = [launch EXCEPT ![l] = row]
      BY <2>1 DEF Spawn
    <3>3. LaunchOK
      <4> HIDE DEF row
      <4> QED
        BY <2>0, <3>1, <3>2
    <3>4. /\ worker' = [worker EXCEPT ![l].at = "reading"]
          /\ UNCHANGED <<stdin, stdout, provider, calls>>
      BY <2>1 DEF Spawn
    <3>5. WorkerOK
      BY <3>4, WorkerTyped
    <3> QED
      BY <2>0, <3>3, <3>4, <3>5
  <2>2. ASSUME NEW l \in Launches, Connect(l) PROVE ProtocolTypeOK'
    <3>0. launch[l] \in LaunchRecords
      BY <2>0
    <3>1. [launch[l] EXCEPT !.at = "unattended", !.result = "error"] \in LaunchRecords
      BY <3>0 DEF LaunchRecords, LaunchPoints
    <3>2. LaunchOK
      <4>1. CASE Phase(l, "write")
        BY <4>1, LaunchTyped DEF LaunchPoints
      <4>2. CASE launch' = [launch EXCEPT ![l].at = "unattended", ![l].result = "error"]
        BY <2>0, <3>1, <4>2
      <4> QED
        BY <2>2, <4>1, <4>2 DEF Connect
    <3>3. StdinOK
      BY <2>2, StdinTyped DEF Connect
    <3> QED
      BY <2>0, <2>2, <3>2, <3>3 DEF Connect
  <2>3. ASSUME NEW l \in Launches, WriteRequest(l) PROVE ProtocolTypeOK'
    <3>1. CASE Fails(l)
      BY <2>0, <2>3, <2>a, <3>1 DEF WriteRequest
    <3>2. CASE /\ stdin' = [stdin EXCEPT ![l] = [lines |-> <<"request">>, open |-> launch[l].kind # "smoke"]]
               /\ Phase(l, IF launch[l].kind = "smoke" THEN "exit" ELSE "readFirst")
      <4>1. StdinOK
        <5>1. <<"request">> \in Seq({"request", "answer"}) /\ (launch[l].kind # "smoke") \in BOOLEAN
          OBVIOUS
        <5>2. [lines |-> <<"request">>, open |-> launch[l].kind # "smoke"] \in StdinRecords
          BY <5>1 DEF StdinRecords
        <5> QED
          BY <2>0, <3>2, <5>2
      <4>2. LaunchOK
        BY <3>2, LaunchTyped DEF LaunchPoints
      <4> QED
        BY <2>0, <2>3, <4>1, <4>2 DEF WriteRequest
    <3> QED
      BY <2>3, <3>1, <3>2 DEF WriteRequest
  <2>4. ASSUME NEW l \in Launches, ReadFirst(l) PROVE ProtocolTypeOK'
    <3>1. StdoutOK
      BY <2>4, StdoutTyped DEF ReadFirst
    <3>2. CASE Fails(l)
      BY <2>0, <2>4, <2>a, <3>1, <3>2 DEF ReadFirst
    <3>3. CASE Phase(l, "record") /\ UNCHANGED stdin
      <4>1. LaunchOK
        BY <3>3, LaunchTyped DEF LaunchPoints
      <4> QED
        BY <2>0, <2>4, <3>1, <3>3, <4>1 DEF ReadFirst
    <3>4. CASE /\ stdout[l] # <<>> /\ UNCHANGED stdin
               /\ launch' = [launch EXCEPT ![l].at = "exit", ![l].response = Head(stdout[l])]
      <4> DEFINE row == [launch[l] EXCEPT !.at = "exit", !.response = Head(stdout[l])]
      <4>0. row \in LaunchRecords /\ launch' = [launch EXCEPT ![l] = row]
        BY <2>b, <2>c, <3>4
      <4>1. LaunchOK
        <5> HIDE DEF row
        <5> QED
          BY <4>0, LaunchTyped
      <4> QED
        BY <2>0, <2>4, <3>1, <3>4, <4>1 DEF ReadFirst
    <3> QED
      BY <2>4, <3>2, <3>3, <3>4 DEF ReadFirst
  <2>5. ASSUME NEW l \in Launches, RecordCall(l) PROVE ProtocolTypeOK'
    <3>1. CallsOK
      BY <2>5 DEF RecordCall, ProtocolTypeOK
    <3>2. LaunchOK /\ StdinOK
      <4>1. CASE Fails(l)
        BY <2>a, <4>1
      <4>2. CASE Phase(l, "call") /\ UNCHANGED stdin
        BY <2>0, <4>2, LaunchTyped DEF LaunchPoints
      <4> QED
        BY <2>5, <4>1, <4>2 DEF RecordCall
    <3> QED
      BY <2>0, <2>5, <3>1, <3>2 DEF RecordCall
  <2>6. ASSUME NEW l \in Launches, CallModel(l) PROVE ProtocolTypeOK'
    <3>1. CallsOK
      BY <2>6 DEF CallModel, ProviderOutcomes, ProtocolTypeOK
    <3>2. LaunchOK
      BY <2>6, LaunchTyped DEF CallModel, LaunchPoints
    <3> QED
      BY <2>0, <2>6, <3>1, <3>2 DEF CallModel
  <2>7. ASSUME NEW l \in Launches, MarkSucceeded(l) PROVE ProtocolTypeOK'
    <3>1. CallsOK
      BY <2>7 DEF MarkSucceeded, ProtocolTypeOK
    <3>2. LaunchOK /\ StdinOK
      <4>1. CASE Fails(l)
        BY <2>a, <4>1
      <4>2. CASE Phase(l, "answer") /\ UNCHANGED stdin
        BY <2>0, <4>2, LaunchTyped DEF LaunchPoints
      <4> QED
        BY <2>7, <4>1, <4>2 DEF MarkSucceeded
    <3> QED
      BY <2>0, <2>7, <3>1, <3>2 DEF MarkSucceeded
  <2>8. ASSUME NEW l \in Launches, MarkFailed(l) PROVE ProtocolTypeOK'
    <3>1. CallsOK
      BY <2>8 DEF MarkFailed, ProtocolTypeOK
    <3> QED
      BY <2>0, <2>8, <2>a, <3>1 DEF MarkFailed
  <2>9. ASSUME NEW l \in Launches, WriteModelAnswer(l) PROVE ProtocolTypeOK'
    <3>1. CASE Fails(l)
      BY <2>0, <2>9, <2>a, <3>1 DEF WriteModelAnswer
    <3>2. CASE /\ stdin' = [stdin EXCEPT ![l] = [lines |-> Append(@.lines, "answer"), open |-> FALSE]]
               /\ Phase(l, "readFinal")
      <4>1. Append(stdin[l].lines, "answer") \in Seq({"request", "answer"})
        BY <2>0 DEF StdinRecords
      <4>2. StdinOK
        BY <3>2, <4>1, StdinTyped
      <4>3. LaunchOK
        BY <3>2, LaunchTyped DEF LaunchPoints
      <4> QED
        BY <2>0, <2>9, <4>2, <4>3 DEF WriteModelAnswer
    <3> QED
      BY <2>9, <3>1, <3>2 DEF WriteModelAnswer
  <2>10. ASSUME NEW l \in Launches, ReadFinal(l) PROVE ProtocolTypeOK'
    <3>1. StdoutOK
      BY <2>10, StdoutTyped DEF ReadFinal
    <3>2. CASE Fails(l)
      BY <2>0, <2>10, <2>a, <3>1, <3>2 DEF ReadFinal
    <3>3. CASE /\ stdout[l] # <<>> /\ UNCHANGED stdin
               /\ launch' = [launch EXCEPT ![l].at = "exit", ![l].response = Head(stdout[l])]
      <4>1. LaunchOK
        BY <2>0, <2>b, <2>c, <3>3
      <4> QED
        BY <2>0, <2>10, <3>1, <3>3, <4>1 DEF ReadFinal
    <3> QED
      BY <2>10, <3>2, <3>3 DEF ReadFinal
  <2>11. ASSUME NEW l \in Launches, AwaitExit(l) PROVE ProtocolTypeOK'
    <3>1. LaunchOK /\ StdinOK
      BY <2>11, LaunchTyped, StdinTyped DEF AwaitExit
    <3> QED
      BY <2>0, <2>11, <3>1 DEF AwaitExit
  <2>12. ASSUME NEW l \in Launches, CollectFailure(l) PROVE ProtocolTypeOK'
    <3>1. LaunchOK /\ WorkerOK
      BY <2>12, LaunchTyped, WorkerTyped DEF CollectFailure
    <3> QED
      BY <2>0, <2>12, <3>1 DEF CollectFailure
  <2>13. ASSUME NEW l \in Launches, TimeOut(l) PROVE ProtocolTypeOK'
    <3>1. LaunchOK /\ WorkerOK /\ StdinOK
      BY <2>13, LaunchTyped, WorkerTyped, StdinTyped DEF TimeOut
    <3> QED
      BY <2>0, <2>13, <3>1 DEF TimeOut
  <2>14. ASSUME NEW l \in Launches, LoseHarness(l) PROVE ProtocolTypeOK'
    <3>1. LaunchOK /\ StdinOK
      BY <2>14, LaunchTyped, StdinTyped DEF LoseHarness, LaunchPoints
    <3> QED
      BY <2>0, <2>14, <3>1 DEF LoseHarness
  <2>d. ASSUME NEW l \in Launches, NEW m \in Outbound, SaysAndExits(l, m) PROVE WorkerOK /\ StdoutOK
    <3>1. Listening(l) \in BOOLEAN
      BY DEF Listening
    <3> QED
      BY <2>d, <3>1, WorkerTyped, StdoutTyped DEF SaysAndExits
  <2>15. ASSUME NEW l \in Launches, WorkerReads(l) PROVE ProtocolTypeOK'
    <3>1. CASE ServeModelWorker(l)
      <4>1. CASE SaysAndExits(l, "error") /\ UNCHANGED stdin
        BY <2>0, <2>15, <2>d, <4>1, EntriesAndMessages DEF WorkerReads
      <4>2. CASE /\ HasLine(l) /\ Says(l, "modelCall")
                 /\ stdin' = [stdin EXCEPT ![l].lines = Tail(@)]
                 /\ worker' = [worker EXCEPT ![l].at = "asking"]
        <5>1. Tail(stdin[l].lines) \in Seq({"request", "answer"})
          BY <2>0, <4>2 DEF HasLine, StdinRecords
        <5>2. StdinOK
          BY <4>2, <5>1, StdinTyped
        <5>3. WorkerOK /\ StdoutOK
          BY <4>2, EntriesAndMessages, WorkerTyped, StdoutTyped
        <5> QED
          BY <2>0, <2>15, <5>2, <5>3 DEF WorkerReads
      <4> QED
        BY <3>1, <4>1, <4>2 DEF ServeModelWorker
    <3>2. CASE ServeSmoke(l)
      BY <2>0, <2>15, <2>d, <3>2, EntriesAndMessages DEF WorkerReads, ServeSmoke
    <3>3. CASE ServeWrongResult(l)
      BY <2>0, <2>15, <2>d, <3>3, EntriesAndMessages DEF WorkerReads, ServeWrongResult
    <3>4. CASE ServeEarlyExit(l)
      <4>1. WorkerOK /\ StdoutOK
        BY <2>0, <2>d, <3>4, EntriesAndMessages, WorkerTyped DEF ServeEarlyExit
      <4> QED
        BY <2>0, <2>15, <3>4, <4>1 DEF WorkerReads, ServeEarlyExit
    <3>5. CASE ServeStall(l)
      BY <2>0, <2>15, <3>5, WorkerTyped DEF WorkerReads, ServeStall
    <3> QED
      BY <2>15, <3>1, <3>2, <3>3, <3>4, <3>5 DEF WorkerReads
  <2>16. ASSUME NEW l \in Launches, WorkerAnswers(l) PROVE ProtocolTypeOK'
    <3>1. launch[l].kind \in Outbound
      BY <2>0, EntriesAndMessages DEF LaunchRecords
    <3> QED
      BY <2>0, <2>16, <2>d, <3>1, EntriesAndMessages DEF WorkerAnswers
  <2>17. ASSUME NEW l \in Launches, WorkerDies(l) PROVE ProtocolTypeOK'
    BY <2>0, <2>17, WorkerTyped DEF WorkerDies
  <2>18. CASE UNCHANGED protocolVars
    BY <2>0, <2>18 DEF protocolVars
  <2> QED
    BY <2>1, <2>2, <2>3, <2>4, <2>5, <2>6, <2>7, <2>8, <2>9, <2>10, <2>11, <2>12, <2>13, <2>14,
       <2>15, <2>16, <2>17, <2>18 DEF ProtocolNext
<1> QED
  BY <1>1, <1>2, PTL DEF ProtocolSpec

\* When a launch has returned its worker is gone, whatever either process did.
THEOREM NoWorkerIsLeft == ProtocolSpec => []NoWorkerOutlivesItsLaunch
<1>1. ProtocolInit => NoWorkerOutlivesItsLaunch
  BY DEF ProtocolInit, NoWorkerOutlivesItsLaunch, InPhase
<1>2. ProtocolTypeOK /\ NoWorkerOutlivesItsLaunch /\ [ProtocolNext]_protocolVars
        => NoWorkerOutlivesItsLaunch'
  <2> SUFFICES ASSUME ProtocolTypeOK, NoWorkerOutlivesItsLaunch, [ProtocolNext]_protocolVars
               PROVE  NoWorkerOutlivesItsLaunch'
    OBVIOUS
  <2> USE DEF NoWorkerOutlivesItsLaunch, InPhase, Gone
  <2>0. launch \in [Launches -> LaunchRecords] /\ worker \in [Launches -> WorkerRecords]
    BY DEF ProtocolTypeOK, LaunchRecords, WorkerRecords
  <2>1. ASSUME NEW l \in Launches, NEW kind \in WorkerKinds, NEW entry \in EntryPoints,
               Spawn(l, kind, entry)
        PROVE  NoWorkerOutlivesItsLaunch'
    BY <2>0, <2>1 DEF Spawn, LaunchRecords
  <2>2. ASSUME NEW l \in Launches, UNCHANGED worker,
               \/ \E point \in LaunchPoints \ {"returned"} : Phase(l, point)
               \/ Fails(l)
               \/ launch' = [launch EXCEPT ![l].at = "unattended", ![l].result = "error"]
               \/ launch' = [launch EXCEPT ![l].at = "exit", ![l].response = Head(stdout[l])]
        PROVE  NoWorkerOutlivesItsLaunch'
    BY <2>0, <2>2 DEF Phase, Fails, LaunchRecords
  <2>3. ASSUME NEW l \in Launches,
               \/ Connect(l) \/ WriteRequest(l) \/ ReadFirst(l) \/ RecordCall(l) \/ CallModel(l)
               \/ MarkSucceeded(l) \/ MarkFailed(l) \/ WriteModelAnswer(l) \/ ReadFinal(l)
               \/ LoseHarness(l)
        PROVE  NoWorkerOutlivesItsLaunch'
    <3>1. CASE Connect(l) \/ WriteRequest(l)
      BY <2>2, <3>1 DEF Connect, WriteRequest, LaunchPoints
    <3>2. CASE ReadFirst(l) \/ ReadFinal(l)
      BY <2>2, <3>2 DEF ReadFirst, ReadFinal, LaunchPoints
    <3>3. CASE RecordCall(l) \/ CallModel(l) \/ MarkSucceeded(l) \/ MarkFailed(l)
      BY <2>2, <3>3 DEF RecordCall, CallModel, MarkSucceeded, MarkFailed, LaunchPoints
    <3>4. CASE WriteModelAnswer(l) \/ LoseHarness(l)
      BY <2>2, <3>4 DEF WriteModelAnswer, LoseHarness, LaunchPoints
    <3> QED
      BY <2>3, <3>1, <3>2, <3>3, <3>4
  <2>4. ASSUME NEW l \in Launches, AwaitExit(l) \/ CollectFailure(l) \/ TimeOut(l)
        PROVE  NoWorkerOutlivesItsLaunch'
    <3>1. worker'[l].at = "gone" /\ \A k \in Launches \ {l} : worker'[k] = worker[k]
      BY <2>0, <2>4 DEF AwaitExit, CollectFailure, TimeOut, Exits, WorkerRecords
    <3>2. \A k \in Launches \ {l} : launch'[k] = launch[k]
      BY <2>0, <2>4 DEF AwaitExit, CollectFailure, TimeOut, Returns
    <3> QED
      BY <3>1, <3>2
  <2>5. ASSUME NEW l \in Launches, WorkerReads(l) \/ WorkerAnswers(l) \/ WorkerDies(l)
        PROVE  NoWorkerOutlivesItsLaunch'
    <3>1. worker[l].at # "gone" /\ UNCHANGED launch
      BY <2>5 DEF WorkerReads, WorkerAnswers, WorkerDies
    <3>2. \A k \in Launches \ {l} : worker'[k] = worker[k]
      BY <2>0, <2>5 DEF WorkerReads, WorkerAnswers, WorkerDies, ServeModelWorker, ServeSmoke,
           ServeWrongResult, ServeEarlyExit, ServeStall, SaysAndExits, Exits
    <3> QED
      BY <3>1, <3>2
  <2>6. CASE UNCHANGED protocolVars
    BY <2>6 DEF protocolVars
  <2> QED
    BY <2>1, <2>3, <2>4, <2>5, <2>6 DEF ProtocolNext
<1> QED
  BY <1>1, <1>2, ProtocolTypeCorrect, PTL DEF ProtocolSpec

-----------------------------------------------------------------------------
(***************************************************************************)
(* Where an accepted result comes from.  The provider answers before the   *)
(* call is marked, the call is marked before the answer is written, the    *)
(* answer is written before the worker can make a result of it, and only   *)
(* then is there a result to read.                                         *)
(***************************************************************************)
ModelAnswered(l) == provider[l] = "answered" /\ calls[l] \in {"succeeded", "unrecorded"}

BeforeRequest == {"idle", "spawned", "write"}
BeforeCall == BeforeRequest \cup {"readFirst", "record", "call"}

\* What the harness knows of the call at its next step.
CallTraced(l) ==
  /\ launch[l].at \in BeforeCall => provider[l] = "unasked"
  /\ launch[l].at \in {"call", "succeed"} => calls[l] \in {"pending", "unrecorded"}
  /\ InPhase(l, "succeed") => provider[l] = "answered"
  /\ InPhase(l, "refuse") => provider[l] = "refused"
  /\ launch[l].at \in {"answer", "readFinal"} => ModelAnswered(l)

\* The lines a worker has still to read.
LinesTraced(l) ==
  /\ launch[l].at \in BeforeRequest => stdin[l].lines = <<>> /\ worker[l].at # "asking"
  /\ \A i \in 1..Len(stdin[l].lines) :
       /\ i > 1 \/ worker[l].at = "asking" => stdin[l].lines[i] = "answer"
       /\ stdin[l].lines[i] = "answer" => ModelAnswered(l)

\* The results of a conscious or an unconscious worker.
ResultsTraced(l) ==
  /\ InPhase(l, "idle") => /\ worker[l].at = "none" /\ stdout[l] = <<>>
                           /\ launch[l].response = "none" /\ launch[l].result = "none"
  /\ launch[l].kind # "smoke" =>
       /\ \A i \in 1..Len(stdout[l]) : stdout[l][i] = launch[l].kind => ModelAnswered(l)
       /\ launch[l].response = launch[l].kind => ModelAnswered(l)
       /\ launch[l].result = "answered" => ModelAnswered(l)

AnswersTraced == \A l \in Launches : CallTraced(l) /\ LinesTraced(l) /\ ResultsTraced(l)

\* The state of one launch.
View(l) == <<launch[l], worker[l], stdin[l], stdout[l], provider[l], calls[l]>>

\* A step of one launch keeps what is traced of the others.
LEMMA OthersUntouched ==
  ASSUME ProtocolTypeOK, AnswersTraced, NEW l \in Launches,
         \A k \in Launches \ {l} : View(k)' = View(k),
         CallTraced(l)', LinesTraced(l)', ResultsTraced(l)'
  PROVE  AnswersTraced'
BY DEF AnswersTraced, View, CallTraced, LinesTraced, ResultsTraced, ModelAnswered, InPhase

\* What a launch has of the model stays.
LEMMA AnswerStays ==
  ASSUME ProtocolTypeOK, AnswersTraced, NEW l \in Launches,
         \/ UNCHANGED <<provider, calls>>
         \/ RecordCall(l) \/ CallModel(l) \/ MarkSucceeded(l) \/ MarkFailed(l)
  PROVE  ModelAnswered(l) => ModelAnswered(l)'
<1> USE DEF AnswersTraced, CallTraced, ModelAnswered, InPhase, BeforeCall, ProtocolTypeOK
<1>1. CASE UNCHANGED <<provider, calls>>
  BY <1>1
<1>2. CASE RecordCall(l)
  BY <1>2 DEF RecordCall
<1>3. CASE CallModel(l)
  BY <1>3 DEF CallModel
<1>4. CASE MarkSucceeded(l)
  BY <1>4 DEF MarkSucceeded
<1>5. CASE MarkFailed(l)
  BY <1>5 DEF MarkFailed
<1> QED
  BY <1>1, <1>2, <1>3, <1>4, <1>5

\* Steps of the harness that only move on, and keep or close the worker's stdin.
LEMMA MovesTraced ==
  ASSUME ProtocolTypeOK, AnswersTraced, NEW l \in Launches, NEW point \in LaunchPoints \ {"idle"},
         launch' = [launch EXCEPT ![l].at = point],
         UNCHANGED <<worker, stdout>>,
         UNCHANGED stdin \/ stdin' = [stdin EXCEPT ![l].open = FALSE],
         \A k \in Launches \ {l} : provider'[k] = provider[k] /\ calls'[k] = calls[k],
         ModelAnswered(l) => ModelAnswered(l)',
         point \in BeforeRequest => launch[l].at \in BeforeRequest,
         CallTraced(l)'
  PROVE  AnswersTraced'
<1>0. /\ launch \in [Launches -> LaunchRecords] /\ stdin \in [Launches -> StdinRecords]
  BY DEF ProtocolTypeOK, LaunchRecords, StdinRecords
<1>1. \A k \in Launches \ {l} : View(k)' = View(k)
  BY <1>0 DEF View
<1>2. /\ launch'[l].at = point /\ launch'[l].kind = launch[l].kind
      /\ launch'[l].response = launch[l].response /\ launch'[l].result = launch[l].result
      /\ stdin'[l].lines = stdin[l].lines
  BY <1>0 DEF LaunchRecords, StdinRecords
<1>3. LinesTraced(l)'
  BY <1>2 DEF AnswersTraced, LinesTraced
<1>4. ResultsTraced(l)'
  BY <1>2 DEF AnswersTraced, ResultsTraced, InPhase
<1> QED
  BY <1>1, <1>3, <1>4, OthersUntouched

\* An operation that fails has nothing more to trace.
LEMMA FailTraced ==
  ASSUME ProtocolTypeOK, AnswersTraced, NEW l \in Launches, Fails(l),
         UNCHANGED <<worker, stdout>>,
         \A k \in Launches \ {l} : provider'[k] = provider[k] /\ calls'[k] = calls[k],
         ModelAnswered(l) => ModelAnswered(l)'
  PROVE  AnswersTraced'
<1>1. launch' = [launch EXCEPT ![l].at = "cleanup"] /\ stdin' = [stdin EXCEPT ![l].open = FALSE]
  BY DEF Fails, Phase
<1>2. "cleanup" \in LaunchPoints \ {"idle"} /\ "cleanup" \notin BeforeRequest
  BY DEF LaunchPoints, BeforeRequest
<1>3. launch'[l].at = "cleanup"
  BY <1>1 DEF ProtocolTypeOK
<1>4. CallTraced(l)'
  BY <1>3 DEF CallTraced, BeforeCall, BeforeRequest, InPhase
<1> QED
  BY <1>1, <1>2, <1>4, MovesTraced

\* A message taken from the worker's output, and kept or not.
LEMMA ReadTraced ==
  ASSUME ProtocolTypeOK, AnswersTraced, NEW l \in Launches, stdout[l] # <<>>,
         stdout' = [stdout EXCEPT ![l] = Tail(stdout[l])],
         UNCHANGED <<worker, provider, calls>>,
         \/ Phase(l, "record") /\ InPhase(l, "readFirst") /\ UNCHANGED stdin
         \/ Fails(l)
         \/ /\ launch' = [launch EXCEPT ![l].at = "exit", ![l].response = Head(stdout[l])]
            /\ UNCHANGED stdin
  PROVE  AnswersTraced'
<1>0. /\ launch \in [Launches -> LaunchRecords] /\ stdin \in [Launches -> StdinRecords]
      /\ stdout \in [Launches -> Seq(Outbound)]
  BY DEF ProtocolTypeOK, LaunchRecords, StdinRecords
<1>1. /\ stdout'[l] = Tail(stdout[l]) /\ Len(stdout[l]) \in Nat /\ Len(stdout[l]) > 0
      /\ Head(stdout[l]) = stdout[l][1]
      /\ Len(stdout'[l]) = Len(stdout[l]) - 1
      /\ \A i \in 1..Len(stdout'[l]) : stdout'[l][i] = stdout[l][i + 1]
  BY <1>0
<1>2. \A k \in Launches \ {l} : View(k)' = View(k)
  BY <1>0 DEF View, Phase, Fails
<1>3. /\ launch'[l].at \in {"record", "cleanup", "exit"} /\ launch'[l].kind = launch[l].kind
      /\ launch'[l].result = launch[l].result
      /\ launch'[l].response \in {launch[l].response, stdout[l][1]}
      /\ stdin'[l].lines = stdin[l].lines
      /\ launch'[l].at = "record" => launch[l].at = "readFirst"
  BY <1>0, <1>1 DEF Phase, Fails, InPhase, LaunchRecords, StdinRecords
<1>4. CallTraced(l)'
  BY <1>3 DEF AnswersTraced, CallTraced, InPhase, BeforeCall, BeforeRequest
<1>5. LinesTraced(l)'
  BY <1>3 DEF AnswersTraced, LinesTraced, BeforeRequest, ModelAnswered
<1>6. ResultsTraced(l)'
  <2> SUFFICES ASSUME launch[l].kind # "smoke"
               PROVE  /\ \A i \in 1..Len(stdout'[l]) : stdout'[l][i] = launch[l].kind => ModelAnswered(l)
                      /\ launch'[l].response = launch[l].kind => ModelAnswered(l)
                      /\ launch[l].result = "answered" => ModelAnswered(l)
    BY <1>3 DEF ResultsTraced, ModelAnswered, InPhase
  <2>1. /\ \A i \in 1..Len(stdout[l]) : stdout[l][i] = launch[l].kind => ModelAnswered(l)
        /\ launch[l].response = launch[l].kind => ModelAnswered(l)
        /\ launch[l].result = "answered" => ModelAnswered(l)
    BY DEF AnswersTraced, ResultsTraced
  <2> QED
    BY <1>1, <1>3, <2>1
<1> QED
  BY <1>2, <1>4, <1>5, <1>6, OthersUntouched

\* The end of a launch: a result is accepted only from the response.
LEMMA ReturnTraced ==
  ASSUME ProtocolTypeOK, AnswersTraced, NEW l \in Launches,
         NEW point \in {"returned", "unattended"}, NEW result \in {"answered", "error", "timeout"},
         launch' = [launch EXCEPT ![l].at = point, ![l].result = result],
         result = "answered" /\ launch[l].kind # "smoke" => launch[l].response = launch[l].kind,
         UNCHANGED stdin \/ stdin' = [stdin EXCEPT ![l].open = FALSE],
         UNCHANGED worker \/ Exits(l, FALSE),
         UNCHANGED <<stdout, provider, calls>>
  PROVE  AnswersTraced'
<1>0. /\ launch \in [Launches -> LaunchRecords] /\ stdin \in [Launches -> StdinRecords]
      /\ worker \in [Launches -> WorkerRecords]
  BY DEF ProtocolTypeOK, LaunchRecords, StdinRecords, WorkerRecords
<1>1. \A k \in Launches \ {l} : View(k)' = View(k)
  BY <1>0 DEF View, Exits
<1>2. /\ launch'[l].at = point /\ launch'[l].kind = launch[l].kind /\ launch'[l].result = result
      /\ launch'[l].response = launch[l].response /\ stdin'[l].lines = stdin[l].lines
      /\ worker'[l].at \in {worker[l].at, "gone"}
  BY <1>0 DEF LaunchRecords, StdinRecords, WorkerRecords, Exits
<1>3. CallTraced(l)'
  BY <1>2 DEF CallTraced, BeforeCall, BeforeRequest, InPhase
<1>4. LinesTraced(l)'
  BY <1>2 DEF AnswersTraced, LinesTraced, BeforeRequest, ModelAnswered
<1>5. ResultsTraced(l)'
  BY <1>2 DEF AnswersTraced, ResultsTraced, InPhase, ModelAnswered
<1> QED
  BY <1>1, <1>3, <1>4, <1>5, OthersUntouched

\* A worker says something and may end; a result it says is the model's.
LEMMA WorkerTraced ==
  ASSUME ProtocolTypeOK, AnswersTraced, NEW l \in Launches, NEW m \in Outbound,
         worker[l].at \in {"reading", "asking"},
         launch[l].kind # "smoke" /\ m = launch[l].kind => ModelAnswered(l),
         UNCHANGED stdout \/ Says(l, m),
         \E ok \in BOOLEAN : Exits(l, ok),
         UNCHANGED <<launch, stdin, provider, calls>>
  PROVE  AnswersTraced'
<1>0. stdout \in [Launches -> Seq(Outbound)] /\ worker \in [Launches -> WorkerRecords]
  BY DEF ProtocolTypeOK, WorkerRecords
<1>1. \A k \in Launches \ {l} : View(k)' = View(k)
  BY <1>0 DEF View, Exits, Says
<1>2. worker'[l].at = "gone"
  BY <1>0 DEF Exits
<1>3. CallTraced(l)'
  BY DEF AnswersTraced, CallTraced, InPhase, ModelAnswered
<1>4. LinesTraced(l)'
  BY <1>2 DEF AnswersTraced, LinesTraced, ModelAnswered
<1>5. ResultsTraced(l)'
  <2>1. CASE UNCHANGED stdout
    BY <2>1 DEF AnswersTraced, ResultsTraced, InPhase, ModelAnswered
  <2>2. CASE Says(l, m)
    <3>1. stdout'[l] = Append(stdout[l], m)
      BY <1>0, <2>2 DEF Says
    <3>2. /\ Len(stdout[l]) \in Nat /\ Len(stdout'[l]) = Len(stdout[l]) + 1
          /\ stdout'[l][Len(stdout[l]) + 1] = m
          /\ \A i \in 1..Len(stdout[l]) : stdout'[l][i] = stdout[l][i]
      BY <1>0, <3>1
    <3> QED
      BY <2>2, <3>2 DEF AnswersTraced, ResultsTraced, InPhase, ModelAnswered
  <2> QED
    BY <2>1, <2>2
<1> QED
  BY <1>1, <1>3, <1>4, <1>5, OthersUntouched

\* Every step keeps the trace from the model's answer to the result.
LEMMA AnswersStayTraced ==
  ProtocolTypeOK /\ AnswersTraced /\ [ProtocolNext]_protocolVars => AnswersTraced'
<1> SUFFICES ASSUME ProtocolTypeOK, AnswersTraced, [ProtocolNext]_protocolVars
             PROVE  AnswersTraced'
  OBVIOUS
<1>0. /\ launch \in [Launches -> LaunchRecords] /\ stdin \in [Launches -> StdinRecords]
      /\ worker \in [Launches -> WorkerRecords] /\ stdout \in [Launches -> Seq(Outbound)]
      /\ provider \in [Launches -> {"unasked", "answered", "refused"}]
      /\ calls \in [Launches -> {"none", "unrecorded", "pending", "succeeded", "failed"}]
  BY DEF ProtocolTypeOK, LaunchRecords, StdinRecords, WorkerRecords
<1>a. ASSUME NEW l \in Launches PROVE CallTraced(l) /\ LinesTraced(l) /\ ResultsTraced(l)
  BY DEF AnswersTraced
<1>1. ASSUME NEW l \in Launches, NEW kind \in WorkerKinds, NEW entry \in EntryPoints,
             Spawn(l, kind, entry)
      PROVE  AnswersTraced'
  <2>1. \A k \in Launches \ {l} : View(k)' = View(k)
    BY <1>0, <1>1 DEF View, Spawn
  <2>2. /\ launch'[l].at \in {"write", "spawned"} /\ launch[l].at = "idle"
        /\ launch'[l].kind = kind /\ launch'[l].response = launch[l].response
        /\ launch'[l].result = launch[l].result /\ worker'[l].at = "reading"
        /\ UNCHANGED <<stdin, stdout, provider, calls>>
    BY <1>0, <1>1 DEF Spawn, InPhase, LaunchRecords, WorkerRecords
  <2>3. CallTraced(l)' /\ LinesTraced(l)'
    BY <1>0, <1>a, <2>2 DEF CallTraced, LinesTraced, InPhase, BeforeCall, BeforeRequest
  <2>4. ResultsTraced(l)'
    BY <1>0, <1>a, <2>2 DEF ResultsTraced, InPhase, WorkerKinds
  <2> QED
    BY <2>1, <2>3, <2>4, OthersUntouched
<1>2. ASSUME NEW l \in Launches, Connect(l) PROVE AnswersTraced'
  <2>1. CASE Phase(l, "write") /\ UNCHANGED stdin
    <3>1. launch'[l].at = "write" /\ launch[l].at = "spawned"
      BY <1>0, <1>2, <2>1 DEF Connect, Phase, InPhase
    <3>2. CallTraced(l)'
      BY <1>2, <1>a, <3>1 DEF Connect, CallTraced, InPhase, BeforeCall, BeforeRequest
    <3> QED
      BY <1>2, <2>1, <3>1, <3>2, MovesTraced
         DEF Connect, Phase, LaunchPoints, BeforeRequest, ModelAnswered
  <2>2. CASE /\ launch' = [launch EXCEPT ![l].at = "unattended", ![l].result = "error"]
             /\ stdin' = [stdin EXCEPT ![l].open = FALSE]
    BY <1>2, <2>2, ReturnTraced DEF Connect
  <2> QED
    BY <1>2, <2>1, <2>2 DEF Connect
<1>3. ASSUME NEW l \in Launches, WriteRequest(l) PROVE AnswersTraced'
  <2>1. CASE Fails(l)
    BY <1>3, <2>1, FailTraced DEF WriteRequest, ModelAnswered
  <2>2. CASE /\ stdin' = [stdin EXCEPT ![l] =
                  [lines |-> <<"request">>, open |-> launch[l].kind # "smoke"]]
             /\ Phase(l, IF launch[l].kind = "smoke" THEN "exit" ELSE "readFirst")
    <3>1. \A k \in Launches \ {l} : View(k)' = View(k)
      BY <1>0, <1>3, <2>2 DEF View, WriteRequest, Phase
    <3>2. /\ launch'[l].at \in {"exit", "readFirst"} /\ launch[l].at = "write"
          /\ launch'[l].kind = launch[l].kind /\ launch'[l].response = launch[l].response
          /\ launch'[l].result = launch[l].result /\ stdin'[l].lines = <<"request">>
          /\ UNCHANGED <<worker, stdout, provider, calls>>
      BY <1>0, <1>3, <2>2 DEF WriteRequest, Phase, InPhase, LaunchRecords
    <3>3. CallTraced(l)'
      BY <1>a, <3>2 DEF CallTraced, InPhase, BeforeCall, BeforeRequest
    <3>4. LinesTraced(l)'
      <4>1. Len(<<"request">>) = 1 /\ <<"request">>[1] = "request"
        OBVIOUS
      <4>2. worker[l].at # "asking"
        BY <1>a, <3>2 DEF LinesTraced, BeforeRequest
      <4> QED
        BY <3>2, <4>1, <4>2 DEF LinesTraced, BeforeRequest
    <3>5. ResultsTraced(l)'
      BY <1>a, <3>2 DEF ResultsTraced, InPhase, ModelAnswered
    <3> QED
      BY <3>1, <3>3, <3>4, <3>5, OthersUntouched
  <2> QED
    BY <1>3, <2>1, <2>2 DEF WriteRequest
<1>4. ASSUME NEW l \in Launches, ReadFirst(l) PROVE AnswersTraced'
  <2>1. CASE stdout[l] = <<>> /\ Fails(l) /\ UNCHANGED stdout
    BY <1>4, <2>1, FailTraced DEF ReadFirst, ModelAnswered
  <2>2. CASE stdout[l] # <<>>
    BY <1>4, <2>2, ReadTraced DEF ReadFirst
  <2> QED
    BY <1>4, <2>1, <2>2 DEF ReadFirst
<1>5. ASSUME NEW l \in Launches, RecordCall(l) PROVE AnswersTraced'
  <2>1. \A k \in Launches \ {l} : provider'[k] = provider[k] /\ calls'[k] = calls[k]
    BY <1>0, <1>5 DEF RecordCall
  <2>2. ModelAnswered(l) => ModelAnswered(l)'
    BY <1>5, AnswerStays
  <2>3. CASE Fails(l)
    BY <1>5, <2>1, <2>2, <2>3, FailTraced DEF RecordCall
  <2>4. ASSUME NEW status \in {"pending", "unrecorded"}, calls' = [calls EXCEPT ![l] = status],
               Phase(l, "call"), UNCHANGED stdin
        PROVE  AnswersTraced'
    <3>1. launch'[l].at = "call" /\ launch[l].at = "record" /\ calls'[l] = status
      BY <1>0, <1>5, <2>4 DEF RecordCall, Phase, InPhase
    <3>2. CallTraced(l)'
      BY <1>5, <1>a, <2>4, <3>1 DEF RecordCall, CallTraced, InPhase, BeforeCall, BeforeRequest
    <3> QED
      BY <1>5, <2>1, <2>2, <2>4, <3>2, MovesTraced DEF RecordCall, Phase, LaunchPoints,
         BeforeRequest
  <2> QED
    BY <1>5, <2>3, <2>4 DEF RecordCall
<1>6. ASSUME NEW l \in Launches, CallModel(l) PROVE AnswersTraced'
  <2>1. \A k \in Launches \ {l} : provider'[k] = provider[k] /\ calls'[k] = calls[k]
    BY <1>0, <1>6 DEF CallModel
  <2>2. ModelAnswered(l) => ModelAnswered(l)'
    BY <1>6, AnswerStays
  <2>3. PICK outcome \in ProviderOutcomes :
          /\ provider' = [provider EXCEPT ![l] = outcome]
          /\ Phase(l, IF outcome = "answered" THEN "succeed" ELSE "refuse")
    BY <1>6 DEF CallModel
  <2>4. /\ provider'[l] = outcome /\ outcome \in {"answered", "refused"}
        /\ launch'[l].at = IF outcome = "answered" THEN "succeed" ELSE "refuse"
        /\ launch[l].at = "call" /\ calls' = calls
    BY <1>0, <1>6, <2>3 DEF CallModel, Phase, InPhase, ProviderOutcomes
  <2>5. CallTraced(l)'
    BY <1>a, <2>4 DEF CallTraced, InPhase, BeforeCall, BeforeRequest
  <2> QED
    BY <1>6, <2>1, <2>2, <2>3, <2>5, MovesTraced DEF CallModel, Phase, LaunchPoints, BeforeRequest
<1>7. ASSUME NEW l \in Launches, MarkSucceeded(l) PROVE AnswersTraced'
  <2>1. \A k \in Launches \ {l} : provider'[k] = provider[k] /\ calls'[k] = calls[k]
    BY <1>0, <1>7 DEF MarkSucceeded
  <2>2. ModelAnswered(l) => ModelAnswered(l)'
    BY <1>7, AnswerStays
  <2>3. CASE Fails(l)
    BY <1>7, <2>1, <2>2, <2>3, FailTraced DEF MarkSucceeded
  <2>4. CASE /\ calls' = [calls EXCEPT ![l] = IF @ = "pending" THEN "succeeded" ELSE @]
             /\ Phase(l, "answer") /\ UNCHANGED stdin
    <3>1. launch'[l].at = "answer" /\ launch[l].at = "succeed" /\ provider' = provider
          /\ calls'[l] = IF calls[l] = "pending" THEN "succeeded" ELSE calls[l]
      BY <1>0, <1>7, <2>4 DEF MarkSucceeded, Phase, InPhase
    <3>2. CallTraced(l)'
      BY <1>a, <3>1 DEF CallTraced, InPhase, BeforeCall, BeforeRequest, ModelAnswered
    <3> QED
      BY <1>7, <2>1, <2>2, <2>4, <3>2, MovesTraced DEF MarkSucceeded, Phase, LaunchPoints,
         BeforeRequest
  <2> QED
    BY <1>7, <2>3, <2>4 DEF MarkSucceeded
<1>8. ASSUME NEW l \in Launches, MarkFailed(l) PROVE AnswersTraced'
  <2>1. \A k \in Launches \ {l} : provider'[k] = provider[k] /\ calls'[k] = calls[k]
    BY <1>0, <1>8 DEF MarkFailed
  <2>2. ModelAnswered(l) => ModelAnswered(l)'
    BY <1>8, AnswerStays
  <2> QED
    BY <1>8, <2>1, <2>2, FailTraced DEF MarkFailed
<1>9. ASSUME NEW l \in Launches, WriteModelAnswer(l) PROVE AnswersTraced'
  <2>1. CASE Fails(l)
    BY <1>9, <2>1, FailTraced DEF WriteModelAnswer, ModelAnswered
  <2>2. CASE /\ stdin' = [stdin EXCEPT ![l] = [lines |-> Append(@.lines, "answer"), open |-> FALSE]]
             /\ Phase(l, "readFinal")
    <3>1. \A k \in Launches \ {l} : View(k)' = View(k)
      BY <1>0, <1>9, <2>2 DEF View, WriteModelAnswer, Phase
    <3>2. /\ launch'[l].at = "readFinal" /\ launch[l].at = "answer"
          /\ launch'[l].kind = launch[l].kind /\ launch'[l].response = launch[l].response
          /\ launch'[l].result = launch[l].result
          /\ stdin'[l].lines = Append(stdin[l].lines, "answer")
          /\ UNCHANGED <<worker, stdout, provider, calls>>
      BY <1>0, <1>9, <2>2 DEF WriteModelAnswer, Phase, InPhase, LaunchRecords
    <3>3. ModelAnswered(l)
      BY <1>a, <3>2 DEF CallTraced
    <3>4. CallTraced(l)'
      BY <3>2, <3>3 DEF CallTraced, InPhase, BeforeCall, BeforeRequest, ModelAnswered
    <3>5. LinesTraced(l)'
      <4> DEFINE lines == stdin[l].lines
      <4>1. lines \in Seq({"request", "answer"})
        BY <1>0 DEF StdinRecords
      <4>2. /\ Len(lines) \in Nat /\ Len(Append(lines, "answer")) = Len(lines) + 1
            /\ Append(lines, "answer")[Len(lines) + 1] = "answer"
            /\ \A i \in 1..Len(lines) : Append(lines, "answer")[i] = lines[i]
        BY <4>1
      <4>3. /\ \A i \in 1..Len(lines) : i > 1 \/ worker[l].at = "asking" => lines[i] = "answer"
            /\ \A i \in 1..Len(lines) : lines[i] = "answer" => ModelAnswered(l)
        BY <1>a DEF LinesTraced
      <4> HIDE DEF lines
      <4>4. \A i \in 1..Len(Append(lines, "answer")) : i \in 1..Len(lines) \/ i = Len(lines) + 1
        BY <4>2
      <4>5. stdin'[l].lines = Append(lines, "answer")
        BY <3>2 DEF lines
      <4> QED
        BY <3>2, <3>3, <4>2, <4>3, <4>4, <4>5 DEF LinesTraced, BeforeRequest, ModelAnswered
    <3>6. ResultsTraced(l)'
      BY <1>a, <3>2 DEF ResultsTraced, InPhase, ModelAnswered
    <3> QED
      BY <3>1, <3>4, <3>5, <3>6, OthersUntouched
  <2> QED
    BY <1>9, <2>1, <2>2 DEF WriteModelAnswer
<1>10. ASSUME NEW l \in Launches, ReadFinal(l) PROVE AnswersTraced'
  <2>1. CASE stdout[l] = <<>> /\ Fails(l) /\ UNCHANGED stdout
    BY <1>10, <2>1, FailTraced DEF ReadFinal, ModelAnswered
  <2>2. CASE stdout[l] # <<>>
    BY <1>10, <2>2, ReadTraced DEF ReadFinal
  <2> QED
    BY <1>10, <2>1, <2>2 DEF ReadFinal
<1>11. ASSUME NEW l \in Launches, AwaitExit(l) PROVE AnswersTraced'
  BY <1>11, ReturnTraced DEF AwaitExit, Returns, Accepted, Response
<1>12. ASSUME NEW l \in Launches, CollectFailure(l) PROVE AnswersTraced'
  BY <1>12, ReturnTraced DEF CollectFailure, Returns
<1>13. ASSUME NEW l \in Launches, TimeOut(l) PROVE AnswersTraced'
  BY <1>13, ReturnTraced DEF TimeOut, Returns
<1>14. ASSUME NEW l \in Launches, LoseHarness(l) PROVE AnswersTraced'
  <2>1. launch'[l].at = "lost"
    BY <1>0, <1>14 DEF LoseHarness, Phase
  <2>2. CallTraced(l)'
    BY <2>1 DEF CallTraced, InPhase, BeforeCall, BeforeRequest
  <2> QED
    BY <1>14, <2>2, MovesTraced DEF LoseHarness, Phase, LaunchPoints, BeforeRequest, ModelAnswered
<1>15. ASSUME NEW l \in Launches, WorkerReads(l) PROVE AnswersTraced'
  <2>0. /\ worker[l].at = "reading" /\ UNCHANGED <<launch, provider, calls>>
    BY <1>15 DEF WorkerReads
  <2>1. ASSUME NEW m \in {"error", "smoke", "modelCall"}, SaysAndExits(l, m), UNCHANGED stdin
        PROVE  AnswersTraced'
    <3>1. m \in Outbound /\ (launch[l].kind # "smoke" => m # launch[l].kind)
      BY <1>0, EntriesAndMessages DEF LaunchRecords, WorkerKinds
    <3>2. \E ok \in BOOLEAN : Exits(l, ok)
      BY <2>1 DEF SaysAndExits, Listening
    <3> QED
      BY <2>0, <2>1, <3>1, <3>2, WorkerTraced DEF SaysAndExits
  <2>2. ASSUME NEW ok \in BOOLEAN, Exits(l, ok), UNCHANGED <<stdin, stdout>>
        PROVE  AnswersTraced'
    <3>1. "error" \in Outbound /\ (launch[l].kind # "smoke" => "error" # launch[l].kind)
      BY <1>0, EntriesAndMessages DEF LaunchRecords, WorkerKinds
    <3> QED
      BY <2>0, <2>2, <3>1, WorkerTraced
  <2>3. CASE /\ HasLine(l) /\ Says(l, "modelCall")
             /\ stdin' = [stdin EXCEPT ![l].lines = Tail(@)]
             /\ worker' = [worker EXCEPT ![l].at = "asking"]
    <3> DEFINE lines == stdin[l].lines
    <3>1. \A k \in Launches \ {l} : View(k)' = View(k)
      BY <1>0, <2>0, <2>3 DEF View, Says
    <3>2. /\ lines \in Seq({"request", "answer"}) /\ lines # <<>>
          /\ stdin'[l].lines = Tail(lines) /\ worker'[l].at = "asking"
          /\ stdout'[l] = Append(stdout[l], "modelCall")
      BY <1>0, <2>3 DEF HasLine, Says, StdinRecords, WorkerRecords
    <3>3. CallTraced(l)'
      BY <1>a, <2>0 DEF CallTraced, InPhase, ModelAnswered
    <3>4. LinesTraced(l)'
      <4>1. /\ Len(lines) \in Nat /\ Len(Tail(lines)) = Len(lines) - 1
            /\ \A i \in 1..Len(Tail(lines)) : Tail(lines)[i] = lines[i + 1]
        BY <3>2
      <4>2. launch[l].at \notin BeforeRequest
        BY <1>a, <3>2 DEF LinesTraced
      <4>3. /\ \A i \in 1..Len(lines) : i > 1 => lines[i] = "answer"
            /\ \A i \in 1..Len(lines) : lines[i] = "answer" => ModelAnswered(l)
        BY <1>a DEF LinesTraced
      <4> HIDE DEF lines
      <4>4. \A i \in 1..Len(Tail(lines)) : Tail(lines)[i] = "answer" /\ ModelAnswered(l)
        BY <4>1, <4>3
      <4> QED
        BY <2>0, <3>2, <4>2, <4>4 DEF LinesTraced, ModelAnswered
    <3>5. ResultsTraced(l)'
      <4>1. /\ Len(stdout[l]) \in Nat /\ Len(stdout'[l]) = Len(stdout[l]) + 1
            /\ stdout'[l][Len(stdout[l]) + 1] = "modelCall"
            /\ \A i \in 1..Len(stdout[l]) : stdout'[l][i] = stdout[l][i]
        BY <1>0, <3>2
      <4>2. launch[l].kind # "modelCall" /\ ~InPhase(l, "idle")
        BY <1>0, <1>a, <2>0 DEF LaunchRecords, WorkerKinds, ResultsTraced
      <4> QED
        BY <1>a, <2>0, <4>1, <4>2 DEF ResultsTraced, InPhase, ModelAnswered
    <3> QED
      BY <3>1, <3>3, <3>4, <3>5, OthersUntouched
  <2>4. CASE ServeModelWorker(l)
    BY <2>1, <2>3, <2>4 DEF ServeModelWorker
  <2>5. CASE ServeSmoke(l)
    <3>1. \E m \in {"smoke", "error"} : SaysAndExits(l, m) /\ UNCHANGED stdin
      BY <2>5 DEF ServeSmoke
    <3> QED
      BY <2>1, <3>1
  <2>6. CASE ServeWrongResult(l)
    BY <2>1, <2>6 DEF ServeWrongResult
  <2>7. CASE ServeEarlyExit(l)
    BY <2>1, <2>2, <2>7 DEF ServeEarlyExit
  <2>8. CASE ServeStall(l)
    BY <2>2, <2>8 DEF ServeStall
  <2> QED
    BY <1>15, <2>4, <2>5, <2>6, <2>7, <2>8 DEF WorkerReads
<1>16. ASSUME NEW l \in Launches, WorkerAnswers(l) PROVE AnswersTraced'
  <2>0. worker[l].at = "asking" /\ UNCHANGED <<launch, stdin, provider, calls>>
    BY <1>16 DEF WorkerAnswers
  <2>1. HasLine(l) => ModelAnswered(l)
    <3>1. stdin[l].lines \in Seq({"request", "answer"})
      BY <1>0 DEF StdinRecords
    <3>2. HasLine(l) => 1 \in 1..Len(stdin[l].lines)
      BY <3>1 DEF HasLine
    <3> QED
      BY <1>a, <2>0, <3>2 DEF LinesTraced
  <2>2. PICK m \in {launch[l].kind, "error"} : SaysAndExits(l, m) /\ (m # "error" => HasLine(l))
    BY <1>16 DEF WorkerAnswers
  <2>3. /\ m \in Outbound /\ launch[l].kind # "error"
        /\ (launch[l].kind # "smoke" /\ m = launch[l].kind => ModelAnswered(l))
    BY <1>0, <2>1, <2>2, EntriesAndMessages DEF LaunchRecords, WorkerKinds
  <2>4. \E ok \in BOOLEAN : Exits(l, ok)
    BY <2>2 DEF SaysAndExits, Listening
  <2> QED
    BY <2>0, <2>2, <2>3, <2>4, WorkerTraced DEF SaysAndExits
<1>17. ASSUME NEW l \in Launches, WorkerDies(l) PROVE AnswersTraced'
  <2>1. "error" \in Outbound /\ (launch[l].kind # "smoke" => "error" # launch[l].kind)
    BY <1>0, EntriesAndMessages DEF LaunchRecords, WorkerKinds
  <2> QED
    BY <1>17, <2>1, WorkerTraced DEF WorkerDies
<1>18. CASE UNCHANGED protocolVars
  BY <1>18 DEF protocolVars, AnswersTraced, CallTraced, LinesTraced, ResultsTraced,
     ModelAnswered, InPhase
<1> QED
  BY <1>1, <1>2, <1>3, <1>4, <1>5, <1>6, <1>7, <1>8, <1>9, <1>10, <1>11, <1>12, <1>13, <1>14,
     <1>15, <1>16, <1>17, <1>18 DEF ProtocolNext

\* A conscious or an unconscious result is accepted only when the provider has
\* answered the worker's call, and the record of the call says so.
THEOREM AnswersAreTheModels == ProtocolSpec => []AnswersComeFromTheModel
<1>1. ProtocolInit => AnswersTraced
  <2> SUFFICES ASSUME ProtocolInit, NEW l \in Launches
               PROVE  CallTraced(l) /\ LinesTraced(l) /\ ResultsTraced(l)
    BY DEF AnswersTraced
  <2>1. /\ launch[l].at = "idle" /\ launch[l].kind = "smoke" /\ launch[l].response = "none"
        /\ launch[l].result = "none" /\ worker[l].at = "none" /\ stdin[l].lines = <<>>
        /\ stdout[l] = <<>> /\ provider[l] = "unasked"
    BY DEF ProtocolInit
  <2> QED
    BY <2>1 DEF CallTraced, LinesTraced, ResultsTraced, InPhase, BeforeCall, BeforeRequest
<1>2. AnswersTraced => AnswersComeFromTheModel
  BY DEF AnswersTraced, ResultsTraced, AnswersComeFromTheModel, ModelAnswered
<1> QED
  BY <1>1, <1>2, AnswersStayTraced, ProtocolTypeCorrect, PTL DEF ProtocolSpec
=============================================================================
