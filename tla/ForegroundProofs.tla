--------------------------- MODULE ForegroundProofs ---------------------------
(***************************************************************************)
(* Proofs about foreground turns: for any conversation, any tasks, any     *)
(* number of turns and any errors and crashes, no update is confirmed that *)
(* is not stored, no row is closed before its execution ended, and, as     *)
(* long as live turns do not go stale, no row is worked on twice at a time *)
(* and the two processes implement the abstract inbox.  No execution is    *)
(* completed that told the user nothing, and a task says of its last run   *)
(* what became of it.                                                      *)
(***************************************************************************)
EXTENDS Foreground, FiniteSetTheorems, WellFoundedInduction, TLAPS

-----------------------------------------------------------------------------
(* The least and the greatest of a set of numbers. *)

\* The naturals are well ordered.
LEMMA LeastIsIn ==
  ASSUME NEW S, S \subseteq Nat, S # {}
  PROVE  Least(S) \in S /\ \A j \in S : Least(S) <= j
<1>1. IsWellFoundedOn({ss \in Nat \X Nat : ss[1] < ss[2]}, Nat)
  BY NatLessThanWellFounded DEF OpToRel
<1>2. \E x \in S : \A y \in S : ~(<<y, x>> \in {ss \in Nat \X Nat : ss[1] < ss[2]})
  BY <1>1, WFMin
<1>3. PICK x \in S : \A y \in S : ~(<<y, x>> \in {ss \in Nat \X Nat : ss[1] < ss[2]})
  BY <1>2
<1>4. ASSUME NEW y \in S PROVE x <= y
  <2>1. <<y, x>> \in Nat \X Nat /\ <<y, x>>[1] = y /\ <<y, x>>[2] = x
    OBVIOUS
  <2>2. ~(y < x) /\ x \in Nat /\ y \in Nat
    BY <1>3, <2>1
  <2> QED
    BY <2>2
<1>5. \E i \in S : \A j \in S : i <= j
  BY <1>4
<1> QED
  BY <1>5 DEF Least

HasGreatest(S) == \E m \in S : \A y \in S : y <= m

\* A finite set of numbers has a greatest: one without, of the least size, would
\* have one when any of its numbers is taken away.
LEMMA GreatestIsIn ==
  ASSUME NEW S, S \subseteq Nat, S # {}, IsFiniteSet(S)
  PROVE  Greatest(S) \in S /\ \A j \in S : j <= Greatest(S)
<1>1. SUFFICES ASSUME ~HasGreatest(S) PROVE FALSE
  <2>1. HasGreatest(S)
    BY <1>1
  <2> QED
    BY <2>1 DEF HasGreatest, Greatest
<1> DEFINE N == {n \in Nat : \E T \in SUBSET S : T # {} /\ Cardinality(T) = n /\ ~HasGreatest(T)}
<1>2. Cardinality(S) \in N
  BY <1>1, FS_CardinalityType
<1>3. PICK n \in N : \A k \in N : n <= k
  BY <1>2, LeastIsIn
<1>4. PICK T \in SUBSET S : T # {} /\ Cardinality(T) = n /\ ~HasGreatest(T)
  OBVIOUS
<1>5. PICK x \in T : TRUE
  BY <1>4
<1>6. IsFiniteSet(T)
  BY FS_Subset
<1>7. IsFiniteSet(T \ {x}) /\ Cardinality(T \ {x}) = n - 1 /\ Cardinality(T \ {x}) \in Nat
  BY <1>4, <1>5, <1>6, FS_RemoveElement, FS_CardinalityType
<1>8. T \ {x} # {}
  BY <1>4, <1>5 DEF HasGreatest
<1>9. HasGreatest(T \ {x})
  <2>1. ASSUME ~HasGreatest(T \ {x}) PROVE FALSE
    <3>1. n - 1 \in N
      BY <1>7, <1>8, <2>1
    <3> QED
      BY <1>3, <3>1
  <2> QED
    BY <2>1
<1>10. PICK m \in T \ {x} : \A y \in T \ {x} : y <= m
  BY <1>9 DEF HasGreatest
<1>11. CASE x <= m
  BY <1>4, <1>5, <1>10, <1>11 DEF HasGreatest
<1>12. CASE ~(x <= m)
  <2>1. \A y \in T : y <= x
    BY <1>10, <1>12
  <2> QED
    BY <2>1, <1>4, <1>5 DEF HasGreatest
<1> QED
  BY <1>11, <1>12

-----------------------------------------------------------------------------
(* The invariant. *)

\* Statements of no turn, statements after the execution of the turn has ended,
\* and those of an answer to a request, up to the one that closes its row.
Alone == {"supervise", "fetch", "stage", "begin", "stageWake", "recoverTasks", "claim"}
AfterEnd == {"completeEpisode", "close", "finish", "failEpisode", "failEpisodeQuietly", "notice",
             "sendNotice", "closeFailed", "attachNotice", "closeBlocked", "sendBlocked",
             "closeResolution"}
Answering == ResolutionPoints \cup {"recover"}
Ended == {"completed", "failed"}

CoreTypeOK ==
  /\ kind \in Conversations
  /\ posted \subseteq Rows /\ confirmed \in Nat /\ offset \in Nat /\ inbox \subseteq Rows
  /\ rowStatus \in [Rows -> RowStatuses] /\ rowTurn \in [Rows -> Turns \cup {0}]
  /\ stale \subseteq {i \in Rows : rowStatus[i] = "processing"}
  /\ turnStatus \in [Turns -> TurnStatuses] /\ batch \in [Turns -> SUBSET Rows]
  /\ pc \in [Processes -> ProgramPoints] /\ turn \in [Processes -> Turns \cup {0}]
  /\ current \in [Tasks -> Turns \cup {0}]

\* A process knows its turn and how far it is.
TurnsKnown ==
  /\ \A p \in Processes :
       /\ pc[p] \in Alone <=> turn[p] = 0
       /\ turn[p] # 0 => turnStatus[turn[p]] # "none"
       /\ pc[p] \in AfterEnd => turnStatus[turn[p]] \in Ended
       /\ pc[p] \in Answering => batch[turn[p]] # {}
       /\ pc[p] = "plan" => batch[turn[p]] = {}
  /\ \A e \in Turns : turnStatus[e] = "none" => batch[e] = {}

\* The services never run one turn, and the run of a task is one of the harness.
TurnsApart ==
  /\ turn[Telegram] # 0 => turn[Telegram] # turn[Harness]
  /\ \A t \in Tasks :
       current[t] # 0 => turnStatus[current[t]] # "none" /\ current[t] # turn[Telegram]

\* An update the server must still send, or that waits in the inbox.
Unstored(i) == rowStatus[i] = "absent" /\ kind[i] \in UpdateKinds \ {"ignored"}

InboxKnown ==
  /\ \A i \in Rows : Unstored(i) => confirmed <= i /\ (i < offset => i \in inbox)
  /\ pc[Telegram] \in {"supervise", "fetch"} => inbox = {}
  /\ pc[Telegram] \notin {"supervise", "fetch", "stage"} =>
       inbox = {} \/ rowStatus[Least(inbox)] # "absent"
  /\ \A i \in posted : \A j \in Rows : j < i /\ kind[j] \in UpdateKinds => j \in posted

\* A row somebody works on is in processing, is not stale, and is nobody else's.
RowsApart ==
  /\ OneTurnPerRow
  /\ \A p \in Processes, i \in Rows :
       Handles(p, i) => /\ rowStatus[i] \in {"processing", "processed"} /\ i \notin stale
                        /\ rowTurn[i] = turn[p]
                        /\ pc[p] \in Answering => rowStatus[i] = "processing"

ForegroundInvariant ==
  /\ CoreTypeOK /\ TurnsKnown /\ TurnsApart /\ InboxKnown /\ ClosedMeansEnded
  /\ ~LiveTurnsGoStale => RowsApart

\* A step keeps the invariant and, unless live turns go stale, is one of the inbox.
Kept ==
  /\ ForegroundInvariant'
  /\ ~LiveTurnsGoStale => [Abstract!Next]_(Abstract!vars)

\* Rows and turns are numbers; 0 is no turn.
LEMMA RowsAreNumbers == Rows \subseteq Nat /\ IsFiniteSet(Rows) /\ Turns \subseteq Nat /\ 0 \notin Turns
BY ForegroundAssumption

\* A turn that has not been used.
LEMMA NextTurnIsFresh ==
  ASSUME FreshTurns # {}
  PROVE  NextTurn \in Turns /\ turnStatus[NextTurn] = "none"
<1>1. FreshTurns \subseteq Nat
  BY RowsAreNumbers DEF FreshTurns
<1> QED
  BY <1>1, LeastIsIn DEF NextTurn, FreshTurns

-----------------------------------------------------------------------------
(* Steps of the inbox. *)

\* Who deals with a row, before and after a step.
LEMMA HandlerIs ==
  ASSUME RowsApart, NEW i \in Rows
  PROVE  /\ HandlerOf(i) \in Processes \cup {Nobody}
         /\ \A q \in Processes : HandlerOf(i) = q <=> rowStatus[i] = "processing" /\ Handles(q, i)
BY DEF RowsApart, OneTurnPerRow, HandlerOf, Processes, Telegram, Harness, Nobody

LEMMA HandlerBecomes ==
  ASSUME RowsApart', NEW i \in Rows
  PROVE  /\ HandlerOf(i)' \in Processes \cup {Nobody}
         /\ \A q \in Processes : HandlerOf(i)' = q <=> rowStatus'[i] = "processing" /\ Handles(q, i)'
BY DEF RowsApart, OneTurnPerRow, HandlerOf, Processes, Telegram, Harness, Nobody

\* Some rows are dealt with no longer.
LEMMA InboxDrops ==
  ASSUME \A i \in Rows : /\ Rows2Inbox(i)' = Rows2Inbox(i)
                         /\ HandlerOf(i)' \in {HandlerOf(i), Nobody}
  PROVE  Abstract!Next
<1> DEFINE S == {i \in Rows : HandlerOf(i)' = Nobody}
<1>1. Abstract!Drop(S)
  BY DEF Abstract!Drop
<1> QED
  BY <1>1 DEF Abstract!Next

\* The handler of a row closes it, and may give up others.
LEMMA InboxCloses ==
  ASSUME NEW c \in Rows, Rows2Inbox(c) = "open", HandlerOf(c) # Nobody,
         Rows2Inbox(c)' = "closed", HandlerOf(c)' = Nobody,
         \A i \in Rows \ {c} : /\ Rows2Inbox(i)' = Rows2Inbox(i)
                               /\ HandlerOf(i)' \in {HandlerOf(i), Nobody}
  PROVE  Abstract!Next
<1> DEFINE S == {i \in Rows : HandlerOf(i)' = Nobody}
<1>1. Abstract!CloseAndDrop(c, S)
  BY DEF Abstract!CloseAndDrop
<1> QED
  BY <1>1 DEF Abstract!Next

\* A process takes rows that are open.
LEMMA InboxTakes ==
  ASSUME NEW S \in SUBSET Rows, NEW h \in Processes,
         \A i \in Rows : Rows2Inbox(i)' = Rows2Inbox(i),
         \A i \in S : Rows2Inbox(i) = "open" /\ HandlerOf(i) = Nobody /\ HandlerOf(i)' = h,
         \A i \in Rows \ S : HandlerOf(i)' = HandlerOf(i)
  PROVE  Abstract!Next
<1>1. Abstract!Take(S, h)
  BY DEF Abstract!Take
<1> QED
  BY <1>1 DEF Abstract!Next

\* A row is stored or refused.
LEMMA InboxStores ==
  ASSUME NEW c \in Rows, NEW h \in Processes \cup {Nobody}, Rows2Inbox(c) = "absent",
         \/ Rows2Inbox(c)' = "open" /\ HandlerOf(c)' = h
         \/ Rows2Inbox(c)' = "refused" /\ HandlerOf(c)' = HandlerOf(c),
         \A i \in Rows \ {c} : Rows2Inbox(i)' = Rows2Inbox(i) /\ HandlerOf(i)' = HandlerOf(i)
  PROVE  Abstract!Next
<1>1. Abstract!Store(c, h) \/ Abstract!Refuse(c)
  BY DEF Abstract!Store, Abstract!Refuse
<1> QED
  BY <1>1 DEF Abstract!Next

-----------------------------------------------------------------------------
(* Steps of a process. *)

\* A statement a process may go on to with the turn it has, or without one.
GoesOn(here, next) ==
  /\ here \in Alone <=> next \in Alone
  /\ next \in AfterEnd => here \in AfterEnd
  /\ next \in Answering => here \in Answering
  /\ here \in SchedulerPoints => next \in SchedulerPoints
  /\ here \in {"supervise", "fetch", "stage"} =>
       \/ here = "supervise" /\ next \in {"fetch", "stageWake"}
       \/ here = "stage" /\ next = "begin"
  /\ next \notin {"supervise", "stage", "plan"} /\ (next = "fetch" => here = "supervise")

\* A process goes on, starts anew or goes on with its inbox.
Leaves(p) ==
  \/ \E next \in ProgramPoints :
       /\ GoesOn(pc[p], next)
       /\ pc[p] = "stage" => inbox = {}
       /\ pc' = [pc EXCEPT ![p] = next]
       /\ UNCHANGED <<turn, inbox, offset>>
  \/ /\ \E next \in {"supervise"} \cup (IF p = Harness THEN {"claim", "recoverTasks"} ELSE {}) :
          pc' = [pc EXCEPT ![p] = next]
     /\ turn' = [turn EXCEPT ![p] = 0]
     /\ IF p = Telegram THEN inbox' = {} /\ offset' = 0 ELSE UNCHANGED <<inbox, offset>>
  \/ /\ p = Telegram /\ turn' = [turn EXCEPT ![p] = 0] /\ UNCHANGED offset
     /\ \/ /\ pc[p] \notin {"supervise", "fetch", "stage"} /\ inbox # {}
           /\ pc' = [pc EXCEPT ![p] = "stage"] /\ inbox' = inbox \ {Least(inbox)}
        \/ inbox = {} /\ pc' = [pc EXCEPT ![p] = "supervise"] /\ UNCHANGED inbox

\* Rows a turn closes as it leaves a statement.
Closes(p, S) ==
  /\ rowStatus' = [i \in Rows |-> IF i \in S THEN "processed" ELSE rowStatus[i]]
  /\ rowTurn' = [i \in Rows |-> IF i \in S THEN turn[p] ELSE rowTurn[i]]
  /\ stale' = stale \ S
  /\ UNCHANGED <<kind, posted, confirmed, turnStatus, batch>>

\* A process may leave a statement, with or without its turn, and close rows of a
\* turn that has ended: no update is lost and no row gets a second worker.
LEMMA LeavesKeeps ==
  ASSUME ForegroundInvariant, NEW p \in Processes, NEW S \in SUBSET Rows,
         S # {} => pc[p] \in AfterEnd /\ S \subseteq batch[turn[p]] /\ (pc[p] \in Answering => turn'[p] = 0),
         \A i \in S : pc[p] \in Answering \/ ~(rowStatus[i] = "processed" /\ rowTurn[i] = turn[p]),
         \A i, j \in S : i = j,
         Leaves(p), Closes(p, S), current' \in [Tasks -> Turns \cup {0}],
         \A t \in Tasks : current'[t] \in {current[t], 0}
  PROVE  Kept
<1>0. /\ CoreTypeOK /\ TurnsKnown /\ TurnsApart /\ InboxKnown /\ ClosedMeansEnded
      /\ ~LiveTurnsGoStale => RowsApart
  BY DEF ForegroundInvariant
<1>1. /\ \A q \in Processes \ {p} : pc'[q] = pc[q] /\ turn'[q] = turn[q]
      /\ \/ /\ GoesOn(pc[p], pc'[p]) /\ pc'[p] \in ProgramPoints /\ turn'[p] = turn[p]
            /\ UNCHANGED <<inbox, offset>>
         \/ /\ pc'[p] \in {"supervise", "stage", "claim", "recoverTasks"} /\ turn'[p] = 0
      /\ pc' \in [Processes -> ProgramPoints] /\ turn' \in [Processes -> Turns \cup {0}]
  BY <1>0 DEF CoreTypeOK, Leaves, ProgramPoints, ServicePoints, SchedulerPoints
<1>2. pc[p] \in AfterEnd => pc[p] \notin Alone \cup SchedulerPoints
  BY DEF AfterEnd, Alone, SchedulerPoints
<1>3. S # {} => turn[p] \in Turns
  BY <1>0, <1>2 DEF CoreTypeOK, TurnsKnown
<1>4. CoreTypeOK'
  <2>1. inbox' \subseteq Rows /\ offset' \in Nat
    BY <1>0 DEF CoreTypeOK, Leaves
  <2>2. /\ rowStatus' \in [Rows -> RowStatuses] /\ rowTurn' \in [Rows -> Turns \cup {0}]
        /\ stale' \subseteq {i \in Rows : rowStatus'[i] = "processing"}
    BY <1>0, <1>3 DEF CoreTypeOK, Closes, RowStatuses
  <2> QED
    BY <1>0, <1>1, <2>1, <2>2 DEF CoreTypeOK, Closes
<1>5. TurnsKnown'
  BY <1>0, <1>1 DEF TurnsKnown, Closes, GoesOn, Alone, AfterEnd, Answering, ResolutionPoints
<1>6. ClosedMeansEnded'
  <2>1. S # {} => turn[p] # 0 /\ turnStatus[turn[p]] \in Ended
    BY <1>0, <1>2 DEF TurnsKnown
  <2> QED
    BY <1>0, <2>1 DEF ClosedMeansEnded, Closes, Ended, CoreTypeOK
<1>7. InboxKnown'
  <2>1. \A i \in Rows : rowStatus'[i] = "absent" => rowStatus[i] = "absent"
    BY <1>0 DEF Closes, CoreTypeOK
  <2>2. \A i \in Rows : Unstored(i)' => Unstored(i)
    BY <2>1 DEF Unstored, Closes
  <2>3. inbox \subseteq Nat /\ (inbox # {} => Least(inbox) \in Rows)
    BY <1>0, RowsAreNumbers, LeastIsIn DEF CoreTypeOK
  <2>4. ASSUME NEW i \in Rows, Unstored(i)'
        PROVE  confirmed' <= i /\ (i < offset' => i \in inbox')
    <3>1. confirmed <= i /\ (i < offset => i \in inbox) /\ i \in Nat
      BY <1>0, <2>2, <2>4, RowsAreNumbers DEF InboxKnown
    <3>2. CASE UNCHANGED <<inbox, offset>>
      BY <3>1, <3>2 DEF Closes
    <3>3. CASE offset' = 0
      BY <3>1, <3>3 DEF Closes
    <3>4. CASE /\ p = Telegram /\ UNCHANGED offset /\ inbox # {} /\ inbox' = inbox \ {Least(inbox)}
               /\ pc[p] \notin {"supervise", "fetch", "stage"}
      <4>1. rowStatus[Least(inbox)] # "absent"
        BY <1>0, <3>4 DEF InboxKnown
      <4>2. i # Least(inbox)
        BY <2>2, <2>4, <4>1 DEF Unstored
      <4> QED
        BY <3>1, <3>4, <4>2 DEF Closes
    <3> QED
      BY <3>2, <3>3, <3>4 DEF Leaves
  <2>5. pc'[Telegram] \in {"supervise", "fetch"} => inbox' = {}
    BY <1>0 DEF InboxKnown, Leaves, GoesOn, CoreTypeOK, Processes, Telegram, Harness
  <2>6. pc'[Telegram] \notin {"supervise", "fetch", "stage"} =>
          inbox' = {} \/ rowStatus'[Least(inbox')] # "absent"
    <3>1. ASSUME pc'[Telegram] \notin {"supervise", "fetch", "stage"}
          PROVE  /\ inbox' = inbox \/ inbox' = {}
                 /\ inbox = {} \/ rowStatus[Least(inbox)] # "absent" \/ inbox' = {}
      <4>1. CASE p = Telegram
        BY <1>0, <3>1, <4>1 DEF InboxKnown, Leaves, GoesOn, CoreTypeOK
      <4>2. CASE p # Telegram
        BY <1>0, <1>1, <3>1, <4>2 DEF InboxKnown, Leaves, Processes, Telegram, Harness
      <4> QED
        BY <4>1, <4>2
    <3> QED
      BY <3>1, <2>1, <2>3
  <2> QED
    BY <1>0, <2>4, <2>5, <2>6 DEF InboxKnown, Closes
<1>8. ASSUME ~LiveTurnsGoStale PROVE RowsApart'
  <2>1. RowsApart
    BY <1>0, <1>8
  <2>2. \A q \in Processes, i \in Rows : Handles(q, i)' => Handles(q, i) /\ turn'[q] = turn[q]
    BY <1>1 DEF Handles, GoesOn, Closes
  <2>3. \A i \in S : Handles(p, i) /\ turn[p] \in Turns
    BY <1>2, <1>3, RowsAreNumbers DEF Handles
  <2>4. ASSUME NEW q \in Processes, NEW i \in Rows, Handles(q, i)'
        PROVE  /\ rowStatus'[i] \in {"processing", "processed"} /\ i \notin stale'
               /\ rowTurn'[i] = turn'[q]
               /\ pc'[q] \in Answering => rowStatus'[i] = "processing"
    <3>0. Handles(q, i) /\ turn'[q] = turn[q] /\ turn[q] # 0
      BY <2>2, <2>4 DEF Handles
    <3>1. CASE i \notin S
      <4>1. pc'[q] \in Answering => pc[q] \in Answering
        BY <1>1, <3>0 DEF GoesOn
      <4> QED
        BY <2>1, <3>0, <3>1, <4>1 DEF RowsApart, Closes
    <3>2. CASE i \in S
      <4>1. q = p
        BY <2>1, <2>3, <3>0, <3>2 DEF RowsApart, OneTurnPerRow, Processes
      <4>2. pc'[p] \notin Answering
        BY <1>1, <3>0, <3>2, <4>1 DEF GoesOn
      <4> QED
        BY <3>0, <3>2, <4>1, <4>2 DEF Closes
    <3> QED
      BY <3>1, <3>2
  <2>5. OneTurnPerRow'
    BY <2>1, <2>2 DEF RowsApart, OneTurnPerRow, Processes
  <2> QED
    BY <2>4, <2>5 DEF RowsApart
<1>9. TurnsApart'
  <2>1. turn'[Telegram] \in {turn[Telegram], 0} /\ turn'[Harness] \in {turn[Harness], 0}
    BY <1>1 DEF Processes
  <2>2. \A t \in Tasks : current[t] # 0 => current[t] \in Turns
    BY <1>0 DEF CoreTypeOK
  <2> QED
    BY <1>0, <2>1, <2>2 DEF TurnsApart, Closes
<1>10. ASSUME ~LiveTurnsGoStale PROVE Abstract!Next
  <2>1. RowsApart /\ RowsApart'
    BY <1>0, <1>8, <1>10
  <2>2. \A i \in Rows \ S : rowStatus'[i] = rowStatus[i] /\ Rows2Inbox(i)' = Rows2Inbox(i)
    BY DEF Closes, Rows2Inbox
  <2>3. \A q \in Processes, i \in Rows : Handles(q, i)' => Handles(q, i)
    BY <1>1 DEF Handles, GoesOn, Closes
  <2>4. ASSUME NEW i \in Rows \ S PROVE HandlerOf(i)' \in {HandlerOf(i), Nobody}
    BY <2>1, <2>2, <2>3, HandlerIs, HandlerBecomes
  <2>5. CASE S = {}
    BY <2>2, <2>4, <2>5, InboxDrops
  <2>6. CASE S # {}
    <3>1. PICK c \in S : TRUE
      BY <2>6
    <3>2. Handles(p, c) /\ c \in Rows
      BY <1>2, <1>3, RowsAreNumbers DEF Handles
    <3>3. rowStatus[c] = "processing" /\ rowStatus'[c] = "processed"
      BY <2>1, <3>2 DEF RowsApart, Closes
    <3>4. HandlerOf(c) # Nobody /\ HandlerOf(c)' = Nobody
      <4>1. HandlerOf(c) = p /\ p # Nobody
        BY <2>1, <3>2, <3>3, HandlerIs DEF Processes, Telegram, Harness, Nobody
      <4>2. \A q \in Processes : HandlerOf(c)' # q
        BY <2>1, <3>2, <3>3, HandlerBecomes
      <4> QED
        BY <2>1, <3>2, <4>1, <4>2, HandlerBecomes
    <3>5. Rows2Inbox(c) = "open" /\ Rows2Inbox(c)' = "closed"
      BY <3>3 DEF Rows2Inbox
    <3>6. \A i \in Rows \ {c} : i \notin S
      BY <3>1
    <3> QED
      BY <2>2, <2>4, <3>2, <3>4, <3>5, <3>6, InboxCloses
  <2> QED
    BY <2>5, <2>6
<1> QED
  BY <1>4, <1>5, <1>6, <1>7, <1>8, <1>9, <1>10 DEF ForegroundInvariant, Kept

\* Leaving a statement without touching rows, executions and batches.
LEMMA QuietKeeps ==
  ASSUME ForegroundInvariant, NEW p \in Processes, Leaves(p),
         UNCHANGED <<kind, posted, confirmed, rowVars, turnStatus, batch, current>>
  PROVE  Kept
<1>1. Closes(p, {})
  BY DEF Closes, rowVars, ForegroundInvariant, CoreTypeOK
<1>2. current' \in [Tasks -> Turns \cup {0}] /\ \A t \in Tasks : current'[t] \in {current[t], 0}
  BY DEF ForegroundInvariant, CoreTypeOK
<1> QED
  BY <1>1, <1>2, LeavesKeeps

\* The execution of a turn ends, and the process goes on with the turn.
LEMMA EndsKeeps ==
  ASSUME ForegroundInvariant, NEW p \in Processes, NEW next \in ProgramPoints, NEW s \in Ended,
         pc[p] \notin Alone, next \notin Alone \cup {"plan"},
         next \in Answering => pc[p] \in Answering,
         pc[p] \in SchedulerPoints => next \in SchedulerPoints,
         SetTurn(turn[p], s), pc' = [pc EXCEPT ![p] = next],
         UNCHANGED <<kind, posted, confirmed, rowVars, batch, current, turn, inbox, offset>>
  PROVE  Kept
<1>0. /\ CoreTypeOK /\ TurnsKnown /\ TurnsApart /\ InboxKnown /\ ClosedMeansEnded
      /\ ~LiveTurnsGoStale => RowsApart
  BY DEF ForegroundInvariant
<1>1. turn[p] \in Turns /\ turn[p] # 0
  BY <1>0 DEF CoreTypeOK, TurnsKnown
<1>2. /\ pc' \in [Processes -> ProgramPoints] /\ pc'[p] = next
      /\ \A q \in Processes \ {p} : pc'[q] = pc[q]
      /\ turnStatus' \in [Turns -> TurnStatuses] /\ turnStatus'[turn[p]] = s
      /\ \A e \in Turns \ {turn[p]} : turnStatus'[e] = turnStatus[e]
  BY <1>0, <1>1 DEF CoreTypeOK, SetTurn, TurnStatuses, Ended
<1>3. CoreTypeOK'
  BY <1>0, <1>2 DEF CoreTypeOK, rowVars
<1>4. \A e \in Turns : /\ turnStatus[e] \in Ended => turnStatus'[e] \in Ended
                       /\ turnStatus'[e] = "none" <=> turnStatus[e] = "none"
  BY <1>0, <1>1, <1>2 DEF Ended, TurnsKnown
<1>5. TurnsKnown'
  <2>1. \A q \in Processes : turn[q] # 0 => turn[q] \in Turns
    BY <1>0 DEF CoreTypeOK
  <2>2. \A q \in Processes : pc[q] \in AfterEnd \cup Answering \cup {"plan"} => turn[q] # 0
    BY <1>0 DEF TurnsKnown, AfterEnd, Answering, Alone, ResolutionPoints
  <2>3. ASSUME NEW q \in Processes \ {p}
        PROVE  /\ pc'[q] \in Alone <=> turn'[q] = 0
               /\ turn'[q] # 0 => turnStatus'[turn'[q]] # "none"
               /\ pc'[q] \in AfterEnd => turnStatus'[turn'[q]] \in Ended
               /\ pc'[q] \in Answering => batch'[turn'[q]] # {}
               /\ pc'[q] = "plan" => batch'[turn'[q]] = {}
    BY <1>0, <1>2, <1>4, <2>1, <2>2 DEF TurnsKnown
  <2>4. /\ pc'[p] \in Alone <=> turn'[p] = 0
        /\ turn'[p] # 0 => turnStatus'[turn'[p]] # "none"
        /\ pc'[p] \in AfterEnd => turnStatus'[turn'[p]] \in Ended
        /\ pc'[p] \in Answering => batch'[turn'[p]] # {}
        /\ pc'[p] = "plan" => batch'[turn'[p]] = {}
    BY <1>0, <1>1, <1>2 DEF TurnsKnown, Ended
  <2> QED
    BY <1>0, <1>4, <2>3, <2>4 DEF TurnsKnown
<1>6. ClosedMeansEnded'
  BY <1>0, <1>4 DEF ClosedMeansEnded, rowVars, CoreTypeOK, Ended
<1>7. InboxKnown'
  BY <1>0, <1>2 DEF InboxKnown, Unstored, rowVars, Alone, Processes
<1>8. ASSUME ~LiveTurnsGoStale PROVE RowsApart'
  <2>1. \A q \in Processes, i \in Rows : Handles(q, i)' => Handles(q, i)
    BY <1>2 DEF Handles
  <2>2. \A q \in Processes : pc'[q] \in Answering => pc[q] \in Answering
    BY <1>2
  <2> QED
    BY <1>0, <1>8, <2>1, <2>2 DEF RowsApart, OneTurnPerRow, rowVars, Processes
<1>9. TurnsApart'
  <2>1. \A t \in Tasks : current[t] # 0 => current[t] \in Turns
    BY <1>0 DEF CoreTypeOK
  <2> QED
    BY <1>0, <1>4, <2>1 DEF TurnsApart
<1>10. ASSUME ~LiveTurnsGoStale PROVE Abstract!Next
  <2>1. \A q \in Processes, i \in Rows : Handles(q, i)' => Handles(q, i)
    BY <1>2 DEF Handles
  <2>2. \A i \in Rows : Rows2Inbox(i)' = Rows2Inbox(i) /\ HandlerOf(i)' \in {HandlerOf(i), Nobody}
    BY <1>0, <1>8, <1>10, <2>1, HandlerIs, HandlerBecomes DEF Rows2Inbox, rowVars
  <2> QED
    BY <2>2, InboxDrops
<1> QED
  BY <1>3, <1>5, <1>6, <1>7, <1>8, <1>9, <1>10 DEF ForegroundInvariant, Kept

\* Going on, starting anew and returning from a turn leave a statement.
LEMMA GotoLeaves ==
  ASSUME NEW p, NEW next \in ProgramPoints, GoesOn(pc[p], next), pc[p] = "stage" => inbox = {},
         Goto(p, next)
  PROVE  Leaves(p)
BY DEF Leaves, Goto, serviceVars

LEMMA RestartLeaves ==
  ASSUME NEW p \in Processes, Restart(p)
  PROVE  Leaves(p)
BY DEF Leaves, Restart, serviceVars

LEMMA EndIterationLeaves ==
  ASSUME EndIteration, pc[Telegram] \notin {"supervise", "fetch"}, pc[Telegram] = "stage" => inbox = {}
  PROVE  Leaves(Telegram)
BY DEF Leaves, EndIteration

LEMMA ReturnLeaves ==
  ASSUME NEW p \in Processes, pc[p] \in TurnPoints \cup FailurePoints, TurnSucceeds(p) \/ TurnErrs(p)
  PROVE  Leaves(p)
<1>1. CASE p = Telegram /\ EndIteration
  BY <1>1, EndIterationLeaves DEF TurnPoints, FailurePoints
<1>2. CASE Restart(p)
  BY <1>2, RestartLeaves
<1>3. CASE Goto(p, "completeTask") \/ Goto(p, "failTask")
  <2>1. \A next \in {"completeTask", "failTask"} : next \in ProgramPoints /\ GoesOn(pc[p], next)
    BY DEF GoesOn, TurnPoints, FailurePoints, Alone, AfterEnd, Answering, ResolutionPoints,
           SchedulerPoints, ProgramPoints
  <2>2. pc[p] # "stage"
    BY DEF TurnPoints, FailurePoints
  <2> QED
    BY <1>3, <2>1, <2>2, GotoLeaves
<1> QED
  BY <1>1, <1>2, <1>3 DEF TurnSucceeds, TurnErrs

-----------------------------------------------------------------------------
(* The steps, one group at a time. *)

\* Statements of a turn that touch neither rows nor executions.
LEMMA TurnQuietly ==
  ASSUME ForegroundInvariant, NEW p \in Processes,
         \/ SuperviseLeases(p) \/ OpenEpisode(p) \/ AssembleContext(p) \/ AcquireLease(p)
         \/ Work(p) \/ CheckLease(p) \/ Act(p) \/ RecordAnswer(p) \/ DeliverAnswer(p)
         \/ AttachAnswer(p) \/ CompleteEpisode(p) \/ FinishTurn(p) \/ FailEpisode(p)
         \/ RecordNotice(p) \/ DeliverNotice(p) \/ AttachNotice(p)
  PROVE  Kept
<1> DEFINE Quiet == UNCHANGED <<kind, posted, confirmed, rowVars, turnStatus, batch, current>>
<1> USE DEF serverVars, planVars, taskVars
<1>1. ASSUME NEW next, Goto(p, next), Quiet,
             \/ pc[p] = "supervise" /\ next \in {"fetch", "stageWake"}
             \/ pc[p] \in {"episode", "context", "lease", "work", "checkLease", "act", "answer", "send"}
                  /\ next \in {"context", "lease", "work", "checkLease", "act", "answer", "send",
                              "attach", "fail"}
             \/ pc[p] = "attach" /\ next = "succeed"
             \/ pc[p] = "completeEpisode" /\ next = "close"
             \/ pc[p] = "failEpisode" /\ next = "notice"
             \/ pc[p] = "notice" /\ next = "sendNotice"
             \/ pc[p] = "sendNotice" /\ next = "closeFailed"
      PROVE  Kept
  <2>1. next \in ProgramPoints /\ pc[p] # "stage"
    BY <1>1 DEF ProgramPoints, TurnPoints, FailurePoints, ServicePoints, SchedulerPoints
  <2>2. GoesOn(pc[p], next)
    BY <1>1 DEF GoesOn, Alone, AfterEnd, Answering, ResolutionPoints, SchedulerPoints
  <2> QED
    BY <1>1, <2>1, <2>2, GotoLeaves, QuietKeeps
<1>2. ASSUME TurnSucceeds(p) \/ TurnErrs(p), Quiet, pc[p] \in TurnPoints \cup FailurePoints
      PROVE  Kept
  BY <1>2, ReturnLeaves, QuietKeeps
<1>3. CASE SuperviseLeases(p)
  BY <1>1, <1>3 DEF SuperviseLeases, At
<1>4. CASE OpenEpisode(p) \/ AssembleContext(p) \/ RecordAnswer(p) \/ DeliverAnswer(p)
  BY <1>1, <1>4 DEF OpenEpisode, AssembleContext, RecordAnswer, DeliverAnswer, At
<1>5. CASE AcquireLease(p)
  <2>1. At(p, "lease") /\ pc' = [pc EXCEPT ![p] = "work"] /\ UNCHANGED <<turn, serviceVars>> /\ Quiet
    BY <1>5 DEF AcquireLease
  <2>2. "work" \in ProgramPoints /\ pc[p] # "stage"
    BY <2>1 DEF ProgramPoints, TurnPoints, At
  <2>3. GoesOn(pc[p], "work")
    BY <2>1 DEF At, GoesOn, Alone, AfterEnd, Answering, ResolutionPoints, SchedulerPoints
  <2>4. Leaves(p)
    BY <2>1, <2>2, <2>3 DEF Leaves, serviceVars
  <2> QED
    BY <2>1, <2>4, QuietKeeps
<1>6. CASE Work(p)
  BY <1>1, <1>6 DEF Work, At
<1>7. CASE CheckLease(p)
  BY <1>1, <1>7 DEF CheckLease, At
<1>8. CASE Act(p)
  BY <1>1, <1>8 DEF Act, At
<1>9. CASE AttachAnswer(p) \/ CompleteEpisode(p) \/ RecordNotice(p)
  BY <1>1, <1>9 DEF AttachAnswer, CompleteEpisode, RecordNotice, At
<1>10. CASE FinishTurn(p) \/ AttachNotice(p)
  BY <1>2, <1>10 DEF FinishTurn, AttachNotice, At, TurnPoints, FailurePoints
<1>11. CASE FailEpisode(p)
  BY <1>1, <1>2, <1>11 DEF FailEpisode, At, FailurePoints
<1>12. CASE DeliverNotice(p)
  BY <1>1, <1>2, <1>12 DEF DeliverNotice, At, FailurePoints
<1> QED
  BY <1>3, <1>4, <1>5, <1>6, <1>7, <1>8, <1>9, <1>10, <1>11, <1>12

\* Statements of the Telegram service and of an answer to a request that touch
\* neither rows nor executions.
LEMMA ServiceQuietly ==
  ASSUME ForegroundInvariant,
         \/ ScanConversation \/ PlanNothing \/ RefuseMalformed \/ RecoverRestart \/ SendBlocked
         \/ ResolveRequest \/ SyncAction \/ ExecuteApproved \/ SendResolution \/ OpenFollowUp
         \/ FollowUp
  PROVE  Kept
<1> DEFINE Quiet == UNCHANGED <<kind, posted, confirmed, rowVars, turnStatus, batch, current>>
<1> USE DEF serverVars, planVars, taskVars
<1>0. Telegram \in Processes
  BY DEF Processes
<1>1. ASSUME NEW next, Goto(Telegram, next), Quiet,
             \/ pc[Telegram] = "recover" /\ next \in {"resolve", "parse", "episode", "block"}
             \/ pc[Telegram] \in {"resolve", "sync", "execute", "sendResolution", "sendExecuted",
                                 "openFollowUp", "followUp"}
                  /\ next \in {"sync", "execute", "sendResolution", "sendExecuted", "openFollowUp",
                              "followUp", "completeResolution", "failResolution"}
      PROVE  Kept
  <2>1. next \in ProgramPoints /\ pc[Telegram] # "stage"
    BY <1>1 DEF ProgramPoints, TurnPoints, ResolutionPoints, ServicePoints
  <2>2. GoesOn(pc[Telegram], next)
    BY <1>1 DEF GoesOn, Alone, AfterEnd, Answering, ResolutionPoints, SchedulerPoints
  <2> QED
    BY <1>0, <1>1, <2>1, <2>2, GotoLeaves, QuietKeeps
<1>2. ASSUME EndIteration, Quiet, pc[Telegram] \in {"stage", "plan", "sendBlocked"},
             pc[Telegram] = "stage" => inbox = {}
      PROVE  Kept
  BY <1>0, <1>2, EndIterationLeaves, QuietKeeps
<1>3. CASE ScanConversation
  <2>1. At(Telegram, "stage") /\ inbox = {} /\ Quiet
    BY <1>3 DEF ScanConversation
  <2>2. CASE pc' = [pc EXCEPT ![Telegram] = "begin"] /\ UNCHANGED <<turn, inbox, offset>>
    <3>1. "begin" \in ProgramPoints
      BY DEF ProgramPoints, ServicePoints
    <3>2. GoesOn(pc[Telegram], "begin")
      BY <2>1 DEF At, GoesOn, Alone, AfterEnd, Answering, ResolutionPoints, SchedulerPoints
    <3>3. Leaves(Telegram)
      BY <2>1, <2>2, <3>1, <3>2 DEF Leaves
    <3> QED
      BY <1>0, <2>1, <3>3, QuietKeeps
  <2>3. CASE EndIteration
    BY <1>2, <2>1, <2>3 DEF At
  <2> QED
    BY <1>3, <2>2, <2>3 DEF ScanConversation
<1>4. CASE PlanNothing \/ SendBlocked
  BY <1>2, <1>4 DEF PlanNothing, SendBlocked, At
<1>5. CASE RefuseMalformed
  BY <1>0, <1>5, RestartLeaves, QuietKeeps DEF RefuseMalformed
<1>6. CASE RecoverRestart
  BY <1>1, <1>6 DEF RecoverRestart, OpeningOf, At
<1>7. CASE ResolveRequest \/ SyncAction \/ ExecuteApproved
  BY <1>1, <1>7 DEF ResolveRequest, SyncAction, ExecuteApproved, At
<1>8. CASE SendResolution \/ OpenFollowUp \/ FollowUp
  BY <1>1, <1>8 DEF SendResolution, OpenFollowUp, FollowUp, At
<1> QED
  BY <1>3, <1>4, <1>5, <1>6, <1>7, <1>8

\* A row of a turn that has ended is closed, or there was none left to close.
LEMMA CloseRowKeeps ==
  ASSUME ForegroundInvariant, NEW p \in Processes, NEW here, NEW next, CloseRow(p, here, next),
         <<here, next>> \in {<<"close", "finish">>, <<"closeFailed", "attachNotice">>,
                            <<"closeBlocked", "sendBlocked">>}
  PROVE  Kept
<1> DEFINE e == turn[p]
<1>0. /\ pc[p] = here /\ here \in AfterEnd /\ here \notin Answering /\ here \notin Alone /\ e \in Turns
      /\ CoreTypeOK
  BY DEF CloseRow, At, AfterEnd, Answering, ResolutionPoints, Alone, ForegroundInvariant,
     CoreTypeOK,
         TurnsKnown
<1>1. \A there \in {here, next} : there \in ProgramPoints /\ GoesOn(here, there) /\ here # "stage"
  BY DEF GoesOn, ProgramPoints, TurnPoints, FailurePoints, ServicePoints, Alone, AfterEnd,
     Answering,
         ResolutionPoints, SchedulerPoints
<1>2. \E there \in {here, next} : Goto(p, there)
  BY DEF CloseRow
<1>3. Leaves(p)
  BY <1>0, <1>1, <1>2, GotoLeaves
<1>4. UNCHANGED <<kind, posted, confirmed, turnStatus, batch, current>>
  BY DEF CloseRow, serverVars, planVars, taskVars
<1>5. CASE ToClose(e) = {}
  BY <1>3, <1>4, <1>5, QuietKeeps DEF CloseRow
<1>6. CASE ToClose(e) # {}
  <2> DEFINE i == Least(ToClose(e))
  <2>1. ToClose(e) \subseteq batch[e] /\ batch[e] \subseteq Rows
    BY <1>0 DEF ToClose, CoreTypeOK
  <2>2. i \in ToClose(e)
    BY <1>6, <2>1, LeastIsIn, RowsAreNumbers
  <2>6. i \in batch[e] /\ i \in Rows /\ ~(rowStatus[i] = "processed" /\ rowTurn[i] = e)
    BY <2>1, <2>2 DEF ToClose
  <2>3. SetRow(i, "processed", e)
    BY <1>6 DEF CloseRow
  <2>4. Closes(p, {i})
    BY <1>0, <1>4, <2>6, <2>3 DEF Closes, SetRow, CoreTypeOK
  <2>5. current' \in [Tasks -> Turns \cup {0}] /\ \A t \in Tasks : current'[t] \in {current[t], 0}
    BY <1>0, <1>4 DEF CoreTypeOK
  <2> HIDE DEF i
  <2> QED
    BY <1>0, <1>3, <2>2, <2>4, <2>5, <2>6, LeavesKeeps
<1> QED
  BY <1>5, <1>6

\* Only the row that carried the answer to a request is closed.
LEMMA CloseResolutionKeeps ==
  ASSUME ForegroundInvariant, CloseResolution
  PROVE  Kept
<1> DEFINE e == turn[Telegram]
           i == Primary(e)
<1>0. Telegram \in Processes
  BY DEF Processes
<1>1. /\ pc[Telegram] = "closeResolution" /\ "closeResolution" \in AfterEnd \cap Answering
      /\ "closeResolution" \notin Alone /\ CoreTypeOK /\ TurnsKnown
  BY DEF CloseResolution, At, AfterEnd, Answering, ResolutionPoints, Alone, ForegroundInvariant
<1>2. e \in Turns /\ batch[e] # {} /\ batch[e] \subseteq Rows
  BY <1>0, <1>1 DEF CoreTypeOK, TurnsKnown
<1>3. i \in batch[e] /\ i \in Rows
  BY <1>2, RowsAreNumbers, FS_Subset, GreatestIsIn DEF Primary
<1>4. /\ SetRow(i, "processed", e)
      /\ Restart(Telegram) \/ EndIteration
      /\ UNCHANGED <<kind, posted, confirmed, turnStatus, batch, current>>
  BY DEF CloseResolution, serverVars, planVars, taskVars
<1>5. Leaves(Telegram) /\ turn'[Telegram] = 0
  <2>1. pc[Telegram] \notin {"supervise", "fetch", "stage"}
    BY <1>1
  <2>2. Leaves(Telegram)
    BY <1>0, <1>4, <2>1, RestartLeaves, EndIterationLeaves
  <2> QED
    BY <1>0, <1>1, <1>4, <2>2 DEF Restart, EndIteration, CoreTypeOK
<1>6. Closes(Telegram, {i})
  BY <1>1, <1>3, <1>4 DEF Closes, SetRow, CoreTypeOK
<1>7. current' \in [Tasks -> Turns \cup {0}] /\ \A t \in Tasks : current'[t] \in {current[t], 0}
  BY <1>1, <1>4 DEF CoreTypeOK
<1> HIDE DEF i
<1> QED
  BY <1>0, <1>1, <1>3, <1>5, <1>6, <1>7, LeavesKeeps

\* The execution of a turn ends: answered, failed, blocked, resolved or suppressed.
LEMMA TurnEnds ==
  ASSUME ForegroundInvariant, NEW p \in Processes,
         \/ SucceedTurn(p) \/ FailTurn(p)
         \/ p = Telegram /\ (BlockRecovery \/ EndResolution)
         \/ p = Harness /\ (FailStrandedRun \/ SuppressRun)
  PROVE  Kept
<1> DEFINE Rest == UNCHANGED <<kind, posted, confirmed, rowVars, batch, current>>
<1>1. ASSUME NEW s \in Ended, NEW next, SetTurn(turn[p], s), Goto(p, next), Rest,
             \/ pc[p] = "succeed" /\ next = "completeEpisode"
             \/ pc[p] \in {"fail", "failQuietly"} /\ next \in {"failEpisode", "failEpisodeQuietly"}
             \/ pc[p] = "block" /\ next = "closeBlocked"
             \/ pc[p] \in {"completeResolution", "failResolution"} /\ next = "closeResolution"
             \/ pc[p] = "failStranded" /\ next = "recordRecovered"
             \/ pc[p] = "suppress" /\ next = "suppressTask"
      PROVE  Kept
  <2>1. /\ next \in ProgramPoints /\ pc[p] \notin Alone /\ next \notin Alone \cup {"plan"}
        /\ next \in Answering => pc[p] \in Answering
        /\ pc[p] \in SchedulerPoints => next \in SchedulerPoints
    BY <1>1 DEF ProgramPoints, TurnPoints, FailurePoints, ResolutionPoints, ServicePoints,
       SchedulerPoints,
                Alone, Answering
  <2> QED
    BY <1>1, <2>1, EndsKeeps DEF Goto, serviceVars
<1>2. "completed" \in Ended /\ "failed" \in Ended
  BY DEF Ended
<1> USE DEF serverVars, planVars, taskVars
<1>3. CASE SucceedTurn(p) \/ FailTurn(p)
  BY <1>1, <1>2, <1>3 DEF SucceedTurn, FailTurn, At
<1>4. CASE p = Telegram /\ BlockRecovery
  BY <1>1, <1>2, <1>4 DEF BlockRecovery, At
<1>5. CASE p = Telegram /\ EndResolution
  BY <1>1, <1>2, <1>5 DEF EndResolution, At
<1>6. CASE p = Harness /\ (FailStrandedRun \/ SuppressRun)
  BY <1>1, <1>2, <1>6 DEF FailStrandedRun, SuppressRun, At
<1> QED
  BY <1>3, <1>4, <1>5, <1>6

\* What the harness does between runs, and how it records them.
LEMMA SchedulerQuietly ==
  ASSUME ForegroundInvariant,
         \/ NothingToRecover \/ EndClaims \/ CompleteTask \/ FailTask \/ SuppressTask
         \/ RecordRecovered
  PROVE  Kept
<1> USE DEF serverVars, planVars, taskVars
<1>0. Harness \in Processes /\ Harness # Telegram /\ CoreTypeOK
  BY DEF Processes, Harness, Telegram, ForegroundInvariant
<1>1. CASE NothingToRecover
  <2>1. "claim" \in ProgramPoints
    BY DEF ProgramPoints, SchedulerPoints
  <2>2. GoesOn(pc[Harness], "claim") /\ pc[Harness] # "stage"
    BY <1>1 DEF NothingToRecover, At, GoesOn, Alone, AfterEnd, Answering, ResolutionPoints,
       SchedulerPoints
  <2> QED
    BY <1>0, <1>1, <2>1, <2>2, GotoLeaves, QuietKeeps DEF NothingToRecover
<1>2. CASE EndClaims
  <2>1. Leaves(Harness)
    BY <1>0, <1>2 DEF EndClaims, Leaves, serviceVars
  <2> QED
    BY <1>0, <1>2, <2>1, QuietKeeps DEF EndClaims
<1>3. CASE \E outcome, next : next \in {"claim", "recoverTasks"} /\ RecordOutcome(outcome, next)
  <2>1. Leaves(Harness) /\ Closes(Harness, {})
    BY <1>0, <1>3 DEF RecordOutcome, Leaves, Closes, serviceVars, rowVars, CoreTypeOK
  <2>2. current' \in [Tasks -> Turns \cup {0}] /\ \A t \in Tasks : current'[t] \in {current[t], 0}
    BY <1>0, <1>3 DEF RecordOutcome, CoreTypeOK
  <2> QED
    BY <1>0, <2>1, <2>2, LeavesKeeps
<1> QED
  BY <1>1, <1>2, <1>3 DEF CompleteTask, FailTask, SuppressTask, RecordRecovered

\* A process begins a turn nobody has used, with new rows of its own or none.
LEMMA BeginKeeps ==
  ASSUME ForegroundInvariant, FreshTurns # {},
         NEW p \in Processes, NEW S \in SUBSET Rows, NEW next \in ProgramPoints,
         pc[p] \in Alone, next \notin Alone \cup AfterEnd,
         next \in Answering => S # {}, next = "plan" => S = {},
         \A i \in S : rowStatus[i] = "absent", \A i, j \in S : i = j,
         SetTurn(NextTurn, "started"), Take(p, NextTurn, next), MarkProcessing(S, NextTurn),
         batch' = [batch EXCEPT ![NextTurn] = S],
         UNCHANGED <<kind, posted, confirmed, inbox, offset>>,
         p = Telegram => \/ pc[p] = "begin"
                         \/ pc[p] = "stage" /\ (inbox = {} \/ Least(inbox) \in S),
         current' \in [Tasks -> Turns \cup {0}],
         \A t \in Tasks : \/ current'[t] = current[t]
                          \/ p = Harness /\ current'[t] = NextTurn
  PROVE  Kept
<1> DEFINE e == NextTurn
<1>0. /\ CoreTypeOK /\ TurnsKnown /\ TurnsApart /\ InboxKnown /\ ClosedMeansEnded
      /\ ~LiveTurnsGoStale => RowsApart
  BY DEF ForegroundInvariant
<1>1. e \in Turns /\ e # 0 /\ turnStatus[e] = "none" /\ batch[e] = {}
  BY <1>0, NextTurnIsFresh, RowsAreNumbers DEF TurnsKnown
<1> HIDE DEF e
<1>2. /\ pc' \in [Processes -> ProgramPoints] /\ turn' \in [Processes -> Turns \cup {0}]
      /\ pc'[p] = next /\ turn'[p] = e
      /\ \A q \in Processes \ {p} : pc'[q] = pc[q] /\ turn'[q] = turn[q] /\ turn[q] # e
      /\ turnStatus' \in [Turns -> TurnStatuses] /\ turnStatus'[e] = "started"
      /\ batch' \in [Turns -> SUBSET Rows] /\ batch'[e] = S
      /\ \A f \in Turns \ {e} : turnStatus'[f] = turnStatus[f] /\ batch'[f] = batch[f]
  BY <1>0, <1>1 DEF e, CoreTypeOK, SetTurn, Take, TurnStatuses, TurnsKnown
<1>3. /\ rowStatus' \in [Rows -> RowStatuses] /\ rowTurn' \in [Rows -> Turns \cup {0}]
      /\ stale' = stale \ S /\ stale' \subseteq {i \in Rows : rowStatus'[i] = "processing"}
      /\ \A i \in S : rowStatus'[i] = "processing" /\ rowTurn'[i] = e
      /\ \A i \in Rows \ S : rowStatus'[i] = rowStatus[i] /\ rowTurn'[i] = rowTurn[i]
  BY <1>0, <1>1 DEF e, CoreTypeOK, MarkProcessing, RowStatuses
<1>4. CoreTypeOK'
  BY <1>0, <1>2, <1>3 DEF CoreTypeOK
<1>5. TurnsKnown'
  <2>1. \A q \in Processes : turn[q] # 0 => turn[q] \in Turns
    BY <1>0 DEF CoreTypeOK
  <2>2. \A q \in Processes : pc[q] \in AfterEnd \cup Answering \cup {"plan"} => turn[q] # 0
    BY <1>0 DEF TurnsKnown, AfterEnd, Answering, Alone, ResolutionPoints
  <2>3. ASSUME NEW q \in Processes \ {p}
        PROVE  /\ pc'[q] \in Alone <=> turn'[q] = 0
               /\ turn'[q] # 0 => turnStatus'[turn'[q]] # "none"
               /\ pc'[q] \in AfterEnd => turnStatus'[turn'[q]] \in Ended
               /\ pc'[q] \in Answering => batch'[turn'[q]] # {}
               /\ pc'[q] = "plan" => batch'[turn'[q]] = {}
    BY <1>0, <1>2, <2>1, <2>2 DEF TurnsKnown
  <2>4. /\ pc'[p] \in Alone <=> turn'[p] = 0
        /\ turn'[p] # 0 => turnStatus'[turn'[p]] # "none"
        /\ pc'[p] \in AfterEnd => turnStatus'[turn'[p]] \in Ended
        /\ pc'[p] \in Answering => batch'[turn'[p]] # {}
        /\ pc'[p] = "plan" => batch'[turn'[p]] = {}
    BY <1>1, <1>2
  <2>5. \A f \in Turns : turnStatus'[f] = "none" => batch'[f] = {}
    BY <1>0, <1>2 DEF TurnsKnown
  <2> QED
    BY <2>3, <2>4, <2>5 DEF TurnsKnown
<1>6. ClosedMeansEnded'
  <2>1. ASSUME NEW i \in Rows, rowStatus'[i] = "processed"
        PROVE  rowTurn'[i] # 0 /\ turnStatus'[rowTurn'[i]] \in {"completed", "failed"}
    <3>1. rowStatus[i] = "processed" /\ rowTurn'[i] = rowTurn[i] /\ rowTurn[i] \in Turns
      BY <1>0, <1>3, <2>1 DEF ClosedMeansEnded, CoreTypeOK
    <3> QED
      BY <1>0, <1>1, <1>2, <3>1 DEF ClosedMeansEnded
  <2> QED
    BY <2>1 DEF ClosedMeansEnded
<1>7. InboxKnown'
  <2>1. \A i \in Rows : Unstored(i)' => Unstored(i)
    BY <1>3 DEF Unstored
  <2>2. inbox # {} => Least(inbox) \in Rows
    BY <1>0, RowsAreNumbers, LeastIsIn DEF CoreTypeOK
  <2>3. p = Telegram => inbox = {} \/ rowStatus'[Least(inbox)] # "absent"
    BY <1>0, <1>3, <2>2 DEF InboxKnown
  <2>4. p # Telegram /\ pc[Telegram] \notin {"supervise", "fetch", "stage"} =>
          inbox = {} \/ rowStatus'[Least(inbox)] # "absent"
    BY <1>0, <1>3, <2>2 DEF InboxKnown
  <2>5. p = Telegram => pc'[Telegram] \notin {"supervise", "fetch", "stage"}
    BY <1>2 DEF Alone
  <2>6. p # Telegram => pc'[Telegram] = pc[Telegram]
    BY <1>2 DEF Processes
  <2> QED
    BY <1>0, <2>1, <2>3, <2>4, <2>5, <2>6 DEF InboxKnown
<1>8. ASSUME ~LiveTurnsGoStale PROVE RowsApart'
  <2>1. RowsApart
    BY <1>0, <1>8
  <2>2. \A i \in Rows : Handles(p, i)' => i \in S
    BY <1>2 DEF Handles
  <2>3. \A q \in Processes \ {p}, i \in Rows : Handles(q, i)' => Handles(q, i) /\ i \notin S
    <3>1. \A q \in Processes \ {p}, i \in Rows : Handles(q, i)' => Handles(q, i)
      BY <1>0, <1>2 DEF Handles, CoreTypeOK
    <3> QED
      BY <2>1, <3>1 DEF RowsApart
  <2>4. S \cap stale' = {}
    BY <1>3
  <2>5. OneTurnPerRow'
    <3>1. Telegram # Harness /\ p \in {Telegram, Harness} /\ {Telegram, Harness} \subseteq Processes
      BY DEF Processes, Telegram, Harness
    <3>2. ASSUME NEW i \in Rows PROVE ~(Handles(Telegram, i)' /\ Handles(Harness, i)')
      BY <2>2, <2>3, <3>1
    <3> QED
      BY <3>2 DEF OneTurnPerRow
  <2>6. ASSUME NEW q \in Processes, NEW i \in Rows, Handles(q, i)'
        PROVE  /\ rowStatus'[i] \in {"processing", "processed"} /\ i \notin stale'
               /\ rowTurn'[i] = turn'[q]
               /\ pc'[q] \in Answering => rowStatus'[i] = "processing"
    <3>1. CASE q = p
      BY <1>2, <1>3, <2>2, <2>4, <2>6, <3>1
    <3>2. CASE q # p
      BY <1>2, <1>3, <2>1, <2>3, <2>6, <3>2 DEF RowsApart
    <3> QED
      BY <3>1, <3>2
  <2> QED
    BY <2>5, <2>6 DEF RowsApart
<1>9. TurnsApart'
  <2>1. Telegram # Harness /\ Processes = {Telegram, Harness}
    BY DEF Processes, Telegram, Harness
  <2>2. turn'[Telegram] # 0 => turn'[Telegram] # turn'[Harness]
    BY <1>0, <1>1, <1>2, <2>1 DEF TurnsApart, CoreTypeOK
  <2>3. ASSUME NEW t \in Tasks, current'[t] # 0
        PROVE  turnStatus'[current'[t]] # "none" /\ current'[t] # turn'[Telegram]
    <3>1. CASE current'[t] = current[t]
      <4>1. current[t] \in Turns \ {e} /\ current[t] # turn[Telegram]
        BY <1>0, <1>1, <2>3, <3>1 DEF TurnsApart, CoreTypeOK
      <4> QED
        BY <1>0, <1>2, <2>1, <2>3, <3>1, <4>1 DEF TurnsApart
    <3>2. CASE p = Harness /\ current'[t] = e
      BY <1>1, <1>2, <2>1, <3>2
    <3> QED
      BY <3>1, <3>2 DEF e
  <2> QED
    BY <2>2, <2>3 DEF TurnsApart
<1>10. ASSUME ~LiveTurnsGoStale PROVE Abstract!Next
  <2>1. RowsApart /\ RowsApart'
    BY <1>0, <1>8, <1>10
  <2>2. \A i \in Rows \ S : rowStatus'[i] = rowStatus[i] /\ Rows2Inbox(i)' = Rows2Inbox(i)
    BY <1>3 DEF Rows2Inbox
  <2>3. \A q \in Processes, i \in Rows \ S : Handles(q, i)' <=> Handles(q, i)
    BY <1>0, <1>1, <1>2 DEF Handles, TurnsKnown, CoreTypeOK
  <2>4. ASSUME NEW i \in Rows \ S PROVE HandlerOf(i)' = HandlerOf(i)
    BY <2>1, <2>2, <2>3, HandlerIs, HandlerBecomes
  <2>5. CASE S = {}
    BY <2>2, <2>4, <2>5, InboxDrops
  <2>6. CASE S # {}
    <3>1. PICK c \in S : TRUE
      BY <2>6
    <3>2. Rows2Inbox(c) = "absent" /\ Rows2Inbox(c)' = "open"
      BY <1>3, <3>1 DEF Rows2Inbox
    <3>3. HandlerOf(c)' \in Processes \cup {Nobody}
      BY <2>1, <3>1, HandlerBecomes
    <3>4. \A i \in Rows \ {c} : i \notin S
      BY <3>1
    <3>5. c \in Rows
      BY <3>1
    <3> QED
      BY <2>2, <2>4, <3>2, <3>3, <3>4, <3>5, InboxStores
  <2> QED
    BY <2>5, <2>6
<1> QED
  BY <1>4, <1>5, <1>6, <1>7, <1>8, <1>9, <1>10 DEF ForegroundInvariant, Kept

\* The three ways a turn begins: for a conversation, for an answer that came in a
\* callback and for a scheduled task.
LEMMA TurnBegins ==
  ASSUME ForegroundInvariant, \/ BeginExecution \/ StartCallback
                              \/ \E t \in Tasks : ClaimDueTask(t)
  PROVE  Kept
<1> USE DEF serverVars, planVars, taskVars, serviceVars
<1>0. /\ CoreTypeOK /\ Telegram # Harness /\ {Telegram, Harness} \subseteq Processes
      /\ \A e \in Turns : turnStatus[e] = "none" => batch[e] = {}
  BY DEF ForegroundInvariant, TurnsKnown, Processes, Telegram, Harness
<1>1. FreshTurns # {} => NextTurn \in Turns /\ batch[NextTurn] = {}
  BY <1>0, NextTurnIsFresh
<1> DEFINE Points == {"plan", "resolve", "suppress", "episode"}
<1>2. /\ {"begin", "stage", "claim"} \subseteq Alone /\ Points \subseteq ProgramPoints
      /\ \A next \in Points : next \notin Alone \cup AfterEnd
      /\ {"plan", "suppress", "episode"} \cap Answering = {}
  BY DEF Alone, AfterEnd, Answering, ProgramPoints, TurnPoints, ResolutionPoints, ServicePoints,
         SchedulerPoints
<1>3. \A i \in Rows, f \in Turns : SetRow(i, "processing", f) => MarkProcessing({i}, f)
  BY <1>0 DEF SetRow, MarkProcessing, CoreTypeOK
<1>4. \A f \in Turns : UNCHANGED rowVars => MarkProcessing({}, f)
  BY <1>0 DEF rowVars, MarkProcessing, CoreTypeOK
<1>5. \A f \in Turns : UNCHANGED batch /\ batch[f] = {} => batch' = [batch EXCEPT ![f] = {}]
  BY <1>0 DEF CoreTypeOK
<1>6. CASE BeginExecution
  <2>1. /\ FreshTurns # {} /\ pc[Telegram] = "begin" /\ SetTurn(NextTurn, "started")
        /\ Take(Telegram, NextTurn, "plan") /\ UNCHANGED <<rowVars, batch>>
        /\ UNCHANGED <<kind, posted, confirmed, inbox, offset, current>>
    BY <1>6 DEF BeginExecution, At
  <2>2. current' \in [Tasks -> Turns \cup {0}] /\ \A t \in Tasks : current'[t] = current[t]
    BY <1>0, <2>1 DEF CoreTypeOK
  <2>3. MarkProcessing({}, NextTurn) /\ batch' = [batch EXCEPT ![NextTurn] = {}]
    BY <1>1, <1>4, <1>5, <2>1
  <2> QED
    BY <1>0, <1>2, <2>1, <2>2, <2>3, BeginKeeps
<1>7. CASE StartCallback
  <2> DEFINE i == Least(inbox)
  <2>1. /\ FreshTurns # {} /\ pc[Telegram] = "stage" /\ SetTurn(NextTurn, "started")
        /\ Take(Telegram, NextTurn, "resolve") /\ inbox # {} /\ rowStatus[i] = "absent"
        /\ SetRow(i, "processing", NextTurn) /\ batch' = [batch EXCEPT ![NextTurn] = {i}]
        /\ UNCHANGED <<kind, posted, confirmed, inbox, offset, current>>
    BY <1>7 DEF StartCallback, At
  <2>2. i \in Rows
    BY <1>0, <2>1, LeastIsIn, RowsAreNumbers DEF CoreTypeOK
  <2>3. current' \in [Tasks -> Turns \cup {0}] /\ \A t \in Tasks : current'[t] = current[t]
    BY <1>0, <2>1 DEF CoreTypeOK
  <2>4. MarkProcessing({i}, NextTurn)
    BY <1>1, <1>3, <2>1, <2>2
  <2>5. {i} \in SUBSET Rows /\ {i} # {} /\ (\A j \in {i} : rowStatus[j] = "absent") /\ Least(inbox) \in {i}
        /\ (\A j, k \in {i} : j = k)
    BY <2>1, <2>2
  <2> HIDE DEF i
  <2> QED
    BY <1>0, <1>2, <2>1, <2>3, <2>4, <2>5, BeginKeeps
<1>8. ASSUME NEW t \in Tasks, ClaimDueTask(t) PROVE Kept
  <2>1. /\ FreshTurns # {} /\ pc[Harness] = "claim" /\ SetTurn(NextTurn, "started")
        /\ current' = [current EXCEPT ![t] = NextTurn]
        /\ UNCHANGED <<kind, posted, confirmed, inbox, offset>>
    BY <1>8 DEF ClaimDueTask, At
  <2>2. /\ current' \in [Tasks -> Turns \cup {0}]
        /\ \A u \in Tasks : current'[u] = current[u] \/ current'[u] = NextTurn
    BY <1>0, <1>1, <2>1 DEF CoreTypeOK
  <2>3. CASE Take(Harness, NextTurn, "suppress") /\ UNCHANGED <<rowVars, batch>>
    <3>1. MarkProcessing({}, NextTurn) /\ batch' = [batch EXCEPT ![NextTurn] = {}]
      BY <1>1, <1>4, <1>5, <2>1, <2>3
    <3> QED
      BY <1>0, <1>2, <2>1, <2>2, <2>3, <3>1, BeginKeeps
  <2>4. ASSUME NEW i \in Rows, rowStatus[i] = "absent", ClaimedRow(i, NextTurn),
               batch' = [batch EXCEPT ![NextTurn] = {i}], Take(Harness, NextTurn, "episode")
        PROVE  Kept
    <3>1. MarkProcessing({i}, NextTurn)
      BY <1>1, <1>3, <2>1, <2>4 DEF ClaimedRow
    <3>2. /\ {i} \in SUBSET Rows /\ {i} # {} /\ \A j \in {i} : rowStatus[j] = "absent"
          /\ \A j, k \in {i} : j = k
      BY <2>4
    <3> QED
      BY <1>0, <1>2, <2>1, <2>2, <2>4, <3>1, <3>2, BeginKeeps
  <2> QED
    BY <1>8, <2>3, <2>4 DEF ClaimDueTask
<1> QED
  BY <1>6, <1>7, <1>8

\* The rows a turn is planned over.
LEMMA SelectedIsRecoverable ==
  ASSUME CoreTypeOK, Pending # {}, NEW aged
  PROVE  Selected(aged) \subseteq Recoverable /\ Selected(aged) # {} /\ Selected(aged) \subseteq Rows
<1>1. Pending \subseteq Recoverable /\ Recoverable \subseteq Rows
  BY DEF Pending, Recoverable, CoreTypeOK
<1>2. Least(Pending) \in Pending
  BY <1>1, LeastIsIn, RowsAreNumbers
<1> QED
  BY <1>1, <1>2 DEF Selected

\* A turn is planned over rows that wait or went stale: nobody works on them.
LEMMA PlanKeeps ==
  ASSUME ForegroundInvariant, PlanTurn
  PROVE  Kept
<1> DEFINE e == turn[Telegram]
<1>0. /\ CoreTypeOK /\ TurnsKnown /\ TurnsApart /\ InboxKnown /\ ClosedMeansEnded
      /\ ~LiveTurnsGoStale => RowsApart
      /\ Telegram # Harness /\ Processes = {Telegram, Harness}
  BY DEF ForegroundInvariant, Processes, Telegram, Harness
<1>1. PICK aged \in BOOLEAN :
        /\ MarkProcessing(Selected(aged), e)
        /\ batch' = [batch EXCEPT ![e] = Selected(aged)]
        /\ Goto(Telegram, IF GoesThroughRecovery(aged) THEN "recover"
                          ELSE OpeningOf(Greatest(Selected(aged))))
  BY DEF PlanTurn
<1> DEFINE S == Selected(aged)
<1>2. S \subseteq Recoverable /\ S # {} /\ S \subseteq Rows
  BY <1>0, SelectedIsRecoverable DEF PlanTurn
<1>3. PICK next \in {"recover", "resolve", "parse", "episode"} : Goto(Telegram, next)
  BY <1>1 DEF OpeningOf
<1> HIDE DEF S
<1>4. /\ pc[Telegram] = "plan" /\ UNCHANGED <<kind, posted, confirmed, turnStatus, current>>
      /\ UNCHANGED <<turn, inbox, offset>>
  BY <1>3 DEF PlanTurn, At, Goto, serverVars, serviceVars, taskVars
<1>5. e \in Turns /\ e # 0 /\ turnStatus[e] # "none" /\ batch[e] = {}
  BY <1>0, <1>4 DEF CoreTypeOK, TurnsKnown, Alone
<1>6. next \in ProgramPoints /\ next \notin Alone \cup AfterEnd \cup {"plan"}
  BY DEF ProgramPoints, TurnPoints, ResolutionPoints, ServicePoints, Alone, AfterEnd
<1>7. /\ pc' \in [Processes -> ProgramPoints] /\ pc'[Telegram] = next /\ pc'[Harness] = pc[Harness]
      /\ batch' \in [Turns -> SUBSET Rows] /\ batch'[e] = S
      /\ \A f \in Turns \ {e} : batch'[f] = batch[f]
  BY <1>0, <1>1, <1>2, <1>3, <1>5, <1>6 DEF S, CoreTypeOK, Goto
<1>8. /\ rowStatus' \in [Rows -> RowStatuses] /\ rowTurn' \in [Rows -> Turns \cup {0}]
      /\ stale' = stale \ S /\ stale' \subseteq {i \in Rows : rowStatus'[i] = "processing"}
      /\ \A i \in S : rowStatus'[i] = "processing" /\ rowTurn'[i] = e
      /\ \A i \in Rows \ S : rowStatus'[i] = rowStatus[i] /\ rowTurn'[i] = rowTurn[i]
  BY <1>0, <1>1, <1>2, <1>5 DEF S, CoreTypeOK, MarkProcessing, RowStatuses
<1>9. \A i \in S : (rowStatus[i] = "pending" \/ i \in stale) /\ rowStatus[i] # "absent"
  BY <1>0, <1>2 DEF Recoverable, CoreTypeOK
<1>10. CoreTypeOK'
  BY <1>0, <1>4, <1>7, <1>8 DEF CoreTypeOK
<1>11. TurnsKnown'
  <2>1. turn[Harness] # 0 => turn[Harness] \in Turns
    BY <1>0 DEF CoreTypeOK
  <2>2. turn[Harness] # e
    BY <1>0, <1>5 DEF TurnsApart
  <2>3. \A f \in Turns : batch[f] # {} => batch'[f] # {}
    BY <1>2, <1>7
  <2>4. pc[Harness] \in Answering \cup {"plan"} => turn[Harness] # 0
    BY <1>0 DEF TurnsKnown, Answering, Alone, ResolutionPoints
  <2>5. /\ pc'[Harness] \in Alone <=> turn'[Harness] = 0
        /\ turn'[Harness] # 0 => turnStatus'[turn'[Harness]] # "none"
        /\ pc'[Harness] \in AfterEnd => turnStatus'[turn'[Harness]] \in Ended
        /\ pc'[Harness] \in Answering => batch'[turn'[Harness]] # {}
        /\ pc'[Harness] = "plan" => batch'[turn'[Harness]] = {}
    BY <1>0, <1>4, <1>7, <2>1, <2>2, <2>3, <2>4 DEF TurnsKnown
  <2>6. /\ pc'[Telegram] \in Alone <=> turn'[Telegram] = 0
        /\ turn'[Telegram] # 0 => turnStatus'[turn'[Telegram]] # "none"
        /\ pc'[Telegram] \in AfterEnd => turnStatus'[turn'[Telegram]] \in Ended
        /\ pc'[Telegram] \in Answering => batch'[turn'[Telegram]] # {}
        /\ pc'[Telegram] = "plan" => batch'[turn'[Telegram]] = {}
    BY <1>2, <1>4, <1>5, <1>6, <1>7
  <2>7. \A f \in Turns : turnStatus'[f] = "none" => batch'[f] = {}
    BY <1>0, <1>4, <1>5, <1>7 DEF TurnsKnown
  <2> QED
    BY <1>0, <2>5, <2>6, <2>7 DEF TurnsKnown
<1>12. ClosedMeansEnded'
  BY <1>0, <1>4, <1>8 DEF ClosedMeansEnded
<1>13. InboxKnown'
  <2>1. \A i \in Rows : Unstored(i)' => Unstored(i)
    BY <1>4, <1>8 DEF Unstored
  <2>2. pc[Telegram] \notin {"supervise", "fetch", "stage"}
    BY <1>4
  <2>3. pc'[Telegram] \notin {"supervise", "fetch"}
    BY <1>3, <1>7
  <2>4. inbox # {} => Least(inbox) \in Rows
    BY <1>0, RowsAreNumbers, LeastIsIn DEF CoreTypeOK
  <2>5. inbox = {} \/ rowStatus'[Least(inbox)] # "absent"
    BY <1>0, <1>8, <2>2, <2>4 DEF InboxKnown
  <2> QED
    BY <1>0, <1>4, <2>1, <2>3, <2>5 DEF InboxKnown
<1>14. ASSUME ~LiveTurnsGoStale PROVE RowsApart'
  <2>1. RowsApart
    BY <1>0, <1>14
  <2>2. \A i \in Rows : Handles(Telegram, i)' => i \in S
    BY <1>4, <1>7 DEF Handles
  <2>3. \A i \in Rows : Handles(Harness, i)' => i \notin S /\ Handles(Harness, i)
    <3>1. turn[Harness] # e
      BY <1>0, <1>5 DEF TurnsApart
    <3>2. \A i \in S : ~Handles(Harness, i)
      BY <1>0, <1>2, <1>9, <2>1 DEF RowsApart
    <3>3. \A i \in Rows : Handles(Harness, i)' => Handles(Harness, i)
      BY <1>0, <1>4, <1>7, <3>1 DEF Handles, CoreTypeOK
    <3> QED
      BY <3>2, <3>3
  <2>4. OneTurnPerRow'
    BY <2>2, <2>3 DEF OneTurnPerRow
  <2>5. ASSUME NEW i \in Rows, Handles(Telegram, i)'
        PROVE  /\ rowStatus'[i] = "processing" /\ i \notin stale' /\ rowTurn'[i] = turn'[Telegram]
    BY <1>4, <1>8, <2>2, <2>5
  <2>6. ASSUME NEW i \in Rows, Handles(Harness, i)'
        PROVE  /\ rowStatus'[i] \in {"processing", "processed"} /\ i \notin stale'
               /\ rowTurn'[i] = turn'[Harness]
               /\ pc'[Harness] \in Answering => rowStatus'[i] = "processing"
    BY <1>0, <1>4, <1>7, <1>8, <2>1, <2>3, <2>6 DEF RowsApart
  <2> QED
    BY <1>0, <2>4, <2>5, <2>6 DEF RowsApart
<1>15. TurnsApart'
  BY <1>0, <1>4 DEF TurnsApart
<1>16. ASSUME ~LiveTurnsGoStale PROVE Abstract!Next
  <2>1. RowsApart /\ RowsApart'
    BY <1>0, <1>14, <1>16
  <2>2. /\ \A i \in Rows : Handles(Telegram, i)' <=> i \in S
        /\ \A i \in Rows : ~Handles(Telegram, i)
        /\ \A i \in Rows : Handles(Harness, i)' <=> Handles(Harness, i)
    <3>1. turn[Harness] # e
      BY <1>0, <1>5 DEF TurnsApart
    <3>2. next \notin SchedulerPoints
      BY DEF SchedulerPoints
    <3> QED
      BY <1>0, <1>4, <1>5, <1>7, <3>1, <3>2 DEF Handles, CoreTypeOK
  <2>3. \A i \in Rows : Rows2Inbox(i)' = Rows2Inbox(i)
    <3>1. \A i \in S : rowStatus[i] \in {"pending", "processing"}
      BY <1>0, <1>9 DEF CoreTypeOK
    <3> QED
      BY <1>8, <3>1 DEF Rows2Inbox
  <2>4. ASSUME NEW i \in S
        PROVE  Rows2Inbox(i) = "open" /\ HandlerOf(i) = Nobody /\ HandlerOf(i)' = Telegram
    <3>1. rowStatus[i] \in {"pending", "processing"} /\ i \in Rows
      BY <1>0, <1>2, <1>9 DEF CoreTypeOK
    <3>2. \A q \in Processes : ~Handles(q, i)
      BY <1>9, <2>1, <3>1 DEF RowsApart
    <3>3. HandlerOf(i) = Nobody
      BY <2>1, <3>1, <3>2, HandlerIs
    <3>4. HandlerOf(i)' = Telegram
      BY <1>0, <1>8, <2>1, <2>2, <3>1, HandlerBecomes
    <3> QED
      BY <3>1, <3>3, <3>4 DEF Rows2Inbox
  <2>5. ASSUME NEW i \in Rows \ S PROVE HandlerOf(i)' = HandlerOf(i)
    BY <1>0, <1>8, <2>1, <2>2, HandlerIs, HandlerBecomes
  <2> QED
    BY <1>0, <1>2, <2>3, <2>4, <2>5, InboxTakes
<1> QED
  BY <1>10, <1>11, <1>12, <1>13, <1>14, <1>15, <1>16 DEF ForegroundInvariant, Kept

\* A row is stored, and the update it came in, if any, is dealt with.
LEMMA StoreKeeps ==
  ASSUME ForegroundInvariant, NEW i \in Rows, NEW status \in RowStatuses \ {"absent", "processed"},
         rowStatus[i] = "absent", rowStatus' = [rowStatus EXCEPT ![i] = status],
         UNCHANGED <<kind, posted, confirmed, rowTurn, stale, turnStatus, batch, turn, offset, current>>,
         inbox' \in {inbox, inbox \ {i}},
         \/ UNCHANGED pc /\ (pc[Telegram] = "stage" \/ UNCHANGED inbox)
         \/ pc[Harness] = "stageWake" /\ pc' = [pc EXCEPT ![Harness] = "recoverTasks"] /\ UNCHANGED inbox
  PROVE  Kept
<1>0. /\ CoreTypeOK /\ TurnsKnown /\ TurnsApart /\ InboxKnown /\ ClosedMeansEnded
      /\ ~LiveTurnsGoStale => RowsApart
      /\ Telegram # Harness /\ Processes = {Telegram, Harness}
  BY DEF ForegroundInvariant, Processes, Telegram, Harness
<1>1. /\ pc' \in [Processes -> ProgramPoints] /\ pc'[Telegram] = pc[Telegram]
      /\ \/ pc'[Harness] = pc[Harness]
         \/ pc[Harness] = "stageWake" /\ pc'[Harness] = "recoverTasks"
  <2>1. CASE UNCHANGED pc
    BY <1>0, <2>1 DEF CoreTypeOK
  <2>2. CASE pc[Harness] = "stageWake" /\ pc' = [pc EXCEPT ![Harness] = "recoverTasks"]
    BY <1>0, <2>2 DEF CoreTypeOK, ProgramPoints, SchedulerPoints
  <2> QED
    BY <2>1, <2>2
<1>2. /\ rowStatus' \in [Rows -> RowStatuses] /\ rowStatus'[i] = status
      /\ \A j \in Rows \ {i} : rowStatus'[j] = rowStatus[j]
      /\ stale \subseteq {j \in Rows : rowStatus'[j] = "processing"}
  BY <1>0 DEF CoreTypeOK
<1>3. CoreTypeOK'
  BY <1>0, <1>1, <1>2 DEF CoreTypeOK
<1>4. TurnsKnown'
  BY <1>0, <1>1 DEF TurnsKnown, Alone, AfterEnd, Answering, ResolutionPoints
<1>5. TurnsApart'
  BY <1>0 DEF TurnsApart
<1>6. InboxKnown'
  <2>1. \A j \in Rows : Unstored(j)' => Unstored(j) /\ j # i
    BY <1>2 DEF Unstored
  <2>2. inbox # {} => Least(inbox) \in Rows
    BY <1>0, RowsAreNumbers, LeastIsIn DEF CoreTypeOK
  <2>3. ASSUME pc[Telegram] \notin {"supervise", "fetch", "stage"}
        PROVE  inbox' = {} \/ rowStatus'[Least(inbox')] # "absent"
    BY <1>0, <1>2, <2>2, <2>3 DEF InboxKnown
  <2>4. \A j \in Rows : Unstored(j)' => confirmed' <= j /\ (j < offset' => j \in inbox')
    BY <1>0, <2>1 DEF InboxKnown
  <2>5. pc[Telegram] \in {"supervise", "fetch"} => inbox' = {}
    BY <1>0 DEF InboxKnown
  <2> QED
    BY <1>0, <1>1, <2>3, <2>4, <2>5 DEF InboxKnown
<1>7. ClosedMeansEnded'
  BY <1>0, <1>2 DEF ClosedMeansEnded
<1>8. ASSUME ~LiveTurnsGoStale PROVE RowsApart'
  <2>1. \A q \in Processes, j \in Rows : Handles(q, j)' => Handles(q, j)
    BY <1>0, <1>1 DEF Handles, SchedulerPoints
  <2>2. \A q \in Processes : ~Handles(q, i) /\ (pc'[q] \in Answering => pc[q] \in Answering)
    BY <1>0, <1>1, <1>8 DEF RowsApart, Answering, ResolutionPoints
  <2> QED
    BY <1>0, <1>2, <1>8, <2>1, <2>2 DEF RowsApart, OneTurnPerRow
<1>9. ASSUME ~LiveTurnsGoStale PROVE Abstract!Next
  <2>1. RowsApart /\ RowsApart'
    BY <1>0, <1>8, <1>9
  <2>2. \A q \in Processes, j \in Rows : Handles(q, j)' <=> Handles(q, j)
    BY <1>0, <1>1 DEF Handles, SchedulerPoints
  <2>3. \A j \in Rows \ {i} : Rows2Inbox(j)' = Rows2Inbox(j) /\ HandlerOf(j)' = HandlerOf(j)
    BY <1>2, <2>1, <2>2, HandlerIs, HandlerBecomes DEF Rows2Inbox
  <2>4. \A q \in Processes : ~Handles(q, i)
    BY <2>1 DEF RowsApart
  <2>5. HandlerOf(i) = Nobody /\ HandlerOf(i)' = Nobody
    BY <2>1, <2>2, <2>4, HandlerIs, HandlerBecomes
  <2>6. Rows2Inbox(i) = "absent" /\ Rows2Inbox(i)' \in {"open", "refused"}
    BY <1>2 DEF Rows2Inbox
  <2> QED
    BY <2>3, <2>5, <2>6, InboxStores
<1> QED
  BY <1>3, <1>4, <1>5, <1>6, <1>7, <1>8, <1>9 DEF ForegroundInvariant, Kept

\* Nothing happens to rows and turns but that an update waits no longer.
LEMMA IdleKeeps ==
  ASSUME ForegroundInvariant,
         UNCHANGED <<kind, confirmed, rowStatus, rowTurn, turnStatus, batch, pc, turn, offset, current>>,
         posted' \subseteq Rows, \A i \in posted', j \in Rows : j < i /\ kind[j] \in UpdateKinds => j \in posted',
         \/ UNCHANGED inbox
         \/ \E i \in Rows : /\ pc[Telegram] = "stage" /\ inbox' = inbox \ {i}
                            /\ rowStatus[i] # "absent" \/ kind[i] = "ignored",
         stale' \subseteq {i \in Rows : rowStatus[i] = "processing"},
         ~LiveTurnsGoStale => \A i \in stale' : i \in stale \/ \A q \in Processes : ~Handles(q, i)
  PROVE  Kept
<1>0. /\ CoreTypeOK /\ TurnsKnown /\ TurnsApart /\ InboxKnown /\ ClosedMeansEnded
      /\ ~LiveTurnsGoStale => RowsApart
  BY DEF ForegroundInvariant
<1>1. CoreTypeOK'
  BY <1>0 DEF CoreTypeOK
<1>2. TurnsKnown' /\ TurnsApart' /\ ClosedMeansEnded'
  BY <1>0 DEF TurnsKnown, TurnsApart, ClosedMeansEnded
<1>3. InboxKnown'
  <2>1. \A j \in Rows : Unstored(j)' => Unstored(j) /\ (j \in inbox => j \in inbox')
    BY DEF Unstored
  <2>2. CASE UNCHANGED inbox
    BY <1>0, <2>1, <2>2 DEF InboxKnown
  <2>3. CASE pc[Telegram] = "stage"
    BY <1>0, <2>1, <2>3 DEF InboxKnown
  <2> QED
    BY <2>2, <2>3
<1>4. ASSUME ~LiveTurnsGoStale PROVE RowsApart'
  <2>1. \A q \in Processes, j \in Rows : Handles(q, j)' => Handles(q, j)
    BY DEF Handles
  <2>2. OneTurnPerRow'
    BY <1>0, <1>4, <2>1 DEF RowsApart, OneTurnPerRow, Processes
  <2>3. \A q \in Processes, j \in Rows : Handles(q, j)' => j \notin stale'
    BY <1>0, <1>4, <2>1 DEF RowsApart
  <2> QED
    BY <1>0, <1>4, <2>1, <2>2, <2>3 DEF RowsApart
<1>5. UNCHANGED Abstract!vars
  BY DEF Abstract!vars, Rows2Inbox, HandlerOf, Handles
<1> QED
  BY <1>1, <1>2, <1>3, <1>4, <1>5 DEF ForegroundInvariant, Kept

\* A fetch confirms what the iteration before handled: what is not stored is
\* among the updates it returns.
LEMMA FetchKeeps ==
  ASSUME ForegroundInvariant, FetchUpdates
  PROVE  Kept
<1> DEFINE got == {i \in posted : i >= confirmed'}
<1>0. /\ CoreTypeOK /\ TurnsKnown /\ TurnsApart /\ InboxKnown /\ ClosedMeansEnded
      /\ ~LiveTurnsGoStale => RowsApart
      /\ Telegram # Harness /\ Processes = {Telegram, Harness}
  BY DEF ForegroundInvariant, Processes, Telegram, Harness
<1>1. /\ pc[Telegram] = "fetch" /\ inbox' = got /\ pc' = [pc EXCEPT ![Telegram] = "stage"]
      /\ confirmed' = IF offset > confirmed THEN offset ELSE confirmed
      /\ offset' = IF got = {} THEN offset ELSE Greatest(got) + 1
      /\ UNCHANGED <<kind, posted, rowVars, turnStatus, batch, turn, current>>
  BY DEF FetchUpdates, At, planVars, taskVars
<1>2. pc' \in [Processes -> ProgramPoints] /\ pc'[Telegram] = "stage" /\ pc'[Harness] = pc[Harness]
  BY <1>0, <1>1 DEF CoreTypeOK, ProgramPoints, ServicePoints
<1>3. got \subseteq Rows /\ (got # {} => Greatest(got) \in got /\ \A j \in got : j <= Greatest(got))
  <2>1. got \subseteq Rows
    BY <1>0 DEF CoreTypeOK
  <2> HIDE DEF got
  <2>2. got \subseteq Nat /\ IsFiniteSet(got)
    BY <2>1, RowsAreNumbers, FS_Subset
  <2> QED
    BY <2>1, <2>2, GreatestIsIn
<1>4. confirmed' \in Nat /\ offset' \in Nat
  <2>1. confirmed' \in Nat
    BY <1>0, <1>1 DEF CoreTypeOK
  <2>2. got # {} => Greatest(got) \in Nat
    BY <1>3, RowsAreNumbers
  <2> HIDE DEF got
  <2> QED
    BY <1>0, <1>1, <2>1, <2>2 DEF CoreTypeOK
<1>5. CoreTypeOK'
  BY <1>0, <1>1, <1>2, <1>3, <1>4 DEF CoreTypeOK, rowVars
<1>6. TurnsKnown'
  BY <1>0, <1>1, <1>2 DEF TurnsKnown, Alone, AfterEnd, Answering, ResolutionPoints
<1>7. TurnsApart' /\ ClosedMeansEnded'
  BY <1>0, <1>1 DEF TurnsApart, ClosedMeansEnded, rowVars
<1>8. InboxKnown'
  <2>1. ASSUME NEW i \in Rows, Unstored(i)'
        PROVE  confirmed' <= i /\ (i < offset' => i \in got)
    <3>1. /\ Unstored(i) /\ i \in Nat /\ kind[i] \in UpdateKinds
          /\ confirmed <= i /\ ~(i < offset)
      BY <1>0, <1>1, <2>1, RowsAreNumbers DEF InboxKnown, Unstored, rowVars
    <3>2. confirmed' <= i
      BY <1>0, <1>1, <3>1 DEF CoreTypeOK
    <3>3. ASSUME i < offset' PROVE i \in got
      <4>1. got # {} /\ offset' = Greatest(got) + 1
        BY <1>1, <3>1, <3>3
      <4>2. Greatest(got) \in posted /\ Greatest(got) \in Nat
        BY <1>3, <4>1, RowsAreNumbers
      <4>3. i <= Greatest(got)
        BY <3>1, <3>3, <4>1, <4>2
      <4>4. i = Greatest(got) \/ i < Greatest(got)
        BY <3>1, <4>2, <4>3
      <4>5. i \in posted
        BY <1>0, <3>1, <4>2, <4>4 DEF InboxKnown
      <4> QED
        BY <1>4, <3>1, <3>2, <4>5
    <3> QED
      BY <3>2, <3>3
  <2> QED
    BY <1>0, <1>1, <1>2, <2>1 DEF InboxKnown
<1>9. ASSUME ~LiveTurnsGoStale PROVE RowsApart'
  <2>1. \A q \in Processes, i \in Rows : Handles(q, i)' => Handles(q, i)
    BY <1>0, <1>1, <1>2 DEF Handles, SchedulerPoints, TurnsKnown, Alone
  <2>2. \A q \in Processes : pc'[q] \in Answering => pc[q] \in Answering
    BY <1>0, <1>2 DEF Answering, ResolutionPoints
  <2> QED
    BY <1>0, <1>1, <1>9, <2>1, <2>2 DEF RowsApart, OneTurnPerRow, rowVars
<1>10. ASSUME ~LiveTurnsGoStale PROVE Abstract!Next
  <2>1. \A q \in Processes, i \in Rows : Handles(q, i)' <=> Handles(q, i)
    BY <1>0, <1>1, <1>2 DEF Handles, SchedulerPoints, TurnsKnown, Alone
  <2>2. \A i \in Rows : Rows2Inbox(i)' = Rows2Inbox(i) /\ HandlerOf(i)' = HandlerOf(i)
    BY <1>0, <1>1, <1>9, <1>10, <2>1, HandlerIs, HandlerBecomes DEF Rows2Inbox, rowVars
  <2> QED
    BY <2>2, InboxDrops
<1> QED
  BY <1>5, <1>6, <1>7, <1>8, <1>9, <1>10 DEF ForegroundInvariant, Kept

\* The harness takes up a run that a crash left.
LEMMA RecoverTaskKeeps ==
  ASSUME ForegroundInvariant, NEW t \in Tasks, RecoverTask(t)
  PROVE  Kept
<1> DEFINE e == current[t]
<1>0. /\ CoreTypeOK /\ TurnsKnown /\ TurnsApart /\ InboxKnown /\ ClosedMeansEnded
      /\ ~LiveTurnsGoStale => RowsApart
      /\ Telegram # Harness /\ Processes = {Telegram, Harness}
  BY DEF ForegroundInvariant, Processes, Telegram, Harness
<1>1. /\ pc[Harness] = "recoverTasks" /\ e # 0 /\ turn' = [turn EXCEPT ![Harness] = e]
      /\ UNCHANGED <<kind, posted, confirmed, rowVars, turnStatus, batch, inbox, offset, current>>
  BY DEF RecoverTask, RecoverableTask, Take, At, serverVars, planVars, serviceVars, taskVars
<1>2. PICK next \in {"failStranded", "recordRecovered"} : pc' = [pc EXCEPT ![Harness] = next]
  BY DEF RecoverTask, Take
<1>3. next \in ProgramPoints /\ next \in SchedulerPoints /\ next \notin Alone \cup AfterEnd \cup Answering \cup {"plan"}
  BY DEF ProgramPoints, SchedulerPoints, Alone, AfterEnd, Answering, ResolutionPoints
<1>4. e \in Turns /\ turnStatus[e] # "none" /\ e # turn[Telegram]
  BY <1>0, <1>1 DEF CoreTypeOK, TurnsApart
<1>5. /\ pc' \in [Processes -> ProgramPoints] /\ turn' \in [Processes -> Turns \cup {0}]
      /\ pc'[Harness] = next /\ turn'[Harness] = e
      /\ pc'[Telegram] = pc[Telegram] /\ turn'[Telegram] = turn[Telegram]
  BY <1>0, <1>1, <1>2, <1>3, <1>4 DEF CoreTypeOK
<1> HIDE DEF e
<1>6. CoreTypeOK'
  BY <1>0, <1>1, <1>5 DEF CoreTypeOK, rowVars
<1>7. TurnsKnown'
  BY <1>0, <1>1, <1>3, <1>4, <1>5, RowsAreNumbers DEF TurnsKnown
<1>8. TurnsApart' /\ ClosedMeansEnded' /\ InboxKnown'
  BY <1>0, <1>1, <1>4, <1>5 DEF TurnsApart, ClosedMeansEnded, InboxKnown, Unstored, rowVars
<1>9. ASSUME ~LiveTurnsGoStale PROVE RowsApart'
  <2>1. \A i \in Rows : ~Handles(Harness, i)' /\ (Handles(Telegram, i)' => Handles(Telegram, i))
    BY <1>1, <1>3, <1>5 DEF Handles
  <2> QED
    BY <1>0, <1>1, <1>5, <1>9, <2>1 DEF RowsApart, OneTurnPerRow, rowVars
<1>10. ASSUME ~LiveTurnsGoStale PROVE Abstract!Next
  <2>1. \A q \in Processes, i \in Rows : Handles(q, i)' => Handles(q, i)
    BY <1>0, <1>1, <1>3, <1>5 DEF Handles
  <2>2. \A i \in Rows : Rows2Inbox(i)' = Rows2Inbox(i) /\ HandlerOf(i)' \in {HandlerOf(i), Nobody}
    BY <1>0, <1>1, <1>9, <1>10, <2>1, HandlerIs, HandlerBecomes DEF Rows2Inbox, rowVars
  <2> QED
    BY <2>2, InboxDrops
<1> QED
  BY <1>6, <1>7, <1>8, <1>9, <1>10 DEF ForegroundInvariant, Kept

-----------------------------------------------------------------------------
(* The whole next-state relation. *)

\* Updates are stored, refused or passed over in the order they came.
LEMMA StagingKeeps ==
  ASSUME ForegroundInvariant, SkipUpdate \/ StageMessage \/ StageWakeSignal
  PROVE  Kept
<1> DEFINE i == Least(inbox)
<1> USE DEF serverVars, planVars, taskVars, serviceVars
<1>0. /\ CoreTypeOK /\ {"pending", "rejected"} \subseteq RowStatuses \ {"absent", "processed"}
      /\ \A j \in posted, k \in Rows : k < j /\ kind[k] \in UpdateKinds => k \in posted
      /\ posted \subseteq Rows /\ stale \subseteq {j \in Rows : rowStatus[j] = "processing"}
  BY DEF ForegroundInvariant, CoreTypeOK, InboxKnown, RowStatuses
<1>1. inbox # {} => i \in Rows
  BY <1>0, LeastIsIn, RowsAreNumbers DEF CoreTypeOK
<1>2. CASE SkipUpdate
  <2>1. /\ inbox # {} /\ pc[Telegram] = "stage" /\ inbox' = inbox \ {i}
        /\ rowStatus[i] # "absent" \/ kind[i] \in {"ignored", "refused"}
        /\ UNCHANGED <<kind, posted, confirmed, rowTurn, stale, turnStatus, batch, pc, turn, offset, current>>
    BY <1>2 DEF SkipUpdate, At, rowVars
  <2>2. CASE rowStatus[i] = "absent" /\ kind[i] = "refused"
    <3>1. rowStatus' = [rowStatus EXCEPT ![i] = "rejected"]
      BY <1>2, <2>2 DEF SkipUpdate
    <3> HIDE DEF i
    <3> QED
      BY <1>0, <1>1, <2>1, <2>2, <3>1, StoreKeeps
  <2>3. CASE ~(rowStatus[i] = "absent" /\ kind[i] = "refused")
    <3>1. UNCHANGED rowStatus
      BY <1>2, <2>3 DEF SkipUpdate, rowVars
    <3>2. rowStatus[i] # "absent" \/ kind[i] = "ignored"
      BY <2>1, <2>3
    <3> HIDE DEF i
    <3> QED
      BY <1>0, <1>1, <2>1, <3>1, <3>2, IdleKeeps
  <2> QED
    BY <2>2, <2>3
<1>3. CASE StageMessage
  <2>1. /\ inbox # {} /\ pc[Telegram] = "stage" /\ inbox' = inbox \ {i} /\ rowStatus[i] = "absent"
        /\ rowStatus' = [rowStatus EXCEPT ![i] = "pending"]
        /\ UNCHANGED <<kind, posted, confirmed, rowTurn, stale, turnStatus, batch, pc, turn, offset, current>>
    BY <1>3 DEF StageMessage, At
  <2> HIDE DEF i
  <2> QED
    BY <1>0, <1>1, <2>1, StoreKeeps
<1>4. CASE StageWakeSignal
  <2>0. Harness \in Processes /\ Harness # Telegram
    BY DEF Processes, Harness, Telegram
  <2>1. /\ pc[Harness] = "stageWake" /\ Goto(Harness, "recoverTasks")
        /\ UNCHANGED <<kind, posted, confirmed, rowTurn, stale, turnStatus, batch, current>>
    BY <1>4 DEF StageWakeSignal, At
  <2>2. ASSUME NEW j \in Rows, rowStatus[j] = "absent", rowStatus' = [rowStatus EXCEPT ![j] = "pending"]
        PROVE  Kept
    BY <1>0, <2>1, <2>2, StoreKeeps DEF Goto
  <2>3. CASE UNCHANGED rowStatus
    <3>1. "recoverTasks" \in ProgramPoints
      BY DEF ProgramPoints, SchedulerPoints
    <3>2. GoesOn(pc[Harness], "recoverTasks") /\ pc[Harness] # "stage"
      BY <2>1 DEF GoesOn, Alone, AfterEnd, Answering, ResolutionPoints, SchedulerPoints
    <3> QED
      BY <2>0, <2>1, <2>3, <3>1, <3>2, GotoLeaves, QuietKeeps DEF rowVars
  <2> QED
    BY <1>4, <2>2, <2>3 DEF StageWakeSignal
<1> QED
  BY <1>2, <1>3, <1>4

\* Time and the user change no turn.
LEMMA TimeKeeps ==
  ASSUME ForegroundInvariant, TimePasses
  PROVE  Kept
<1> USE DEF serverVars, rowVars, planVars, taskVars, serviceVars
<1>0. /\ posted \subseteq Rows /\ stale \subseteq {j \in Rows : rowStatus[j] = "processing"}
      /\ \A j \in posted, k \in Rows : k < j /\ kind[k] \in UpdateKinds => k \in posted
  BY DEF ForegroundInvariant, CoreTypeOK, InboxKnown
<1>1. ASSUME NEW i \in Rows, Post(i) PROVE Kept
  <2>1. posted' = posted \cup {i} /\ \A j \in Rows : j < i /\ kind[j] \in UpdateKinds => j \in posted
    BY <1>1 DEF Post
  <2>2. \A j \in posted', k \in Rows : k < j /\ kind[k] \in UpdateKinds => k \in posted'
    BY <1>0, <2>1
  <2>3. UNCHANGED <<kind, confirmed, rowStatus, rowTurn, stale, turnStatus, batch, pc, turn, inbox, offset, current>>
    BY <1>1 DEF Post
  <2> QED
    BY <1>0, <2>1, <2>2, <2>3, IdleKeeps
<1>2. ASSUME NEW i \in Rows, RowGoesStale(i) PROVE Kept
  <2>1. /\ UNCHANGED <<kind, posted, confirmed, rowStatus, rowTurn, turnStatus, batch, pc, turn, inbox, offset, current>>
        /\ stale' = stale \cup {i} /\ rowStatus[i] = "processing"
        /\ LiveTurnsGoStale \/ \A q \in Processes : ~Handles(q, i)
    BY <1>2 DEF RowGoesStale
  <2> QED
    BY <1>0, <2>1, IdleKeeps
<1>3. ASSUME \/ \E e \in Turns : LeaseFallsDue(e)
             \/ \E t \in Tasks : RunGetsOld(t) \/ TaskFallsDue(t) \/ UpdateTask(t)
      PROVE  Kept
  <2>1. UNCHANGED <<kind, posted, confirmed, rowStatus, rowTurn, stale, turnStatus, batch, pc, turn, inbox,
                    offset, current>>
    BY <1>3 DEF LeaseFallsDue, RunGetsOld, TaskFallsDue, UpdateTask
  <2> QED
    BY <1>0, <2>1, IdleKeeps
<1> QED
  BY <1>1, <1>2, <1>3 DEF TimePasses

\* Errors and crashes lose what a process knew, and nothing else.
LEMMA FaultsKeep ==
  ASSUME ForegroundInvariant, NEW p \in Processes, StatementFails(p) \/ FailureFails(p) \/ Crash(p)
  PROVE  Kept
<1> USE DEF serverVars, planVars, taskVars
<1>1. UNCHANGED <<kind, posted, confirmed, rowVars, turnStatus, batch, current>>
  BY DEF StatementFails, FailureFails, Crash
<1>2. CASE StatementFails(p)
  <2>1. PICK next \in ErrorPath[pc[p]] : Goto(p, next)
    BY <1>2 DEF StatementFails
  <2>2. pc[p] \in TurnPoints \cup FailurePoints \cup ResolutionPoints
    BY <1>2 DEF StatementFails, ErrorPath
  <2>3. /\ next \in {"failQuietly", "fail", "sendNoticeOnly", "sendNotice", "closeFailed", "attachNotice",
                    "failResolution"}
        /\ next = "sendNotice" => pc[p] = "notice"
        /\ next = "closeFailed" => pc[p] = "sendNotice"
        /\ next = "attachNotice" => pc[p] = "closeFailed"
        /\ next = "failResolution" => pc[p] \in ResolutionPoints
    BY <2>1, <2>2 DEF ErrorPath, TurnPoints, FailurePoints, ResolutionPoints
  <2>4. next \in ProgramPoints /\ pc[p] # "stage"
    BY <2>2, <2>3 DEF ProgramPoints, TurnPoints, FailurePoints, ResolutionPoints
  <2>5. GoesOn(pc[p], next)
    BY <2>2, <2>3 DEF GoesOn, Alone, AfterEnd, Answering, TurnPoints, FailurePoints,
       ResolutionPoints,
                      SchedulerPoints
  <2> QED
    BY <1>1, <2>1, <2>4, <2>5, GotoLeaves, QuietKeeps
<1>3. CASE FailureFails(p)
  BY <1>1, <1>3, ReturnLeaves, QuietKeeps DEF FailureFails, FailurePoints
<1>4. CASE Crash(p)
  BY <1>1, <1>4, RestartLeaves, QuietKeeps DEF Crash
<1> QED
  BY <1>2, <1>3, <1>4

\* Every step keeps the invariant.
LEMMA NextKeeps ==
  ASSUME ForegroundInvariant, [Next]_vars
  PROVE  Kept
<1>1. CASE UNCHANGED vars
  <2>1. UNCHANGED <<kind, posted, confirmed, rowStatus, rowTurn, stale, turnStatus, batch, pc, turn, inbox,
                    offset, current>>
    BY <1>1 DEF vars, serverVars, rowVars, planVars, serviceVars, taskVars
  <2>2. /\ posted \subseteq Rows /\ stale \subseteq {j \in Rows : rowStatus[j] = "processing"}
        /\ \A j \in posted, k \in Rows : k < j /\ kind[k] \in UpdateKinds => k \in posted
    BY DEF ForegroundInvariant, CoreTypeOK, InboxKnown
  <2> QED
    BY <2>1, <2>2, IdleKeeps
<1>2. CASE TimePasses
  BY <1>2, TimeKeeps
<1>3. CASE Faults
  BY <1>3, FaultsKeep DEF Faults
<1>4. ASSUME NEW p \in Processes, ProcessStep(p) PROVE Kept
  <2>1. CASE SuperviseLeases(p)
    BY <2>1, TurnQuietly
  <2>2. CASE TurnStep(p)
    <3>1. CASE CloseRows(p) \/ CloseFailedRows(p)
      BY <3>1, CloseRowKeeps DEF CloseRows, CloseFailedRows
    <3>2. CASE SucceedTurn(p) \/ FailTurn(p)
      BY <3>2, TurnEnds
    <3> QED
      BY <2>2, <3>1, <3>2, TurnQuietly DEF TurnStep
  <2>3. CASE p = Telegram /\ TelegramStep
    <3>1. CASE CloseBlockedRows
      BY <2>3, <3>1, CloseRowKeeps DEF CloseBlockedRows
    <3>2. CASE FetchUpdates
      BY <3>2, FetchKeeps
    <3>3. CASE PlanTurn
      BY <3>3, PlanKeeps
    <3>4. CASE SkipUpdate \/ StageMessage
      BY <3>4, StagingKeeps
    <3>5. CASE BeginExecution \/ StartCallback
      BY <3>5, TurnBegins
    <3>6. CASE BlockRecovery \/ EndResolution
      BY <2>3, <3>6, TurnEnds
    <3>7. CASE CloseResolution
      BY <3>7, CloseResolutionKeeps
    <3> QED
      BY <2>3, <3>1, <3>2, <3>3, <3>4, <3>5, <3>6, <3>7, ServiceQuietly DEF TelegramStep,
         ResolutionStep
  <2>4. CASE p = Harness /\ HarnessStep
    <3>1. CASE StageWakeSignal
      BY <3>1, StagingKeeps
    <3>2. CASE FailStrandedRun \/ SuppressRun
      BY <2>4, <3>2, TurnEnds
    <3>3. ASSUME NEW t \in Tasks, RecoverTask(t) PROVE Kept
      BY <3>3, RecoverTaskKeeps
    <3>4. ASSUME NEW t \in Tasks, ClaimDueTask(t) PROVE Kept
      BY <3>4, TurnBegins
    <3> QED
      BY <2>4, <3>1, <3>2, <3>3, <3>4, SchedulerQuietly DEF HarnessStep
  <2> QED
    BY <1>4, <2>1, <2>2, <2>3, <2>4 DEF ProcessStep
<1> QED
  BY <1>1, <1>2, <1>3, <1>4 DEF Next

\* It holds at the start: nothing was posted and nobody has a turn.
LEMMA InitInvariant ==
  ASSUME Init
  PROVE  ForegroundInvariant
<1>1. CoreTypeOK
  BY DEF Init, CoreTypeOK, RowStatuses, TurnStatuses, ProgramPoints
<1>2. TurnsKnown /\ TurnsApart
  BY DEF Init, TurnsKnown, TurnsApart, Alone, AfterEnd, Answering, ResolutionPoints, Processes
<1>3. InboxKnown
  BY RowsAreNumbers DEF Init, InboxKnown, Unstored, Processes
<1>4. ClosedMeansEnded
  BY DEF Init, ClosedMeansEnded
<1>5. RowsApart
  BY DEF Init, RowsApart, OneTurnPerRow, Handles, Processes
<1> QED
  BY <1>1, <1>2, <1>3, <1>4, <1>5 DEF ForegroundInvariant

\* The invariant in every reachable state.
LEMMA InvariantHolds == Spec => []ForegroundInvariant
<1>1. Init => ForegroundInvariant
  BY InitInvariant
<1>2. ForegroundInvariant /\ [Next]_vars => ForegroundInvariant'
  BY NextKeeps DEF Kept
<1> QED
  BY <1>1, <1>2, PTL DEF Spec

-----------------------------------------------------------------------------
(* The theorems. *)

\* Whatever fails between a fetch and the next, the Telegram server has forgotten
\* no update whose row is not stored (telegram.rs: the offset is that of the
\* iteration before, and a restart asks without one).
THEOREM UpdatesAreKept == Spec => []ConfirmedAreStored
<1>1. ForegroundInvariant => ConfirmedAreStored
  <2>1. SUFFICES ASSUME ForegroundInvariant, NEW i \in Rows, kind[i] \in UpdateKinds \ {"ignored"},
                        i < confirmed, rowStatus[i] = "absent"
                 PROVE  FALSE
    BY DEF ConfirmedAreStored
  <2>2. confirmed <= i /\ i \in Nat /\ confirmed \in Nat
    BY <2>1, RowsAreNumbers DEF ForegroundInvariant, InboxKnown, Unstored, CoreTypeOK
  <2> QED
    BY <2>1, <2>2
<1> QED
  BY <1>1, InvariantHolds, PTL

\* No turn, answered, failed, blocked or resolved, closes a row while its
\* execution is still running.
THEOREM RowsCloseLast == Spec => []ClosedMeansEnded
<1>1. ForegroundInvariant => ClosedMeansEnded
  BY DEF ForegroundInvariant
<1> QED
  BY <1>1, InvariantHolds, PTL

\* As long as a turn that runs is not taken for one that was interrupted, the
\* Telegram service and the scheduler never work on the same row.
THEOREM RowsHaveOneWorker == ~LiveTurnsGoStale => (Spec => []OneTurnPerRow)
<1>1. ASSUME ~LiveTurnsGoStale, ForegroundInvariant PROVE OneTurnPerRow
  BY <1>1 DEF ForegroundInvariant, RowsApart
<1>2. ASSUME ~LiveTurnsGoStale PROVE Spec => []OneTurnPerRow
  <2>1. ForegroundInvariant => OneTurnPerRow
    BY <1>1, <1>2
  <2> QED
    BY <2>1, InvariantHolds, PTL
<1> QED
  BY <1>2

\* Under the same condition the rows, through every error and crash, are the
\* abstract inbox: stored once, dealt with by one process at a time, closed by it
\* and never opened again.
THEOREM ImplementsAbstractInbox == ~LiveTurnsGoStale => (Spec => ImplementsInbox)
<1>1. Init => Abstract!Init
  BY DEF Init, Abstract!Init, Rows2Inbox, HandlerOf
<1>2. ASSUME ~LiveTurnsGoStale PROVE Spec => ImplementsInbox
  <2>1. ForegroundInvariant /\ [Next]_vars => [Abstract!Next]_(Abstract!vars)
    BY <1>2, NextKeeps DEF Kept
  <2> QED
    BY <1>1, <2>1, InvariantHolds, PTL DEF Spec, ImplementsInbox, Abstract!Spec
<1> QED
  BY <1>2

-----------------------------------------------------------------------------
(* The remaining types. *)

\* The variables ForegroundInvariant leaves out.
RestTypeOK ==
  /\ resumed \in [Turns -> Turns \cup {0}]
  /\ episode \in [Turns -> EpisodeStatuses]
  /\ messages \in [Turns -> SUBSET {"answer", "notice"}]
  /\ delivered \in [Turns -> SUBSET {"answer", "notice", "blocked", "resolution"}]
  /\ attached \in [Turns -> SUBSET {"answer", "notice"}]
  /\ lease \in [Turns -> LeaseStatuses]
  /\ acted \subseteq Turns /\ linked \subseteq Turns
  /\ news \in BOOLEAN /\ backlog \in BOOLEAN
  /\ task \in Tasks \cup {0}
  /\ taskStatus \in [Tasks -> {"active", "paused", "disabled"}]
  /\ due \subseteq Tasks
  /\ old \subseteq {t \in Tasks : current[t] # 0}
  /\ lastTurn \in [Tasks -> Turns \cup {0}]
  /\ lastOutcome \in [Tasks -> {"none", "completed", "suppressed", "failed"}]
  /\ faults \in 0 .. MaxFaults

\* A turn asks for another pass only below the limit, and a new turn has had none.
PassesKnown ==
  /\ passes \in [Processes -> 0 .. MaxPasses]
  /\ \A p \in Processes :
       /\ pc[p] = "lease" => passes[p] < MaxPasses
       /\ pc[p] \in {"episode", "context"} => passes[p] = 0
  /\ pc[Telegram] \in Alone \cup {"plan", "recover"} => passes[Telegram] = 0

\* What leaving the iteration does to the remaining variables.
LEMMA ReturnTypes ==
  ASSUME RestTypeOK, NEW p \in Processes,
         (\E next : Goto(p, next)) \/ Restart(p) \/ EndIteration \/ TurnSucceeds(p) \/ TurnErrs(p)
  PROVE  news' \in BOOLEAN /\ backlog' \in BOOLEAN /\ task' \in Tasks \cup {0}
BY DEF RestTypeOK, Goto, Restart, EndIteration, TurnSucceeds, TurnErrs, serviceVars

\* Every step keeps the remaining types.
LEMMA RestTypesKept ==
  ASSUME CoreTypeOK, CoreTypeOK', TurnsKnown, RestTypeOK, Next
  PROVE  RestTypeOK'
<1> USE DEF taskVars, planVars, messageVars, actionVars
<1>0. \A p \in Processes : pc[p] \notin Alone => turn[p] \in Turns
  BY DEF CoreTypeOK, TurnsKnown
<1>1. ASSUME NEW p \in Processes, SuperviseLeases(p) \/ TurnStep(p)
      PROVE  RestTypeOK'
  <2>1. CASE SuperviseLeases(p)
    BY <2>1, ReturnTypes DEF RestTypeOK, SuperviseLeases, LeaseStatuses
  <2>2. CASE OpenEpisode(p) \/ CompleteEpisode(p)
    BY <2>2, ReturnTypes DEF RestTypeOK, OpenEpisode, CompleteEpisode, SetEpisode, EpisodeStatuses
  <2>3. CASE AcquireLease(p)
    BY <2>3 DEF RestTypeOK, AcquireLease, LeaseStatuses, serviceVars
  <2>4. CASE Work(p) \/ CheckLease(p)
    BY <2>4, ReturnTypes DEF RestTypeOK, Work, CheckLease, LeaseStatuses
  <2>5. CASE Act(p)
    <3>1. turn[p] \in Turns
      BY <1>0, <2>5 DEF Act, At, Alone
    <3> QED
      BY <2>5, <3>1, ReturnTypes DEF RestTypeOK, Act
  <2>6. CASE RecordAnswer(p) \/ RecordNotice(p)
    BY <2>6, ReturnTypes DEF RestTypeOK, RecordAnswer, RecordNotice
  <2>7. CASE DeliverAnswer(p) \/ DeliverNotice(p)
    BY <2>7, ReturnTypes DEF RestTypeOK, DeliverAnswer, DeliverNotice
  <2>8. CASE AttachAnswer(p) \/ AttachNotice(p)
    BY <2>8, ReturnTypes DEF RestTypeOK, AttachAnswer, AttachNotice
  <2>9. CASE AssembleContext(p) \/ SucceedTurn(p) \/ FinishTurn(p) \/ FailTurn(p)
    BY <2>9, ReturnTypes DEF RestTypeOK, AssembleContext, SucceedTurn, FinishTurn, FailTurn
  <2>10. CASE CloseRows(p) \/ CloseFailedRows(p)
    BY <2>10, ReturnTypes DEF RestTypeOK, CloseRows, CloseFailedRows, CloseRow
  <2>11. CASE FailEpisode(p)
    BY <2>11, ReturnTypes DEF RestTypeOK, FailEpisode, SetEpisode, EpisodeStatuses
  <2> QED
    BY <1>1, <2>1, <2>2, <2>3, <2>4, <2>5, <2>6, <2>7, <2>8, <2>9, <2>10, <2>11 DEF TurnStep
<1>2. ASSUME TelegramStep PROVE RestTypeOK'
  <2>0. Telegram \in Processes
    BY DEF Processes
  <2>1. CASE FetchUpdates \/ SkipUpdate \/ StageMessage
    BY <2>1 DEF RestTypeOK, FetchUpdates, SkipUpdate, StageMessage
  <2>2. CASE StartCallback \/ BeginExecution
    BY <2>2 DEF RestTypeOK, StartCallback, BeginExecution, serviceVars
  <2>3. CASE ScanConversation
    BY <2>3, <2>0, ReturnTypes DEF RestTypeOK, ScanConversation
  <2>4. CASE PlanTurn
    <3>1. PICK aged \in BOOLEAN :
            resumed' = [resumed EXCEPT ![turn[Telegram]] =
                          IF Selected(aged) \cap Interrupted = {} THEN 0
                          ELSE rowTurn[Least(Selected(aged) \cap Interrupted)]]
      BY <2>4 DEF PlanTurn
    <3>2. Selected(aged) \cap Interrupted \subseteq Rows
      BY <2>4, SelectedIsRecoverable DEF PlanTurn
    <3>3. Selected(aged) \cap Interrupted # {} => Least(Selected(aged) \cap Interrupted) \in Rows
      BY <3>2, LeastIsIn, RowsAreNumbers
    <3>4. resumed' \in [Turns -> Turns \cup {0}]
      BY <3>1, <3>3 DEF RestTypeOK, CoreTypeOK
    <3> QED
      BY <2>4, <2>0, <3>4, ReturnTypes DEF RestTypeOK, PlanTurn
  <2>5. CASE PlanNothing \/ RefuseMalformed \/ RecoverRestart \/ BlockRecovery
    BY <2>5, <2>0, ReturnTypes DEF RestTypeOK, PlanNothing, RefuseMalformed, RecoverRestart,
       BlockRecovery
  <2>6. CASE SendBlocked
    BY <2>6, <2>0, ReturnTypes DEF RestTypeOK, SendBlocked
  <2>7. CASE CloseBlockedRows \/ CloseResolution
    BY <2>7, <2>0, ReturnTypes DEF RestTypeOK, CloseBlockedRows, CloseRow, CloseResolution
  <2>8. CASE ResolveRequest \/ EndResolution
    BY <2>8, <2>0, ReturnTypes DEF RestTypeOK, ResolveRequest, EndResolution
  <2>9. CASE SyncAction \/ ExecuteApproved
    <3>1. turn[Telegram] \in Turns
      BY <1>0, <2>0, <2>9 DEF SyncAction, ExecuteApproved, At, Alone
    <3> QED
      BY <2>9, <2>0, <3>1, ReturnTypes DEF RestTypeOK, SyncAction, ExecuteApproved
  <2>10. CASE SendResolution \/ OpenFollowUp
    BY <2>10, <2>0, ReturnTypes DEF RestTypeOK, SendResolution, OpenFollowUp, SetEpisode,
       EpisodeStatuses
  <2>11. CASE FollowUp
    BY <2>11, <2>0, ReturnTypes DEF RestTypeOK, FollowUp, SetEpisode, EpisodeStatuses
  <2> QED
    BY <1>2, <2>1, <2>2, <2>3, <2>4, <2>5, <2>6, <2>7, <2>8, <2>9, <2>10, <2>11 DEF TelegramStep,
       ResolutionStep
<1>3. ASSUME HarnessStep PROVE RestTypeOK'
  <2>0. Harness \in Processes
    BY DEF Processes
  <2>1. CASE StageWakeSignal \/ FailStrandedRun \/ NothingToRecover \/ SuppressRun
    BY <2>1, <2>0, ReturnTypes DEF RestTypeOK, StageWakeSignal, FailStrandedRun,
       NothingToRecover, SuppressRun
  <2>2. CASE EndClaims
    BY <2>2 DEF RestTypeOK, EndClaims, serviceVars
  <2>3. CASE CompleteTask \/ FailTask \/ SuppressTask \/ RecordRecovered
    <3>1. PICK outcome \in {"completed", "failed", "suppressed"}, next \in {"claim", "recoverTasks"} :
            RecordOutcome(outcome, next)
      BY <2>3 DEF CompleteTask, FailTask, SuppressTask, RecordRecovered
    <3>2. old' \subseteq {t \in Tasks : current'[t] # 0}
      BY <3>1 DEF RecordOutcome, RestTypeOK, CoreTypeOK
    <3>3. turn[Harness] \in Turns \cup {0}
      BY <2>0 DEF CoreTypeOK
    <3> QED
      BY <3>1, <3>2, <3>3 DEF RecordOutcome, RestTypeOK, serviceVars
  <2>4. ASSUME NEW t \in Tasks, RecoverTask(t) PROVE RestTypeOK'
    BY <2>4 DEF RestTypeOK, RecoverTask, serviceVars
  <2>5. ASSUME NEW t \in Tasks, ClaimDueTask(t) PROVE RestTypeOK'
    <3>1. NextTurn # 0
      BY <2>5, NextTurnIsFresh, RowsAreNumbers DEF ClaimDueTask
    <3>2. old' \subseteq {u \in Tasks : current'[u] # 0}
      BY <2>5, <3>1 DEF ClaimDueTask, RestTypeOK, CoreTypeOK
    <3> QED
      BY <2>5, <3>2 DEF RestTypeOK, ClaimDueTask, serviceVars
  <2> QED
    BY <1>3, <2>1, <2>2, <2>3, <2>4, <2>5 DEF HarnessStep
<1>4. CASE TimePasses
  <2>1. ASSUME NEW i \in Rows, Post(i) \/ RowGoesStale(i) PROVE RestTypeOK'
    BY <2>1 DEF RestTypeOK, Post, RowGoesStale, serviceVars
  <2>2. ASSUME NEW e \in Turns, LeaseFallsDue(e) PROVE RestTypeOK'
    BY <2>2 DEF RestTypeOK, LeaseFallsDue, LeaseStatuses, serviceVars
  <2>3. ASSUME NEW t \in Tasks, RunGetsOld(t) \/ TaskFallsDue(t) \/ UpdateTask(t) PROVE RestTypeOK'
    BY <2>3 DEF RestTypeOK, RunGetsOld, TaskFallsDue, UpdateTask, serviceVars
  <2> QED
    BY <1>4, <2>1, <2>2, <2>3 DEF TimePasses
<1>5. ASSUME NEW p \in Processes, StatementFails(p) \/ FailureFails(p) \/ Crash(p) PROVE RestTypeOK'
  <2>1. faults' \in 0 .. MaxFaults
    BY <1>5, ForegroundAssumption DEF RestTypeOK, StatementFails, FailureFails, Crash
  <2>2. CASE StatementFails(p)
    BY <2>1, <2>2, ReturnTypes DEF RestTypeOK, StatementFails
  <2>3. CASE FailureFails(p) \/ Crash(p)
    BY <2>1, <2>3, ReturnTypes DEF RestTypeOK, FailureFails, Crash
  <2> QED
    BY <1>5, <2>2, <2>3
<1> QED
  BY <1>1, <1>2, <1>3, <1>4, <1>5 DEF Next, ProcessStep, Faults

\* A step that leaves the passes as they are.
LEMMA PassesGoOn ==
  ASSUME CoreTypeOK, PassesKnown, NEW p \in Processes, NEW next,
         pc' = [pc EXCEPT ![p] = next], UNCHANGED passes,
         next = "lease" => passes[p] < MaxPasses,
         next \in {"episode", "context"} => passes[p] = 0,
         p = Telegram /\ next \in Alone \cup {"plan", "recover"} => passes[p] = 0
  PROVE  PassesKnown'
<1>1. \A q \in Processes : pc'[q] = IF q = p THEN next ELSE pc[q]
  BY DEF CoreTypeOK
<1>2. Telegram \in Processes
  BY DEF Processes
<1> QED
  BY <1>1, <1>2 DEF PassesKnown

\* A process that starts anew has made none.
LEMMA PassesReset ==
  ASSUME CoreTypeOK, PassesKnown, NEW p \in Processes, NEW next,
         pc' = [pc EXCEPT ![p] = next], passes' = [passes EXCEPT ![p] = 0]
  PROVE  PassesKnown'
<1>1. \A q \in Processes : pc'[q] = IF q = p THEN next ELSE pc[q]
  BY DEF CoreTypeOK
<1>2. Telegram \in Processes
  BY DEF Processes
<1>3. /\ passes' \in [Processes -> 0 .. MaxPasses]
      /\ \A q \in Processes : passes'[q] = IF q = p THEN 0 ELSE passes[q]
  BY ForegroundAssumption DEF PassesKnown
<1> QED
  BY <1>1, <1>2, <1>3, ForegroundAssumption DEF PassesKnown

\* So has one that leaves its turn, or goes on to record how the run ended.
LEMMA PassesReturn ==
  ASSUME CoreTypeOK, PassesKnown, NEW p \in Processes,
         TurnSucceeds(p) \/ TurnErrs(p) \/ Restart(p) \/ (p = Telegram /\ EndIteration)
  PROVE  PassesKnown'
<1>1. CASE Restart(p)
  BY <1>1, PassesReset DEF Restart
<1>2. CASE p = Telegram /\ EndIteration
  <2>1. \E next : pc' = [pc EXCEPT ![p] = next]
    BY <1>2 DEF EndIteration
  <2> QED
    BY <1>2, <2>1, PassesReset DEF EndIteration
<1>3. CASE p # Telegram /\ \E next \in {"completeTask", "failTask"} : Goto(p, next)
  BY <1>3, PassesGoOn DEF Goto
<1> QED
  BY <1>1, <1>2, <1>3 DEF TurnSucceeds, TurnErrs

\* Every step keeps the bound on the passes of a turn.
LEMMA PassesKept ==
  ASSUME CoreTypeOK, TurnsKnown, PassesKnown, Next
  PROVE  PassesKnown'
<1>0. Telegram \in Processes /\ Harness \in Processes /\ Harness # Telegram
  BY DEF Processes, Telegram, Harness
<1>1. ASSUME UNCHANGED <<pc, passes>> PROVE PassesKnown'
  BY <1>1 DEF PassesKnown
<1>2. ASSUME NEW p \in Processes, SuperviseLeases(p) PROVE PassesKnown'
  <2>1. \E next \in {"fetch", "stageWake"} : Goto(p, next)
    BY <1>2 DEF SuperviseLeases
  <2>2. p = Telegram => passes[p] = 0
    BY <1>2 DEF SuperviseLeases, At, PassesKnown, Alone
  <2> QED
    BY <2>1, <2>2, PassesGoOn DEF Goto
<1>3. ASSUME NEW p \in Processes, TurnStep(p) PROVE PassesKnown'
  <2>1. ASSUME NEW next \in (TurnPoints \cup FailurePoints) \ {"lease", "episode", "context"}, Goto(p, next)
        PROVE  PassesKnown'
    BY <2>1, PassesGoOn DEF Goto, Alone, TurnPoints, FailurePoints
  <2>2. CASE OpenEpisode(p) \/ AssembleContext(p)
    <3>1. passes[p] = 0 /\ 0 < MaxPasses
      BY <2>2, ForegroundAssumption DEF OpenEpisode, AssembleContext, At, PassesKnown
    <3>2. \E next \in {"context", "lease"} : Goto(p, next)
      BY <2>2 DEF OpenEpisode, AssembleContext
    <3> QED
      BY <3>1, <3>2, PassesGoOn DEF Goto
  <2>3. CASE AcquireLease(p)
    <3>1. passes[p] \in 0 .. MaxPasses /\ passes[p] < MaxPasses /\ MaxPasses \in Nat
      BY <2>3, ForegroundAssumption DEF AcquireLease, At, PassesKnown
    <3>2. \A q \in Processes : pc'[q] = IF q = p THEN "work" ELSE pc[q]
      BY <2>3 DEF AcquireLease, CoreTypeOK
    <3>3. passes' = [passes EXCEPT ![p] = passes[p] + 1]
      BY <2>3 DEF AcquireLease
    <3>4. passes[p] + 1 \in 0 .. MaxPasses
      BY <3>1
    <3>5. passes' \in [Processes -> 0 .. MaxPasses] /\ \A q \in Processes \ {p} : passes'[q] = passes[q]
      BY <3>3, <3>4 DEF PassesKnown
    <3> QED
      BY <1>0, <3>2, <3>5 DEF PassesKnown, Alone
  <2>4. CASE Act(p)
    <3>1. CASE passes[p] < MaxPasses /\ Goto(p, "lease")
      BY <3>1, PassesGoOn DEF Goto, Alone
    <3>2. CASE Goto(p, "answer")
      BY <2>1, <3>2 DEF TurnPoints
    <3> QED
      BY <2>4, <3>1, <3>2 DEF Act
  <2>5. CASE Work(p) \/ CheckLease(p) \/ RecordAnswer(p) \/ DeliverAnswer(p) \/ AttachAnswer(p)
    BY <2>1, <2>5 DEF Work, CheckLease, RecordAnswer, DeliverAnswer, AttachAnswer, TurnPoints,
       FailurePoints
  <2>6. CASE SucceedTurn(p) \/ CompleteEpisode(p) \/ CloseRows(p) \/ FailTurn(p) \/ RecordNotice(p)
              \/ CloseFailedRows(p)
    BY <2>1, <2>6 DEF SucceedTurn, CompleteEpisode, CloseRows, CloseFailedRows, CloseRow, FailTurn,
                      RecordNotice, TurnPoints, FailurePoints
  <2>7. CASE FinishTurn(p) \/ AttachNotice(p)
    BY <2>7, PassesReturn DEF FinishTurn, AttachNotice
  <2>8. CASE FailEpisode(p) \/ DeliverNotice(p)
    BY <2>1, <2>8, PassesReturn DEF FailEpisode, DeliverNotice, FailurePoints
  <2> QED
    BY <1>3, <2>2, <2>3, <2>4, <2>5, <2>6, <2>7, <2>8 DEF TurnStep
<1>4. ASSUME TelegramStep PROVE PassesKnown'
  <2>1. ASSUME NEW next \in ResolutionPoints \cup {"block", "closeBlocked", "sendBlocked"}, Goto(Telegram, next)
        PROVE  PassesKnown'
    BY <1>0, <2>1, PassesGoOn DEF Goto, Alone, ResolutionPoints
  <2>2. ASSUME pc[Telegram] \in Alone \cup {"plan", "recover"}, NEW next, next # "lease",
               pc' = [pc EXCEPT ![Telegram] = next], UNCHANGED passes
        PROVE  PassesKnown'
    BY <1>0, <2>2, PassesGoOn DEF PassesKnown
  <2>3. CASE FetchUpdates
    BY <2>2, <2>3 DEF FetchUpdates, At, Alone
  <2>4. CASE SkipUpdate \/ StageMessage
    BY <1>1, <2>4 DEF SkipUpdate, StageMessage
  <2>5. CASE StartCallback \/ BeginExecution
    BY <2>2, <2>5 DEF StartCallback, BeginExecution, Take, At, Alone
  <2>6. CASE ScanConversation
    BY <1>0, <2>2, <2>6, PassesReturn DEF ScanConversation, At, Alone
  <2>7. CASE PlanTurn \/ RecoverRestart
    <3>1. \E next \in {"recover", "resolve", "parse", "episode", "block"} : Goto(Telegram, next)
      BY <2>7 DEF PlanTurn, RecoverRestart, OpeningOf
    <3> QED
      BY <2>2, <2>7, <3>1 DEF PlanTurn, RecoverRestart, At, Goto
  <2>8. CASE PlanNothing \/ RefuseMalformed \/ SendBlocked \/ CloseResolution
    BY <1>0, <2>8, PassesReturn DEF PlanNothing, RefuseMalformed, SendBlocked, CloseResolution
  <2>9. CASE BlockRecovery \/ CloseBlockedRows
    BY <2>1, <2>9 DEF BlockRecovery, CloseBlockedRows, CloseRow
  <2>10. CASE ResolveRequest \/ SyncAction \/ ExecuteApproved \/ SendResolution
    BY <2>1, <2>10 DEF ResolveRequest, SyncAction, ExecuteApproved, SendResolution, ResolutionPoints
  <2>11. CASE OpenFollowUp \/ FollowUp \/ EndResolution
    BY <2>1, <2>11 DEF OpenFollowUp, FollowUp, EndResolution, ResolutionPoints
  <2> QED
    BY <1>4, <2>3, <2>4, <2>5, <2>6, <2>7, <2>8, <2>9, <2>10, <2>11 DEF TelegramStep, ResolutionStep
<1>5. ASSUME HarnessStep PROVE PassesKnown'
  <2>1. ASSUME NEW next, next \notin {"lease", "episode", "context"}, pc' = [pc EXCEPT ![Harness] = next],
               UNCHANGED passes
        PROVE  PassesKnown'
    BY <1>0, <2>1, PassesGoOn
  <2>2. CASE StageWakeSignal \/ FailStrandedRun \/ NothingToRecover \/ SuppressRun
    BY <2>1, <2>2 DEF StageWakeSignal, FailStrandedRun, NothingToRecover, SuppressRun, Goto
  <2>3. CASE EndClaims \/ CompleteTask \/ FailTask \/ SuppressTask \/ RecordRecovered
    BY <2>1, <2>3 DEF EndClaims, CompleteTask, FailTask, SuppressTask, RecordRecovered,
       RecordOutcome
  <2>4. ASSUME NEW t \in Tasks, RecoverTask(t) PROVE PassesKnown'
    <3>1. \E next \in {"failStranded", "recordRecovered"} : pc' = [pc EXCEPT ![Harness] = next]
      BY <2>4 DEF RecoverTask, Take
    <3> QED
      BY <2>1, <2>4, <3>1 DEF RecoverTask
  <2>5. ASSUME NEW t \in Tasks, ClaimDueTask(t) PROVE PassesKnown'
    BY <1>0, <2>5, PassesReset DEF ClaimDueTask, Take
  <2> QED
    BY <1>5, <2>2, <2>3, <2>4, <2>5 DEF HarnessStep
<1>6. CASE TimePasses
  BY <1>1, <1>6 DEF TimePasses, Post, RowGoesStale, LeaseFallsDue, RunGetsOld, TaskFallsDue,
     UpdateTask
<1>7. ASSUME NEW p \in Processes, StatementFails(p) PROVE PassesKnown'
  <2>1. PICK next \in ErrorPath[pc[p]] : Goto(p, next)
    BY <1>7 DEF StatementFails
  <2>2. pc[p] \in DOMAIN ErrorPath
    BY <1>7 DEF StatementFails
  <2>3. next \in FailurePoints \cup {"failResolution"}
    BY <2>1, <2>2 DEF ErrorPath, TurnPoints, FailurePoints, ResolutionPoints
  <2> QED
    BY <2>1, <2>3, PassesGoOn DEF Goto, FailurePoints, Alone
<1>8. ASSUME NEW p \in Processes, FailureFails(p) \/ Crash(p) PROVE PassesKnown'
  BY <1>8, PassesReturn DEF FailureFails, Crash
<1> QED
  BY <1>2, <1>3, <1>4, <1>5, <1>6, <1>7, <1>8 DEF Next, ProcessStep, Faults

\* Every variable keeps its type: rows, executions, leases and task records have
\* a status of their columns, and a turn makes no more passes than it may
\* (foreground_orchestration.rs: the limit is checked before another pass).
THEOREM TypeCorrect == Spec => []TypeOK
<1> DEFINE Types == RestTypeOK /\ PassesKnown
<1>1. Init => Types
  <2>1. ASSUME Init PROVE RestTypeOK
    <3>1. faults \in 0 .. MaxFaults
      BY <2>1, ForegroundAssumption DEF Init
    <3>2. /\ resumed \in [Turns -> Turns \cup {0}]
          /\ episode \in [Turns -> EpisodeStatuses]
          /\ lease \in [Turns -> LeaseStatuses]
      BY <2>1 DEF Init, EpisodeStatuses, LeaseStatuses
    <3>3. /\ messages \in [Turns -> SUBSET {"answer", "notice"}]
          /\ delivered \in [Turns -> SUBSET {"answer", "notice", "blocked", "resolution"}]
          /\ attached \in [Turns -> SUBSET {"answer", "notice"}]
      BY <2>1 DEF Init
    <3>4. /\ acted \subseteq Turns /\ linked \subseteq Turns
          /\ news \in BOOLEAN /\ backlog \in BOOLEAN
          /\ task \in Tasks \cup {0}
          /\ due \subseteq Tasks /\ old \subseteq {t \in Tasks : current[t] # 0}
      BY <2>1 DEF Init
    <3>5. /\ taskStatus \in [Tasks -> {"active", "paused", "disabled"}]
          /\ lastTurn \in [Tasks -> Turns \cup {0}]
          /\ lastOutcome \in [Tasks -> {"none", "completed", "suppressed", "failed"}]
      BY <2>1 DEF Init
    <3> QED
      BY <3>1, <3>2, <3>3, <3>4, <3>5 DEF RestTypeOK
  <2>2. Init => PassesKnown
    <3>1. 0 \in 0 .. MaxPasses /\ Telegram \in Processes
      BY ForegroundAssumption DEF Processes
    <3> QED
      BY <3>1 DEF Init, PassesKnown
  <2> QED
    BY <2>1, <2>2
<1>2. ForegroundInvariant /\ ForegroundInvariant' /\ Types /\ [Next]_vars => Types'
  <2>1. SUFFICES ASSUME ForegroundInvariant, ForegroundInvariant', Types, [Next]_vars PROVE Types'
    OBVIOUS
  <2>2. CASE Next
    BY <2>1, <2>2, RestTypesKept, PassesKept DEF ForegroundInvariant
  <2>3. CASE UNCHANGED vars
    BY <2>1, <2>3 DEF vars, RestTypeOK, PassesKnown, planVars, messageVars, actionVars,
       serviceVars, taskVars
  <2> QED
    BY <2>1, <2>2, <2>3
<1>3. ForegroundInvariant /\ Types => TypeOK
  BY DEF ForegroundInvariant, CoreTypeOK, RestTypeOK, PassesKnown, TypeOK
<1> QED
  BY <1>1, <1>2, <1>3, InvariantHolds, PTL DEF Spec

-----------------------------------------------------------------------------
(* What users are told, and what tasks say of their runs. *)

\* What a process has done for its turn when it comes to a statement.
PointKnown(p) ==
  /\ pc[p] = "plan" => turnStatus[turn[p]] = "started"
  /\ pc[p] = "send" => "answer" \in messages[turn[p]]
  /\ pc[p] = "attach" => "answer" \in messages[turn[p]] \cap delivered[turn[p]]
  /\ pc[p] = "succeed" => "answer" \in messages[turn[p]] \cap delivered[turn[p]] \cap attached[turn[p]]
  /\ pc[p] \in {"completeEpisode", "close", "finish", "completeTask"} =>
       turnStatus[turn[p]] = "completed" /\ "answer" \in delivered[turn[p]]
  /\ pc[p] \in {"openFollowUp", "followUp", "completeResolution"} => "resolution" \in delivered[turn[p]]
  /\ pc[p] \in {"suppress", "suppressTask"} => batch[turn[p]] = {} /\ delivered[turn[p]] = {}
  /\ pc[p] = "suppressTask" => turnStatus[turn[p]] = "completed"

\* What the user has been told when an execution is recorded as completed.
Told(e) ==
  /\ turnStatus[e] = "none" => delivered[e] = {}
  /\ turnStatus[e] = "completed" =>
       \/ "answer" \in messages[e] \cap delivered[e] \cap attached[e]
       \/ "resolution" \in delivered[e]
       \/ batch[e] = {}

\* A run belongs to one task, resolves no request, and is over once it is a last run.
RunsKnown ==
  /\ \A t, u \in Tasks : current[t] # 0 /\ current[t] = current[u] => t = u
  /\ \A t \in Tasks : current[t] # 0 => "resolution" \notin delivered[current[t]]
  /\ \A t \in Tasks : lastTurn[t] # 0 =>
       /\ turnStatus[lastTurn[t]] # "none"
       /\ lastTurn[t] # turn[Telegram] /\ lastTurn[t] # turn[Harness]
       /\ \A u \in Tasks : lastTurn[t] # current[u]
  /\ \A t \in Tasks : lastOutcome[t] # "none" => lastTurn[t] # 0

\* CompletedMeansTold and OutcomeMatchesRun with what they depend on.
TellInvariant ==
  /\ \A p \in Processes : PointKnown(p)
  /\ \A e \in Turns : Told(e)
  /\ RunsKnown
  /\ OutcomeMatchesRun

\* Two processes have different turns, and no other process's turn is touched.
LEMMA OthersTurn ==
  ASSUME TurnsApart, TurnsKnown, NEW p \in Processes, NEW q \in Processes, p # q, turn[p] # 0
  PROVE  turn[p] # turn[q]
BY DEF TurnsApart, Processes, Telegram, Harness

\* A process goes on with its turn, or leaves it, and changes nothing but its
\* turn's status and messages.
LEMMA TurnMoves ==
  ASSUME CoreTypeOK, TurnsKnown, TurnsApart, RestTypeOK, TellInvariant, NEW p \in Processes, NEW next,
         pc' = [pc EXCEPT ![p] = next],
         turn' = turn \/ turn' = [turn EXCEPT ![p] = 0],
         UNCHANGED <<batch, current, lastTurn, lastOutcome>>,
         \A e \in Turns : e = turn[p] \/ (turnStatus'[e] = turnStatus[e] /\ messages'[e] = messages[e]
                                     /\ delivered'[e] = delivered[e] /\ attached'[e] = attached[e]),
         turn[p] # 0 => /\ turnStatus'[turn[p]] # "none"
                        /\ "resolution" \in delivered'[turn[p]] =>
                             "resolution" \in delivered[turn[p]] \/ p = Telegram,
         \A e \in Turns : e = turn[p] => Told(e)',
         PointKnown(p)'
  PROVE  TellInvariant'
<1>1. \A q \in Processes \ {p} : PointKnown(q)'
  <2>1. ASSUME NEW q \in Processes \ {p} PROVE PointKnown(q)'
    <3>1. pc'[q] = pc[q] /\ turn'[q] = turn[q] /\ PointKnown(q)
      BY DEF CoreTypeOK, TellInvariant
    <3>2. CASE turn[q] = 0
      <4>1. pc[q] \in Alone
        BY <3>2 DEF TurnsKnown
      <4> QED
        BY <3>1, <4>1 DEF PointKnown, Alone
    <3>3. CASE turn[q] # 0
      <4>1. turn[q] \in Turns /\ turn[q] # turn[p]
        BY <3>3, OthersTurn DEF CoreTypeOK
      <4> QED
        BY <3>1, <4>1 DEF PointKnown
    <3> QED
      BY <3>2, <3>3
  <2> QED
    BY <2>1
<1>2. \A e \in Turns : Told(e)'
  <2>1. ASSUME NEW e \in Turns PROVE Told(e)'
    <3>1. CASE e = turn[p]
      BY <3>1
    <3>2. CASE e # turn[p]
      BY <3>2 DEF TellInvariant, Told
    <3> QED
      BY <3>1, <3>2
  <2> QED
    BY <2>1
<1>3. RunsKnown'
  <2>1. ASSUME NEW t \in Tasks, current[t] # 0 PROVE "resolution" \notin delivered'[current[t]]
    <3>1. current[t] \in Turns /\ "resolution" \notin delivered[current[t]] /\ current[t] # turn[Telegram]
      BY <2>1 DEF CoreTypeOK, TurnsApart, TellInvariant, RunsKnown
    <3> QED
      BY <2>1, <3>1
  <2>2. ASSUME NEW t \in Tasks, lastTurn[t] # 0
        PROVE  /\ turnStatus'[lastTurn[t]] # "none"
               /\ lastTurn[t] # turn'[Telegram] /\ lastTurn[t] # turn'[Harness]
    BY <2>2 DEF TellInvariant, RunsKnown, CoreTypeOK, RestTypeOK, Processes
  <2> QED
    BY <2>1, <2>2 DEF TellInvariant, RunsKnown
<1>4. OutcomeMatchesRun'
  <2>1. ASSUME NEW t \in Tasks, lastOutcome[t] # "none"
        PROVE  lastTurn[t] \in Turns /\ lastTurn[t] # turn[p]
    BY <2>1 DEF TellInvariant, RunsKnown, RestTypeOK, Processes
  <2> QED
    BY <2>1 DEF TellInvariant, OutcomeMatchesRun
<1> QED
  BY <1>1, <1>2, <1>3, <1>4 DEF TellInvariant

\* A process takes a turn that nobody has used.
LEMMA TurnStarts ==
  ASSUME CoreTypeOK, TurnsKnown, TurnsApart, RestTypeOK, TellInvariant, NEW p \in Processes,
         FreshTurns # {}, turn[p] = 0,
         NEW next \in {"resolve", "plan", "episode", "suppress"},
         pc' = [pc EXCEPT ![p] = next], turn' = [turn EXCEPT ![p] = NextTurn],
         turnStatus' = [turnStatus EXCEPT ![NextTurn] = "started"],
         \A e \in Turns : e # NextTurn \/ next = "suppress" => batch'[e] = batch[e],
         \/ UNCHANGED current
         \/ \E t \in Tasks : current[t] = 0 /\ current' = [current EXCEPT ![t] = NextTurn] /\ p = Harness,
         UNCHANGED <<messageVars, lastTurn, lastOutcome>>
  PROVE  TellInvariant'
<1> USE DEF messageVars
<1>0. NextTurn \in Turns /\ turnStatus[NextTurn] = "none" /\ NextTurn # 0
  BY NextTurnIsFresh, RowsAreNumbers
<1>1. batch[NextTurn] = {} /\ delivered[NextTurn] = {}
  BY <1>0 DEF TurnsKnown, TellInvariant, Told
<1>2. \A q \in Processes : turn[q] # NextTurn
  BY <1>0 DEF TurnsKnown
<1>3. \A q \in Processes : PointKnown(q)'
  <2>1. PointKnown(p)'
    <3>1. pc'[p] = next /\ turn'[p] = NextTurn /\ turnStatus'[NextTurn] = "started"
      BY <1>0 DEF CoreTypeOK
    <3> QED
      BY <1>0, <1>1, <3>1 DEF PointKnown
  <2>2. ASSUME NEW q \in Processes \ {p} PROVE PointKnown(q)'
    <3>1. pc'[q] = pc[q] /\ turn'[q] = turn[q] /\ PointKnown(q)
      BY DEF CoreTypeOK, TellInvariant
    <3>2. CASE turn[q] = 0
      <4>1. pc[q] \in Alone
        BY <3>2 DEF TurnsKnown
      <4> QED
        BY <3>1, <4>1 DEF PointKnown, Alone
    <3>3. CASE turn[q] # 0
      <4>1. turn[q] \in Turns /\ turn[q] # NextTurn
        BY <1>2, <3>3 DEF CoreTypeOK
      <4>2. turnStatus'[turn[q]] = turnStatus[turn[q]] /\ batch'[turn[q]] = batch[turn[q]]
        BY <4>1 DEF CoreTypeOK
      <4> QED
        BY <3>1, <4>2 DEF PointKnown
    <3> QED
      BY <3>2, <3>3
  <2> QED
    BY <2>1, <2>2
<1>4. \A e \in Turns : Told(e)'
  BY <1>0 DEF TellInvariant, Told, CoreTypeOK
<1>5. /\ \A t \in Tasks : current[t] # 0 => current[t] \in Turns /\ current[t] # NextTurn
      /\ \A t \in Tasks : lastTurn[t] # 0 => lastTurn[t] \in Turns /\ lastTurn[t] # NextTurn
  BY <1>0 DEF TurnsApart, TellInvariant, RunsKnown, RestTypeOK, CoreTypeOK
<1>6. RunsKnown'
  <2>1. /\ \A t, u \in Tasks : current'[t] # 0 /\ current'[t] = current'[u] => t = u
        /\ \A t \in Tasks : current'[t] # 0 => "resolution" \notin delivered[current'[t]]
        /\ \A t, u \in Tasks : lastTurn[t] # 0 => lastTurn[t] # current'[u]
    BY <1>0, <1>1, <1>5 DEF TellInvariant, RunsKnown, CoreTypeOK
  <2>2. ASSUME NEW t \in Tasks, lastTurn[t] # 0
        PROVE  turnStatus'[lastTurn[t]] # "none" /\ lastTurn[t] # turn'[Telegram] /\ lastTurn[t] # turn'[Harness]
    BY <1>0, <1>5, <2>2 DEF TellInvariant, RunsKnown, CoreTypeOK, Processes
  <2> QED
    BY <2>1, <2>2 DEF TellInvariant, RunsKnown
<1>7. OutcomeMatchesRun'
  <2>1. ASSUME NEW t \in Tasks, lastOutcome[t] # "none"
        PROVE  lastTurn[t] \in Turns /\ lastTurn[t] # NextTurn
    BY <1>5, <2>1 DEF TellInvariant, RunsKnown
  <2> QED
    BY <2>1 DEF TellInvariant, OutcomeMatchesRun, CoreTypeOK
<1> QED
  BY <1>3, <1>4, <1>6, <1>7 DEF TellInvariant

\* The service gives its turn the rows it planned: the turn has told nobody anything.
LEMMA PlanTells ==
  ASSUME CoreTypeOK, TurnsKnown, TurnsApart, RestTypeOK, TellInvariant, PlanTurn
  PROVE  TellInvariant'
<1> DEFINE e == turn[Telegram]
<1>0. /\ Telegram \in Processes /\ Harness \in Processes /\ Telegram # Harness
      /\ e \in Turns /\ turnStatus[e] = "started" /\ e # turn[Harness]
  BY DEF Processes, Telegram, Harness, PlanTurn, At, TurnsKnown, Alone, CoreTypeOK,
     TellInvariant, PointKnown,
         TurnsApart
<1>1. \A f \in Turns \ {e} : batch'[f] = batch[f]
  BY DEF PlanTurn, CoreTypeOK
<1>2. UNCHANGED <<turnStatus, messageVars, current, lastTurn, lastOutcome, turn>>
  BY DEF PlanTurn, Goto, taskVars
<1>3. PICK next \in {"recover", "resolve", "parse", "episode"} : pc' = [pc EXCEPT ![Telegram] = next]
  BY DEF PlanTurn, Goto, OpeningOf
<1>4. PointKnown(Telegram)'
  <2>1. pc'[Telegram] \in {"recover", "resolve", "parse", "episode"}
    BY <1>0, <1>3 DEF CoreTypeOK
  <2> QED
    BY <2>1 DEF PointKnown
<1>5. PointKnown(Harness)'
  <2>1. pc'[Harness] = pc[Harness] /\ PointKnown(Harness)
    BY <1>0, <1>3 DEF CoreTypeOK, TellInvariant
  <2>2. CASE turn[Harness] = 0
    <3>1. pc[Harness] \in Alone
      BY <1>0, <2>2 DEF TurnsKnown
    <3> QED
      BY <2>1, <3>1 DEF PointKnown, Alone
  <2>3. CASE turn[Harness] # 0
    <3>1. batch'[turn[Harness]] = batch[turn[Harness]]
      BY <1>0, <1>1, <2>3 DEF CoreTypeOK
    <3> QED
      BY <1>2, <2>1, <3>1 DEF PointKnown, messageVars
  <2> QED
    BY <2>2, <2>3
<1>6. \A f \in Turns : Told(f)'
  BY <1>0, <1>1, <1>2 DEF TellInvariant, Told, messageVars
<1>7. RunsKnown'
  BY <1>2 DEF TellInvariant, RunsKnown, messageVars
<1>8. OutcomeMatchesRun'
  <2>1. ASSUME NEW t \in Tasks, lastOutcome[t] # "none"
        PROVE  lastTurn[t] \in Turns \ {e}
    BY <2>1 DEF TellInvariant, RunsKnown, RestTypeOK
  <2> QED
    BY <1>1, <1>2, <2>1 DEF TellInvariant, OutcomeMatchesRun, messageVars
<1> QED
  BY <1>4, <1>5, <1>6, <1>7, <1>8 DEF TellInvariant, Processes

\* The harness takes up the run of a task again.
LEMMA RecoverTells ==
  ASSUME CoreTypeOK, TurnsKnown, TurnsApart, RestTypeOK, TellInvariant, NEW t \in Tasks, RecoverTask(t)
  PROVE  TellInvariant'
<1> USE DEF messageVars, taskVars
<1>0. Telegram \in Processes /\ Harness \in Processes /\ Telegram # Harness
  BY DEF Processes, Telegram, Harness
<1>1. \E next \in {"failStranded", "recordRecovered"} : pc' = [pc EXCEPT ![Harness] = next]
  BY DEF RecoverTask, Take
<1>2. turn' = [turn EXCEPT ![Harness] = current[t]]
  BY DEF RecoverTask, Take
<1>3. UNCHANGED <<turnStatus, batch, messageVars, current, lastTurn, lastOutcome>>
  BY DEF RecoverTask, planVars
<1>4. PointKnown(Harness)'
  BY <1>0, <1>1 DEF PointKnown, CoreTypeOK
<1>5. PointKnown(Telegram)'
  BY <1>0, <1>1, <1>2, <1>3 DEF PointKnown, CoreTypeOK, TellInvariant
<1>6. RunsKnown'
  BY <1>0, <1>2, <1>3 DEF TellInvariant, RunsKnown, CoreTypeOK
<1> QED
  BY <1>3, <1>4, <1>5, <1>6 DEF TellInvariant, Told, OutcomeMatchesRun, Processes

\* What the harness records of a run is what became of it.
LEMMA RecordTells ==
  ASSUME CoreTypeOK, TurnsKnown, TurnsApart, RestTypeOK, TellInvariant,
         CompleteTask \/ FailTask \/ SuppressTask \/ RecordRecovered
  PROVE  TellInvariant'
<1> USE DEF messageVars
<1> DEFINE e == turn[Harness]
<1>0. Telegram \in Processes /\ Harness \in Processes /\ Telegram # Harness
  BY DEF Processes, Telegram, Harness
<1>1. PICK outcome \in {"completed", "failed", "suppressed"}, next \in {"claim", "recoverTasks"} :
        /\ RecordOutcome(outcome, next)
        /\ outcome = "completed" => \/ At(Harness, "completeTask")
                                    \/ At(Harness, "recordRecovered") /\ turnStatus[e] = "completed"
        /\ outcome = "suppressed" => At(Harness, "suppressTask")
        /\ pc[Harness] \in {"completeTask", "failTask", "suppressTask", "recordRecovered"}
  BY DEF CompleteTask, FailTask, SuppressTask, RecordRecovered, At
<1>2. e \in Turns /\ e # 0
  BY <1>0, <1>1, RowsAreNumbers DEF TurnsKnown, Alone, CoreTypeOK
<1>3. /\ pc' = [pc EXCEPT ![Harness] = next] /\ turn' = [turn EXCEPT ![Harness] = 0]
      /\ current[task] = e
      /\ current' = [current EXCEPT ![task] = 0]
      /\ lastTurn' = [lastTurn EXCEPT ![task] = e]
      /\ lastOutcome' = [lastOutcome EXCEPT ![task] = outcome]
      /\ UNCHANGED <<turnStatus, batch, messageVars>>
  BY <1>1 DEF RecordOutcome, planVars
<1>4. PointKnown(Harness)'
  BY <1>0, <1>3 DEF PointKnown, CoreTypeOK
<1>5. CASE task \notin Tasks
  <2>1. UNCHANGED <<current, lastTurn, lastOutcome>>
    BY <1>3, <1>5 DEF CoreTypeOK, RestTypeOK
  <2>2. /\ turnStatus'[e] # "none" /\ \A f \in Turns : f = e => Told(f)'
        /\ "resolution" \in delivered'[e] => "resolution" \in delivered[e]
    BY <1>0, <1>2, <1>3 DEF TurnsKnown, TellInvariant, Told
  <2> HIDE DEF e
  <2> QED
    BY <1>0, <1>3, <1>4, <2>1, <2>2, TurnMoves DEF e
<1>6. CASE task \in Tasks
  <2>1. e # turn[Telegram] /\ turnStatus[e] # "none" /\ \A t \in Tasks : lastTurn[t] # e \/ lastTurn[t] = 0
    BY <1>0, <1>2, <1>3, <1>6 DEF TurnsApart, TurnsKnown, TellInvariant, RunsKnown
  <2>2. /\ \A t \in Tasks \ {task} : current'[t] = current[t] /\ current[t] # e
                                    /\ lastTurn'[t] = lastTurn[t] /\ lastOutcome'[t] = lastOutcome[t]
        /\ current'[task] = 0 /\ lastTurn'[task] = e /\ lastOutcome'[task] = outcome
    BY <1>2, <1>3, <1>6 DEF CoreTypeOK, RestTypeOK, TellInvariant, RunsKnown
  <2>3. turn'[Telegram] = turn[Telegram] /\ turn'[Harness] = 0
    BY <1>0, <1>3 DEF CoreTypeOK
  <2>4. PointKnown(Telegram)'
    BY <1>0, <1>3, <2>3 DEF PointKnown, CoreTypeOK, TellInvariant
  <2>5. RunsKnown'
    <3>1. /\ \A t, u \in Tasks : current'[t] # 0 /\ current'[t] = current'[u] => t = u
          /\ \A t \in Tasks : current'[t] # 0 => "resolution" \notin delivered'[current'[t]]
          /\ \A t \in Tasks : lastOutcome'[t] # "none" => lastTurn'[t] # 0
      BY <1>2, <1>3, <2>2 DEF TellInvariant, RunsKnown
    <3>2. ASSUME NEW t \in Tasks, lastTurn'[t] # 0
          PROVE  /\ turnStatus'[lastTurn'[t]] # "none"
                 /\ lastTurn'[t] # turn'[Telegram] /\ lastTurn'[t] # turn'[Harness]
                 /\ \A u \in Tasks : lastTurn'[t] # current'[u]
      <4>1. CASE t = task
        BY <1>2, <1>3, <2>1, <2>2, <2>3, <4>1
      <4>2. CASE t # task
        BY <1>3, <2>2, <2>3, <3>2, <4>2 DEF TellInvariant, RunsKnown
      <4> QED
        BY <4>1, <4>2
    <3> QED
      BY <3>1, <3>2 DEF RunsKnown
  <2>6. OutcomeMatchesRun'
    <3>1. outcome = "completed" => turnStatus[e] = "completed" /\ (batch[e] = {} \/ "answer" \in delivered[e])
      <4>1. CASE At(Harness, "completeTask")
        BY <1>0, <4>1 DEF TellInvariant, PointKnown, At
      <4>2. CASE turnStatus[e] = "completed"
        <5>1. Told(e) /\ "resolution" \notin delivered[e]
          BY <1>2, <1>3, <1>6 DEF TellInvariant, RunsKnown
        <5> QED
          BY <4>2, <5>1 DEF Told
      <4> QED
        BY <1>1, <4>1, <4>2
    <3>2. outcome = "suppressed" => turnStatus[e] = "completed" /\ delivered[e] = {}
      BY <1>0, <1>1 DEF TellInvariant, PointKnown, At
    <3> QED
      BY <1>3, <2>2, <3>1, <3>2 DEF TellInvariant, OutcomeMatchesRun
  <2> QED
    BY <1>3, <1>4, <2>4, <2>5, <2>6 DEF TellInvariant, Told, Processes
<1> QED
  BY <1>5, <1>6

\* A process goes on, or leaves its turn, and tells nobody anything.
LEMMA QuietMoves ==
  ASSUME CoreTypeOK, TurnsKnown, TurnsApart, RestTypeOK, TellInvariant, NEW p \in Processes, NEW next,
         pc' = [pc EXCEPT ![p] = next],
         turn' = turn \/ turn' = [turn EXCEPT ![p] = 0],
         UNCHANGED <<turnStatus, batch, messageVars, current, lastTurn, lastOutcome>>,
         PointKnown(p)'
  PROVE  TellInvariant'
<1>1. /\ turn[p] # 0 => turnStatus'[turn[p]] # "none"
      /\ \A e \in Turns : e = turn[p] => Told(e)'
  BY DEF TurnsKnown, TellInvariant, Told, messageVars
<1> QED
  BY <1>1, TurnMoves DEF messageVars

\* Statements a process comes to having told nothing new.
Silent == ProgramPoints \ {"plan", "send", "attach", "succeed", "completeEpisode", "close", "finish",
                           "completeTask", "openFollowUp", "followUp", "completeResolution",
                           "suppress", "suppressTask"}

\* A process that returns from its turn.
LEMMA ReturnTells ==
  ASSUME CoreTypeOK, TurnsKnown, TurnsApart, RestTypeOK, TellInvariant, NEW p \in Processes,
         UNCHANGED <<turnStatus, batch, messageVars, current, lastTurn, lastOutcome>>,
         \/ Restart(p) \/ TurnErrs(p)
         \/ p = Telegram /\ EndIteration
         \/ TurnSucceeds(p) /\ turnStatus[turn[p]] = "completed" /\ "answer" \in delivered[turn[p]]
         \/ \E next \in Silent : Goto(p, next)
  PROVE  TellInvariant'
<1>1. CASE TurnSucceeds(p) /\ p # Telegram /\ turnStatus[turn[p]] = "completed" /\ "answer" \in delivered[turn[p]]
  <2>1. Goto(p, "completeTask")
    BY <1>1 DEF TurnSucceeds
  <2>2. PointKnown(p)'
    BY <1>1, <2>1 DEF Goto, CoreTypeOK, PointKnown, messageVars
  <2> QED
    BY <2>1, <2>2, QuietMoves DEF Goto
<1>2. CASE Restart(p) \/ TurnErrs(p) \/ (p = Telegram /\ EndIteration) \/ \E next \in Silent : Goto(p, next)
  <2>1. PICK next \in Silent : pc' = [pc EXCEPT ![p] = next] /\ (turn' = turn \/ turn' = [turn EXCEPT ![p] = 0])
    BY <1>2 DEF Restart, TurnErrs, EndIteration, Goto, Silent, ProgramPoints, SchedulerPoints,
       ServicePoints
  <2>2. PointKnown(p)'
    BY <2>1 DEF CoreTypeOK, PointKnown, Silent
  <2> QED
    BY <2>1, <2>2, QuietMoves
<1> QED
  BY <1>1, <1>2 DEF TurnSucceeds

\* The steps of a turn.
LEMMA TurnTells ==
  ASSUME CoreTypeOK, TurnsKnown, TurnsApart, RestTypeOK, TellInvariant, NEW p \in Processes, TurnStep(p)
  PROVE  TellInvariant'
<1> USE DEF taskVars, planVars, messageVars
<1>0. pc[p] \notin Alone /\ turn[p] \in Turns /\ turn[p] # 0 /\ turnStatus[turn[p]] # "none" /\ PointKnown(p)
      /\ Told(turn[p])
  <2>1. pc[p] \notin Alone
    BY DEF TurnStep, OpenEpisode, AssembleContext, AcquireLease, Work, CheckLease, Act,
       RecordAnswer, DeliverAnswer,
           AttachAnswer, SucceedTurn, CompleteEpisode, CloseRows, CloseRow, FinishTurn, FailTurn, FailEpisode,
           RecordNotice, DeliverNotice, CloseFailedRows, AttachNotice, At, Alone
  <2>2. turn[p] # 0 /\ turnStatus[turn[p]] # "none"
    BY <2>1 DEF TurnsKnown
  <2>3. turn[p] \in Turns
    BY <2>2 DEF CoreTypeOK
  <2> QED
    BY <2>1, <2>2, <2>3 DEF TellInvariant
<1>1. CASE OpenEpisode(p) \/ AssembleContext(p) \/ Work(p) \/ CheckLease(p) \/ Act(p) \/ CloseFailedRows(p)
  <2>1. \E next \in Silent : Goto(p, next)
    BY <1>1 DEF OpenEpisode, AssembleContext, Work, CheckLease, Act, CloseFailedRows, CloseRow,
       Silent, ProgramPoints,
                TurnPoints, FailurePoints
  <2> QED
    BY <1>1, <2>1, ReturnTells DEF OpenEpisode, AssembleContext, Work, CheckLease, Act,
       CloseFailedRows, CloseRow
<1>2. CASE AcquireLease(p)
  <2>1. PointKnown(p)'
    BY <1>2 DEF AcquireLease, PointKnown, CoreTypeOK
  <2> QED
    BY <1>2, <2>1, QuietMoves DEF AcquireLease
<1>3. CASE CompleteEpisode(p) \/ CloseRows(p)
  <2>1. PICK next \in {"close", "finish"} : Goto(p, next)
    BY <1>3 DEF CompleteEpisode, CloseRows, CloseRow
  <2>2. PointKnown(p)'
    BY <1>0, <1>3, <2>1 DEF CompleteEpisode, CloseRows, CloseRow, At, Goto, CoreTypeOK, PointKnown
  <2> QED
    BY <1>3, <2>1, <2>2, QuietMoves DEF CompleteEpisode, CloseRows, CloseRow, Goto
<1>4. CASE FinishTurn(p) \/ FailEpisode(p)
  <2>1. CASE FinishTurn(p)
    BY <1>0, <2>1, ReturnTells DEF FinishTurn, At, PointKnown
  <2>2. CASE FailEpisode(p)
    <3>1. TurnErrs(p) \/ \E next \in Silent : Goto(p, next)
      BY <2>2 DEF FailEpisode, Silent, ProgramPoints, FailurePoints
    <3> QED
      BY <2>2, <3>1, ReturnTells DEF FailEpisode
  <2> QED
    BY <1>4, <2>1, <2>2
<1>5. CASE RecordAnswer(p) \/ DeliverAnswer(p) \/ AttachAnswer(p) \/ SucceedTurn(p)
  <2>1. PICK next \in {"send", "attach", "succeed", "completeEpisode"} : Goto(p, next)
    BY <1>5 DEF RecordAnswer, DeliverAnswer, AttachAnswer, SucceedTurn
  <2>2. /\ pc'[p] = next /\ turn' = turn
    BY <2>1 DEF Goto, CoreTypeOK
  <2>3. \A e \in Turns \ {turn[p]} : /\ turnStatus'[e] = turnStatus[e] /\ messages'[e] = messages[e]
                                    /\ delivered'[e] = delivered[e] /\ attached'[e] = attached[e]
    BY <1>5 DEF RecordAnswer, DeliverAnswer, AttachAnswer, SucceedTurn, SetTurn, CoreTypeOK,
       RestTypeOK
  <2>4. PointKnown(p)'
    BY <1>0, <1>5, <2>2 DEF RecordAnswer, DeliverAnswer, AttachAnswer, SucceedTurn, At, Goto,
       SetTurn, CoreTypeOK,
                            RestTypeOK, PointKnown
  <2>5. /\ turnStatus'[turn[p]] # "none"
        /\ "resolution" \in delivered'[turn[p]] => "resolution" \in delivered[turn[p]]
        /\ \A e \in Turns : e = turn[p] => Told(e)'
    BY <1>0, <1>5 DEF RecordAnswer, DeliverAnswer, AttachAnswer, SucceedTurn, At, SetTurn,
       CoreTypeOK, RestTypeOK,
                      PointKnown, Told
  <2>6. UNCHANGED <<batch, current, lastTurn, lastOutcome>>
    BY <1>5 DEF RecordAnswer, DeliverAnswer, AttachAnswer, SucceedTurn
  <2> QED
    BY <2>1, <2>3, <2>4, <2>5, <2>6, TurnMoves DEF Goto
<1>6. CASE FailTurn(p) \/ RecordNotice(p)
  <2>1. PICK next \in {"failEpisode", "failEpisodeQuietly", "sendNotice"} : Goto(p, next)
    BY <1>6 DEF FailTurn, RecordNotice
  <2>2. PointKnown(p)'
    BY <2>1 DEF Goto, CoreTypeOK, PointKnown
  <2>3. \A e \in Turns \ {turn[p]} : /\ turnStatus'[e] = turnStatus[e] /\ messages'[e] = messages[e]
                                    /\ delivered'[e] = delivered[e] /\ attached'[e] = attached[e]
    BY <1>6 DEF FailTurn, RecordNotice, SetTurn, CoreTypeOK, RestTypeOK
  <2>4. /\ turnStatus'[turn[p]] # "none"
        /\ "resolution" \in delivered'[turn[p]] => "resolution" \in delivered[turn[p]]
        /\ \A e \in Turns : e = turn[p] => Told(e)'
    BY <1>0, <1>6 DEF FailTurn, RecordNotice, SetTurn, CoreTypeOK, RestTypeOK, Told
  <2>5. UNCHANGED <<batch, current, lastTurn, lastOutcome>>
    BY <1>6 DEF FailTurn, RecordNotice
  <2> QED
    BY <2>1, <2>2, <2>3, <2>4, <2>5, TurnMoves DEF Goto
<1>7. CASE DeliverNotice(p) \/ AttachNotice(p)
  <2>1. PICK next \in {"closeFailed", "supervise", "failTask"} :
          pc' = [pc EXCEPT ![p] = next] /\ (turn' = turn \/ turn' = [turn EXCEPT ![p] = 0])
    BY <1>7 DEF DeliverNotice, AttachNotice, TurnErrs, Restart, Goto
  <2>2. PointKnown(p)'
    BY <2>1 DEF CoreTypeOK, PointKnown
  <2>3. \A e \in Turns \ {turn[p]} : /\ turnStatus'[e] = turnStatus[e] /\ messages'[e] = messages[e]
                                    /\ delivered'[e] = delivered[e] /\ attached'[e] = attached[e]
    BY <1>7 DEF DeliverNotice, AttachNotice, CoreTypeOK, RestTypeOK
  <2>4. /\ turnStatus'[turn[p]] # "none"
        /\ "resolution" \in delivered'[turn[p]] => "resolution" \in delivered[turn[p]]
        /\ \A e \in Turns : e = turn[p] => Told(e)'
    BY <1>0, <1>7 DEF DeliverNotice, AttachNotice, CoreTypeOK, RestTypeOK, Told
  <2>5. UNCHANGED <<batch, current, lastTurn, lastOutcome>>
    BY <1>7 DEF DeliverNotice, AttachNotice
  <2> QED
    BY <2>1, <2>2, <2>3, <2>4, <2>5, TurnMoves
<1> QED
  BY <1>1, <1>2, <1>3, <1>4, <1>5, <1>6, <1>7 DEF TurnStep

\* The steps of the Telegram service.
LEMMA ServiceTells ==
  ASSUME CoreTypeOK, TurnsKnown, TurnsApart, RestTypeOK, TellInvariant, TelegramStep
  PROVE  TellInvariant'
<1> USE DEF taskVars, planVars, messageVars
<1>0. Telegram \in Processes /\ PointKnown(Telegram)
      /\ (pc[Telegram] \notin Alone => turn[Telegram] \in Turns /\ turn[Telegram] # 0
                                      /\ turnStatus[turn[Telegram]] # "none" /\ Told(turn[Telegram]))
  BY RowsAreNumbers DEF Processes, TurnsKnown, CoreTypeOK, TellInvariant
<1>1. CASE SkipUpdate \/ StageMessage
  BY <1>1 DEF SkipUpdate, StageMessage, TellInvariant, PointKnown, Told, RunsKnown,
     OutcomeMatchesRun
<1>2. CASE FetchUpdates
  <2>1. PointKnown(Telegram)'
    BY <1>0, <1>2 DEF FetchUpdates, PointKnown, CoreTypeOK
  <2> QED
    BY <1>0, <1>2, <2>1, QuietMoves DEF FetchUpdates
<1>3. CASE StartCallback
  BY <1>0, <1>3, TurnStarts, NextTurnIsFresh DEF StartCallback, At, SetTurn, Take, TurnsKnown,
     Alone, CoreTypeOK
<1>4. CASE BeginExecution
  BY <1>0, <1>4, TurnStarts DEF BeginExecution, At, SetTurn, Take, TurnsKnown, Alone
<1>5. CASE ScanConversation
  <2>1. CASE EndIteration
    BY <1>0, <1>5, <2>1, ReturnTells DEF ScanConversation
  <2>2. CASE pc' = [pc EXCEPT ![Telegram] = "begin"] /\ UNCHANGED turn
    <3>1. PointKnown(Telegram)'
      BY <1>0, <2>2 DEF PointKnown, CoreTypeOK
    <3> QED
      BY <1>0, <1>5, <2>2, <3>1, QuietMoves DEF ScanConversation
  <2> QED
    BY <1>5, <2>1, <2>2 DEF ScanConversation
<1>6. CASE PlanTurn
  BY <1>6, PlanTells
<1>7. CASE PlanNothing \/ RefuseMalformed \/ RecoverRestart \/ CloseBlockedRows \/ ResolveRequest \/ SyncAction
             \/ ExecuteApproved \/ CloseResolution
  <2>1. Restart(Telegram) \/ EndIteration \/ \E next \in Silent : Goto(Telegram, next)
    BY <1>7 DEF PlanNothing, RefuseMalformed, RecoverRestart, CloseBlockedRows, CloseRow,
       ResolveRequest, SyncAction,
                ExecuteApproved, CloseResolution, OpeningOf, Silent, ProgramPoints, TurnPoints, ResolutionPoints,
                ServicePoints
  <2>2. UNCHANGED <<turnStatus, batch, messageVars, current, lastTurn, lastOutcome>>
    BY <1>7 DEF PlanNothing, RefuseMalformed, RecoverRestart, CloseBlockedRows, CloseRow,
       ResolveRequest, SyncAction,
                ExecuteApproved, CloseResolution
  <2> QED
    BY <1>0, <2>1, <2>2, ReturnTells
<1>8. CASE BlockRecovery \/ EndResolution
  <2>0. pc[Telegram] \in {"block", "completeResolution", "failResolution"}
    BY <1>8 DEF BlockRecovery, EndResolution, At
  <2>1. PICK next \in {"closeBlocked", "closeResolution"} : Goto(Telegram, next)
    BY <1>8 DEF BlockRecovery, EndResolution
  <2>2. PointKnown(Telegram)'
    BY <1>0, <2>1 DEF Goto, CoreTypeOK, PointKnown
  <2>3. PICK status \in {"completed", "failed"} :
          /\ SetTurn(turn[Telegram], status)
          /\ status = "completed" => pc[Telegram] = "completeResolution"
    BY <1>8, <2>0 DEF BlockRecovery, EndResolution, At
  <2>4. UNCHANGED <<batch, messageVars, current, lastTurn, lastOutcome>>
    BY <1>8 DEF BlockRecovery, EndResolution
  <2>5. /\ \A e \in Turns \ {turn[Telegram]} : turnStatus'[e] = turnStatus[e]
        /\ turnStatus'[turn[Telegram]] # "none"
        /\ \A e \in Turns : e = turn[Telegram] => Told(e)'
    BY <1>0, <2>0, <2>3, <2>4 DEF SetTurn, CoreTypeOK, PointKnown, Told, Alone
  <2> QED
    BY <1>0, <2>1, <2>2, <2>4, <2>5, TurnMoves DEF Goto
<1>9. CASE SendBlocked \/ SendResolution \/ OpenFollowUp \/ FollowUp
  <2>0. pc[Telegram] \notin Alone
    BY <1>9 DEF SendBlocked, SendResolution, OpenFollowUp, FollowUp, At, Alone
  <2>1. PICK next \in {"supervise", "stage", "openFollowUp", "completeResolution", "followUp"} :
          /\ pc' = [pc EXCEPT ![Telegram] = next]
          /\ turn' = turn \/ turn' = [turn EXCEPT ![Telegram] = 0]
          /\ next \in {"openFollowUp", "completeResolution", "followUp"} => turn' = turn
          /\ next \in {"openFollowUp", "completeResolution", "followUp"} =>
               "resolution" \in delivered'[turn[Telegram]]
    BY <1>0, <1>9, <2>0 DEF SendBlocked, SendResolution, OpenFollowUp, FollowUp, EndIteration,
       Goto, At, PointKnown,
                     RestTypeOK
  <2>2. PointKnown(Telegram)'
    BY <1>0, <2>1 DEF PointKnown, CoreTypeOK
  <2>3. \A e \in Turns \ {turn[Telegram]} : /\ messages'[e] = messages[e]
                                           /\ delivered'[e] = delivered[e] /\ attached'[e] = attached[e]
    BY <1>9 DEF SendBlocked, SendResolution, OpenFollowUp, FollowUp, RestTypeOK
  <2>4. /\ messages[turn[Telegram]] \subseteq messages'[turn[Telegram]]
        /\ delivered[turn[Telegram]] \subseteq delivered'[turn[Telegram]]
        /\ attached[turn[Telegram]] \subseteq attached'[turn[Telegram]]
    BY <1>0, <1>9, <2>0 DEF SendBlocked, SendResolution, OpenFollowUp, FollowUp, RestTypeOK
  <2>5. UNCHANGED <<turnStatus, batch, current, lastTurn, lastOutcome>>
    BY <1>9 DEF SendBlocked, SendResolution, OpenFollowUp, FollowUp
  <2>6. \A e \in Turns : e = turn[Telegram] => Told(e)'
    BY <1>0, <2>0, <2>4, <2>5 DEF Told
  <2>7. turnStatus'[turn[Telegram]] # "none"
    BY <1>0, <2>0, <2>5
  <2> QED
    BY <1>0, <2>1, <2>2, <2>3, <2>5, <2>6, <2>7, TurnMoves
<1> QED
  BY <1>1, <1>2, <1>3, <1>4, <1>5, <1>6, <1>7, <1>8, <1>9 DEF TelegramStep, ResolutionStep

\* The steps of the harness.
LEMMA SchedulerTells ==
  ASSUME CoreTypeOK, TurnsKnown, TurnsApart, RestTypeOK, TellInvariant, HarnessStep
  PROVE  TellInvariant'
<1> USE DEF taskVars, planVars, messageVars
<1>0. Harness \in Processes /\ PointKnown(Harness) /\ Harness # Telegram
  BY DEF Processes, Telegram, Harness, TellInvariant
<1>1. CASE StageWakeSignal \/ NothingToRecover \/ EndClaims
  <2>1. PICK next \in {"recoverTasks", "claim", "supervise"} :
          pc' = [pc EXCEPT ![Harness] = next] /\ (turn' = turn \/ turn' = [turn EXCEPT ![Harness] = 0])
    BY <1>1 DEF StageWakeSignal, NothingToRecover, EndClaims, Goto
  <2>2. PointKnown(Harness)'
    BY <1>0, <2>1 DEF PointKnown, CoreTypeOK
  <2>3. UNCHANGED <<turnStatus, batch, messageVars, current, lastTurn, lastOutcome>>
    BY <1>1 DEF StageWakeSignal, NothingToRecover, EndClaims
  <2> QED
    BY <1>0, <2>1, <2>2, <2>3, QuietMoves
<1>2. CASE FailStrandedRun \/ SuppressRun
  <2>0. /\ pc[Harness] \in {"failStranded", "suppress"} /\ turn[Harness] \in Turns /\ turn[Harness] # 0
        /\ Told(turn[Harness])
    BY <1>0, <1>2, RowsAreNumbers DEF FailStrandedRun, SuppressRun, At, TurnsKnown, Alone,
       CoreTypeOK, TellInvariant
  <2>1. PICK next \in {"recordRecovered", "suppressTask"}, status \in {"failed", "completed"} :
          /\ Goto(Harness, next) /\ SetTurn(turn[Harness], status)
          /\ next = "suppressTask" \/ status = "completed" =>
                pc[Harness] = "suppress" /\ status = "completed"
    BY <1>2 DEF FailStrandedRun, SuppressRun, At
  <2>2. UNCHANGED <<batch, messageVars, current, lastTurn, lastOutcome>>
    BY <1>2 DEF FailStrandedRun, SuppressRun
  <2>3. PointKnown(Harness)'
    BY <1>0, <2>0, <2>1, <2>2 DEF Goto, SetTurn, CoreTypeOK, PointKnown
  <2>4. /\ \A e \in Turns \ {turn[Harness]} : turnStatus'[e] = turnStatus[e]
        /\ turnStatus'[turn[Harness]] # "none"
        /\ \A e \in Turns : e = turn[Harness] => Told(e)'
    BY <1>0, <2>0, <2>1, <2>2 DEF SetTurn, CoreTypeOK, PointKnown, Told
  <2> QED
    BY <1>0, <2>1, <2>2, <2>3, <2>4, TurnMoves DEF Goto
<1>3. CASE CompleteTask \/ FailTask \/ SuppressTask \/ RecordRecovered
  BY <1>3, RecordTells
<1>4. ASSUME NEW t \in Tasks, RecoverTask(t) PROVE TellInvariant'
  BY <1>4, RecoverTells
<1>5. ASSUME NEW t \in Tasks, ClaimDueTask(t) PROVE TellInvariant'
  <2>1. turn[Harness] = 0 /\ FreshTurns # {} /\ current[t] = 0
    BY <1>0, <1>5 DEF ClaimDueTask, At, TurnsKnown, Alone, Claimable
  <2>2. PICK next \in {"suppress", "episode"} :
          /\ Take(Harness, NextTurn, next)
          /\ \A e \in Turns : e # NextTurn \/ next = "suppress" => batch'[e] = batch[e]
    BY <1>5 DEF ClaimDueTask, CoreTypeOK
  <2> QED
    BY <1>0, <1>5, <2>1, <2>2, TurnStarts DEF ClaimDueTask, Take, SetTurn
<1> QED
  BY <1>1, <1>2, <1>3, <1>4, <1>5 DEF HarnessStep

\* Every step keeps it.
LEMMA NextTells ==
  ASSUME CoreTypeOK, TurnsKnown, TurnsApart, RestTypeOK, TellInvariant, Next
  PROVE  TellInvariant'
<1> USE DEF taskVars, planVars, messageVars
<1>1. ASSUME NEW p \in Processes, SuperviseLeases(p) PROVE TellInvariant'
  <2>1. \E next \in Silent : Goto(p, next)
    BY <1>1 DEF SuperviseLeases, Silent, ProgramPoints, ServicePoints, SchedulerPoints
  <2> QED
    BY <1>1, <2>1, ReturnTells DEF SuperviseLeases
<1>2. CASE TimePasses
  BY <1>2 DEF TimePasses, Post, RowGoesStale, LeaseFallsDue, RunGetsOld, TaskFallsDue,
     UpdateTask, TellInvariant,
              PointKnown, Told, RunsKnown, OutcomeMatchesRun
<1>3. ASSUME NEW p \in Processes, StatementFails(p) PROVE TellInvariant'
  <2>1. PICK next \in ErrorPath[pc[p]] : Goto(p, next)
    BY <1>3 DEF StatementFails
  <2>2. next \in Silent /\ pc[p] \notin Alone
    BY <1>3, <2>1 DEF StatementFails, ErrorPath, TurnPoints, FailurePoints, ResolutionPoints,
       Silent, ProgramPoints, Alone
  <2>3. PointKnown(p)'
    BY <2>1, <2>2 DEF Goto, CoreTypeOK, PointKnown, Silent
  <2>4. turn[p] \in Turns /\ turn[p] # 0 /\ turnStatus[turn[p]] # "none" /\ Told(turn[p])
    BY <2>2, RowsAreNumbers DEF TurnsKnown, CoreTypeOK, TellInvariant
  <2>5. /\ \A e \in Turns \ {turn[p]} : delivered'[e] = delivered[e]
        /\ delivered'[turn[p]] \in {delivered[turn[p]], delivered[turn[p]] \cup {"answer"}}
        /\ UNCHANGED <<turnStatus, batch, messages, attached, current, lastTurn, lastOutcome>>
    BY <1>3, <2>4 DEF StatementFails, RestTypeOK
  <2>6. \A e \in Turns : e = turn[p] => Told(e)'
    BY <2>4, <2>5 DEF Told
  <2> QED
    BY <2>1, <2>3, <2>4, <2>5, <2>6, TurnMoves DEF Goto
<1>4. ASSUME NEW p \in Processes, FailureFails(p) \/ Crash(p) PROVE TellInvariant'
  BY <1>4, ReturnTells DEF FailureFails, Crash
<1> QED
  BY <1>1, <1>2, <1>3, <1>4, TurnTells, ServiceTells, SchedulerTells DEF Next, ProcessStep, Faults

\* At the start nobody has been told anything.
LEMMA InitTells == Init => TellInvariant
<1> SUFFICES ASSUME Init PROVE TellInvariant
  OBVIOUS
<1>1. \A p \in Processes : PointKnown(p)
  BY DEF Init, PointKnown
<1>2. \A e \in Turns : Told(e)
  BY DEF Init, Told
<1>3. RunsKnown /\ OutcomeMatchesRun
  BY DEF Init, RunsKnown, OutcomeMatchesRun
<1> QED
  BY <1>1, <1>2, <1>3 DEF TellInvariant

\* So it always holds.
LEMMA TellHolds == Spec => []TellInvariant
<1>1. ForegroundInvariant /\ TypeOK /\ TellInvariant /\ [Next]_vars => TellInvariant'
  <2>1. SUFFICES ASSUME ForegroundInvariant, TypeOK, TellInvariant, [Next]_vars PROVE TellInvariant'
    OBVIOUS
  <2>2. CASE Next
    <3>1. RestTypeOK
      BY <2>1 DEF TypeOK, RestTypeOK
    <3> QED
      BY <2>1, <2>2, <3>1, NextTells DEF ForegroundInvariant
  <2>3. CASE UNCHANGED vars
    BY <2>1, <2>3 DEF vars, planVars, messageVars, taskVars, TellInvariant, PointKnown, Told,
       RunsKnown,
                      OutcomeMatchesRun
  <2> QED
    BY <2>1, <2>2, <2>3
<1> QED
  BY <1>1, InitTells, InvariantHolds, TypeCorrect, PTL DEF Spec

\* No execution is completed that told the user nothing: its answer is recorded,
\* was sent and carries the id of the message, or it reported how a request was
\* resolved, or it had no row to answer (foreground_orchestration.rs ends the
\* execution after the delivery; runtime.rs a suppressed run without one).
THEOREM CompletedTurnsTold == Spec => []CompletedMeansTold
<1>1. TellInvariant => CompletedMeansTold
  BY DEF TellInvariant, Told, CompletedMeansTold
<1> QED
  BY <1>1, TellHolds, PTL

\* What a task says of its last run is what became of it, also when recovery
\* recorded it after a crash (scheduled_foreground.rs).
THEOREM OutcomesAreTrue == Spec => []OutcomeMatchesRun
<1>1. TellInvariant => OutcomeMatchesRun
  BY DEF TellInvariant
<1> QED
  BY <1>1, TellHolds, PTL

=============================================================================
