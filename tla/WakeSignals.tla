----------------------------- MODULE WakeSignals -----------------------------
(***************************************************************************)
(* The review of wake signals: a background job whose results ask for the  *)
(* user's attention records each signal, looks at the signals of others,   *)
(* decides by policy and stages the approved ones as rows of the inbox.    *)
(* Each step is a statement of its own, and the jobs of the service and of *)
(* an operator review their signals side by side.                          *)
(***************************************************************************)
EXTENDS Naturals, FiniteSets

CONSTANTS
  Signals,         \* bound: signals of all jobs
  Reviewers,       \* bound: background jobs that apply their results
  SignalCodes,     \* what a signal is about
  MaxPending       \* background.wake_signals.max_pending_signals

ASSUME WakeAssumption == MaxPending \in Nat \ {0} /\ IsFiniteSet(Signals) /\ SignalCodes # {}

Priorities == {"low", "normal", "high"}
WakeDecisions == {"accepted", "rejected", "suppressed", "deferred"}
NoSignal == "no signal"

ASSUME NoSignalAssumption == NoSignal \notin Signals

VARIABLES
  settings,    \* whether a conversation is bound, and conversion is allowed
  signals,     \* wake_signals
  stagedFor,   \* signals whose row is in the inbox
  review       \* each job: next statement, its signal, and what it has read

wakeVars == <<settings, signals, stagedFor, review>>

WakeTypeOK ==
  /\ settings \in [bound : BOOLEAN, allowed : BOOLEAN]
  /\ signals \in [Signals -> [status : WakeDecisions \cup {"absent", "pending_review"},
                              code : SignalCodes, priority : Priorities,
                              cooldown : {"none", "running", "over"}]]
  /\ stagedFor \subseteq Signals
  /\ review \in [Reviewers ->
       [at : {"next", "count", "cooldown", "evaluate", "stage", "record", "done"},
        signal : Signals \cup {NoSignal}, over : SUBSET Signals,
        count : Nat, cooling : BOOLEAN, decision : WakeDecisions \cup {"none"}]]

ReviewAt(point, s, over) == [at |-> point, signal |-> s, over |-> over, count |-> 0,
                             cooling |-> FALSE, decision |-> "none"]
FreshReview == ReviewAt("next", NoSignal, {})

WakeInit ==
  /\ settings \in [bound : BOOLEAN, allowed : BOOLEAN]
  /\ signals = [s \in Signals |-> [status |-> "absent", code |-> CHOOSE c \in SignalCodes : TRUE,
                                   priority |-> "low", cooldown |-> "none"]]
  /\ stagedFor = {}
  /\ review = [j \in Reviewers |-> FreshReview]

-----------------------------------------------------------------------------
Reviews(j, point) == review[j].at = point
Recorded(s) == signals[s].status # "absent"
Over == {s \in Signals : signals[s].cooldown = "over"}

\* A cooldown is compared with the time the signal under review was requested.
CoolingFor(j) == {s \in Signals : signals[s].cooldown # "none" /\ s \notin review[j].over}

\* count_open_wake_signals, which finds the signal under review as well.
OpenFor(j) ==
  {s \in Signals : /\ signals[s].status \in {"pending_review", "accepted", "deferred"}
                   /\ signals[s].cooldown = "none" \/ s \in CoolingFor(j)}

\* Mutant: only signals that have been decided are counted.
DecidedFor(j) ==
  {s \in Signals : /\ signals[s].status \in {"accepted", "deferred"}
                   /\ signals[s].cooldown = "none" \/ s \in CoolingFor(j)}

-----------------------------------------------------------------------------
RecordSignal(j, s, code, priority) ==
  /\ Reviews(j, "next")
  /\ ~Recorded(s)
  /\ signals' = [signals EXCEPT ![s] = [status |-> "pending_review", code |-> code,
                                        priority |-> priority, cooldown |-> "none"]]
  /\ review' = [review EXCEPT ![j] = ReviewAt("count", s, Over)]
  /\ UNCHANGED <<settings, stagedFor>>

\* Mutant: see DecidedFor.
CountDecided(j) ==
  /\ Reviews(j, "count")
  /\ review' = [review EXCEPT ![j].at = "cooldown", ![j].count = Cardinality(DecidedFor(j))]
  /\ UNCHANGED <<settings, signals, stagedFor>>

CountOpen(j) ==
  /\ Reviews(j, "count")
  /\ review' = [review EXCEPT ![j].at = "cooldown", ![j].count = Cardinality(OpenFor(j))]
  /\ UNCHANGED <<settings, signals, stagedFor>>

\* has_active_wake_signal_cooldown asks about the other signals of the code.
CheckCooldown(j) ==
  /\ Reviews(j, "cooldown")
  /\ LET s == review[j].signal
     IN  review' = [review EXCEPT ![j].at = "evaluate",
           ![j].cooling = \E t \in CoolingFor(j) \ {s} : signals[t].code = signals[s].code]
  /\ UNCHANGED <<settings, signals, stagedFor>>

\* evaluate_wake_signal.  A boundary of the identity, resource pressure and
\* reliability defer a signal alike, unless its priority is high.
Verdicts(j) ==
  LET priority == signals[review[j].signal].priority
      full == review[j].count >= MaxPending
  IN  IF ~settings.bound THEN {"rejected"}
      ELSE IF ~settings.allowed THEN {"deferred"}
      ELSE IF priority = "high" THEN {"accepted"}
      ELSE IF review[j].cooling THEN {"deferred"}
      ELSE {"deferred", IF ~full THEN "accepted"
                        ELSE IF priority = "low" THEN "suppressed" ELSE "deferred"}

EvaluateSignal(j) ==
  /\ Reviews(j, "evaluate")
  /\ \E decision \in Verdicts(j) :
       review' = [review EXCEPT ![j].decision = decision,
                                ![j].at = IF decision = "accepted" THEN "stage" ELSE "record"]
  /\ UNCHANGED <<settings, signals, stagedFor>>

\* stage_approved_wake_signal_foreground_ingress.
StageSignal(j) ==
  /\ Reviews(j, "stage")
  /\ stagedFor' = stagedFor \cup {review[j].signal}
  /\ review' = [review EXCEPT ![j].at = "record"]
  /\ UNCHANGED <<settings, signals>>

CooldownAfter(decision) == IF decision = "rejected" THEN "none" ELSE "running"

\* record_wake_signal_decision.  (A rejected signal has a recovery checkpoint
\* by then, which nothing reads.)
RecordDecision(j) ==
  /\ Reviews(j, "record")
  /\ signals' = [signals EXCEPT
       ![review[j].signal].status = review[j].decision,
       ![review[j].signal].cooldown = CooldownAfter(review[j].decision)]
  /\ review' = [review EXCEPT ![j] = FreshReview]
  /\ UNCHANGED <<settings, stagedFor>>

\* A crash or an error ends the results of the job; a signal it had under
\* review stays pending, and nothing reviews it again.
AbandonReview(j) ==
  /\ ~Reviews(j, "done")
  /\ review' = [review EXCEPT ![j] = ReviewAt("done", NoSignal, {})]
  /\ UNCHANGED <<settings, signals, stagedFor>>

CooldownEnds(s) ==
  /\ signals[s].cooldown = "running"
  /\ signals' = [signals EXCEPT ![s].cooldown = "over"]
  /\ UNCHANGED <<settings, stagedFor, review>>

WakeNext ==
  \/ \E j \in Reviewers :
       \/ \E s \in Signals, code \in SignalCodes, priority \in Priorities :
            RecordSignal(j, s, code, priority)
       \/ CountOpen(j) \/ CheckCooldown(j) \/ EvaluateSignal(j)
       \/ StageSignal(j) \/ RecordDecision(j) \/ AbandonReview(j)
  \/ \E s \in Signals : CooldownEnds(s)

WakeSpec == WakeInit /\ [][WakeNext]_wakeVars

-----------------------------------------------------------------------------
\* However many jobs review signals side by side, the signals without high
\* priority that were approved and have not cooled down stay below the limit:
\* a signal is on record before its job counts, so the last to count sees all.
ApprovedStayBelowLimit ==
  Cardinality({s \in Signals : /\ signals[s].priority # "high"
                               /\ signals[s].status = "accepted"
                               /\ signals[s].cooldown = "running"}) < MaxPending
=============================================================================
