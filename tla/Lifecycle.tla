----------------------------- MODULE Lifecycle -----------------------------
(***************************************************************************)
(* What the manager promises about its downloads, to a client that reads   *)
(* the event stream (EventKind in src/src/events.rs) and awaits results:   *)
(* which event may follow which, which result goes with which last event,  *)
(* when a transfer is under way, how many there may be and how often one   *)
(* is tried again.  Nothing is said of queues, channels, timers or tokens. *)
(***************************************************************************)
EXTENDS Naturals, FiniteSets

CONSTANTS
    Jobs,       \* downloads
    Retries     \* Retries[j]: how often j may be tried again

VARIABLES
    last,       \* last event of each download, "None" before the first
    outcome,    \* its result, "None" while there is none
    tries,      \* retries used
    active,     \* downloads whose transfer is under way
    limit       \* how many transfers may be under way

vars == <<last, outcome, tries, active, limit>>

Init ==
    /\ last = [j \in Jobs |-> "None"]
    /\ outcome = [j \in Jobs |-> "None"]
    /\ tries = [j \in Jobs |-> 0]
    /\ active = {}
    /\ limit \in Nat \ {0}

Reports(r) ==
    CASE r = "Ok"        -> "Completed"
      [] r = "Cancelled" -> "Cancelled"
      [] OTHER           -> "Failed"

\* Enqueued, resumed, or at the end of its back-off.
Queue(j) ==
    /\ last[j] \in {"None", "Paused", "RetryScheduled"}
    /\ last' = [last EXCEPT ![j] = "Queued"]
    /\ UNCHANGED <<outcome, tries, active, limit>>

\* A transfer starts in a free slot.
Start(j) ==
    /\ last[j] = "Queued"
    /\ Cardinality(active) < limit
    /\ last' = [last EXCEPT ![j] = "Started"]
    /\ active' = active \cup {j}
    /\ UNCHANGED <<outcome, tries, limit>>

\* The transfer failed and will be tried again, within the budget.
ScheduleRetry(j) ==
    /\ last[j] = "Started"
    /\ tries[j] < Retries[j]
    /\ last' = [last EXCEPT ![j] = "RetryScheduled"]
    /\ tries' = [tries EXCEPT ![j] = @ + 1]
    /\ active' = active \ {j}
    /\ UNCHANGED <<outcome, limit>>

StartPause(j) ==
    /\ last[j] = "Started"
    /\ last' = [last EXCEPT ![j] = "PauseStarted"]
    /\ UNCHANGED <<outcome, tries, active, limit>>

\* A paused download has no transfer.  One that failed while it was being
\* paused has used a retry.
Pause(j) ==
    /\ \/ last[j] \in {"Queued", "RetryScheduled", "PauseStarted"}
          /\ UNCHANGED tries
       \/ last[j] = "PauseStarted" /\ tries[j] < Retries[j]
          /\ tries' = [tries EXCEPT ![j] = @ + 1]
    /\ last' = [last EXCEPT ![j] = "Paused"]
    /\ active' = active \ {j}
    /\ UNCHANGED <<outcome, limit>>

\* The transfer is over, with result r.
Finish(j, r) ==
    /\ \/ last[j] \in {"Started", "PauseStarted"} /\ r \in {"Ok", "Fatal"}
       \/ last[j] \in {"Started", "PauseStarted"} /\ r = "Retryable"
          /\ tries[j] = Retries[j]
       \/ last[j] = "Started" /\ r \in {"Cancelled", "Io"}
       \/ last[j] = "CancellationStarted" /\ r \in {"Ok", "Cancelled", "Io"}
    /\ last' = [last EXCEPT ![j] = Reports(r)]
    /\ outcome' = [outcome EXCEPT ![j] = r]
    /\ active' = active \ {j}
    /\ UNCHANGED <<tries, limit>>

\* The downloads of S that have not ended are cancelled in one go: those
\* without a transfer end, with an error if their clean-up fails, the others
\* begin to stop.
Cancel(S) ==
    LET idle == {j \in S : last[j] \in {"Queued", "RetryScheduled", "Paused"}}
        busy == {j \in S : last[j] \in {"Started", "PauseStarted"}}
    IN  \E r \in [idle -> {"Cancelled", "Io"}] :
          /\ last' = [j \in Jobs |-> IF j \in idle THEN Reports(r[j])
                                     ELSE IF j \in busy THEN "CancellationStarted"
                                     ELSE last[j]]
          /\ outcome' = [j \in Jobs |-> IF j \in idle THEN r[j] ELSE outcome[j]]
          /\ UNCHANGED <<tries, active, limit>>

SetLimit ==
    /\ limit' \in Nat \ {0}
    /\ UNCHANGED <<last, outcome, tries, active>>

Next ==
    \/ \E j \in Jobs : \/ Queue(j) \/ Start(j) \/ ScheduleRetry(j)
                       \/ StartPause(j) \/ Pause(j)
    \/ \E j \in Jobs, r \in {"Ok", "Cancelled", "Io", "Retryable", "Fatal"} :
          Finish(j, r)
    \/ \E S \in SUBSET Jobs : Cancel(S)
    \/ SetLimit

Spec == Init /\ [][Next]_vars

=============================================================================
