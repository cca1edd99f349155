------------------------ MODULE SchedulerRefinement ------------------------
(***************************************************************************)
(* Proof that Scheduler implements the promises of Lifecycle, for any      *)
(* number of downloads, calls and retries, any limits and any channel      *)
(* capacity.                                                               *)
(***************************************************************************)
EXTENDS SchedulerPromises

----------------------------------------------------------------------------
(* The refinement mapping.  Its only difficulty is `event`, which the code *)
(* emits and never reads: it has to agree with the state the code does     *)
(* read.                                                                   *)

\* The last event of a download in each state of its job.
EventOf(j) ==
    CASE state[j] = "Queued"     -> "Queued"
      [] state[j] = "Running"    -> "Started"
      [] state[j] = "Retrying"   -> "RetryScheduled"
      [] state[j] = "Pausing"    -> "PauseStarted"
      [] state[j] = "Paused"     -> "Paused"
      [] state[j] = "Cancelling" -> "CancellationStarted"
      [] OTHER -> IF result[j] = "None" THEN "None" ELSE TerminalEvent(result[j])

\* The events tell the states of the jobs, and a download the scheduler has
\* not seen has used no retry.
EventMatches ==
    \A j \in Jobs :
        /\ event[j] = EventOf(j)
        /\ state[j] = "None" /\ result[j] = "None" => attempt[j] = 0

\* The transfers under way are the jobs in a live state.
LEMMA ActiveIsLive ==
    ASSUME TypeOK, OneWorkerPerLiveJob
    PROVE  {w.id : w \in workers} = {j \in Jobs : state[j] \in Live}
<1>1. \A w \in workers : w.id \in Jobs
  BY DEF TypeOK, Worker
<1>2. \A j \in Jobs : state[j] \in Live <=> \E w \in workers : w.id = j
  BY DEF OneWorkerPerLiveJob
<1> QED BY <1>1, <1>2

\* The same of the next state.
LEMMA ActiveIsLiveNext ==
    ASSUME TypeOK', OneWorkerPerLiveJob'
    PROVE  {w.id : w \in workers'} = {j \in Jobs : state'[j] \in Live}
<1>1. \A w \in workers' : w.id \in Jobs
  BY DEF TypeOK, Worker
<1>2. \A j \in Jobs : state'[j] \in Live <=> \E w \in workers' : w.id = j
  BY DEF OneWorkerPerLiveJob
<1> QED BY <1>1, <1>2

\* There are no more of them than worker futures.
LEMMA ActiveCount ==
    ASSUME TypeOK
    PROVE  /\ Cardinality({w.id : w \in workers}) \in Nat
           /\ Cardinality({w.id : w \in workers}) <= Cardinality(workers)
           /\ Cardinality(workers) \in Nat
<1> DEFINE f == [w \in workers |-> w.id]
<1>1. f \in Surjection(workers, {w.id : w \in workers})
  BY DEF Surjection
<1>2. IsFiniteSet(workers)
  BY DEF TypeOK
<1>3. /\ IsFiniteSet({w.id : w \in workers})
      /\ Cardinality({w.id : w \in workers}) <= Cardinality(workers)
  BY <1>1, <1>2, FS_Surjection
<1> QED BY <1>2, <1>3, FS_CardinalityType

\* The operator that Lifecycle has from FiniteSets is the one used here.
LEMMA SameCardinality ==
    ASSUME NEW S
    PROVE  Contract!Cardinality(S) = Cardinality(S)
  BY DEF Cardinality, Contract!Cardinality

\* What both sides of a step know.
View == TypeOK /\ {w.id : w \in workers} = {j \in Jobs : state[j] \in Live}

\* The events, states and results of the other downloads stay as they are, so
\* they still match.
LEMMA OthersMatch ==
    ASSUME EventMatches, NEW j \in Jobs,
           \A k \in Jobs \ {j} : /\ state'[k] = state[k] /\ result'[k] = result[k]
                                 /\ event'[k] = event[k] /\ attempt'[k] = attempt[k],
           event'[j] = EventOf(j)',
           state'[j] = "None" /\ result'[j] = "None" => attempt'[j] = 0
    PROVE  EventMatches'
  BY DEF EventMatches, EventOf

----------------------------------------------------------------------------
(* Each kind of step, seen through the mapping *)

\* Enqueued, resumed or at the end of its back-off.
LEMMA QueueView ==
    ASSUME View, View', EventMatches, NEW j \in Jobs,
           \/ state[j] \in {"Paused", "Retrying"}
           \/ state[j] = "None" /\ result[j] = "None",
           Requeue(j), UNCHANGED <<result, attempt, limit>>
    PROVE  EventMatches' /\ Contract!Queue(j)
<1>1. /\ state' = [state EXCEPT ![j] = "Queued"] /\ event' = [event EXCEPT ![j] = "Queued"]
      /\ DOMAIN state = Jobs /\ DOMAIN event = Jobs
  BY DEF Requeue, View, TypeOK
<1>2. event[j] \in {"None", "Paused", "RetryScheduled"}
  BY DEF EventMatches, EventOf
<1>3. {w.id : w \in workers'} = {w.id : w \in workers}
  BY <1>1 DEF View, Live
<1>4. EventMatches'
  BY <1>1, OthersMatch DEF EventOf
<1> QED BY <1>1, <1>2, <1>3, <1>4 DEF Contract!Queue

\* A job starts in a free slot.
LEMMA StartView ==
    ASSUME View, View', EventMatches, NEW j \in Jobs, state[j] = "Queued",
           Cardinality(workers) < limit,
           state' = [state EXCEPT ![j] = "Running"],
           event' = [event EXCEPT ![j] = "Started"],
           UNCHANGED <<result, attempt, limit>>
    PROVE  EventMatches' /\ Contract!Start(j)
<1>1. DOMAIN state = Jobs /\ DOMAIN event = Jobs /\ limit \in Nat
  BY DEF View, TypeOK
<1>2. event[j] = "Queued"
  BY DEF EventMatches, EventOf
<1>3. {w.id : w \in workers'} = {w.id : w \in workers} \cup {j}
  BY <1>1 DEF View, Live
<1>4. Cardinality({w.id : w \in workers}) < limit
  BY <1>1, ActiveCount DEF View
<1>5. EventMatches'
  BY <1>1, OthersMatch DEF EventOf
<1> QED BY <1>2, <1>3, <1>4, <1>5, SameCardinality DEF Contract!Start

\* A failed transfer is to be tried again.
LEMMA RetryView ==
    ASSUME View, View', EventMatches, NEW j \in Jobs, state[j] = "Running",
           RetriesLeft(j), Retry(j), limit' = limit
    PROVE  EventMatches' /\ Contract!ScheduleRetry(j)
<1>1. /\ state' = [state EXCEPT ![j] = "Retrying"]
      /\ event' = [event EXCEPT ![j] = "RetryScheduled"]
      /\ attempt' = [attempt EXCEPT ![j] = attempt[j] + 1]
      /\ result' = result
      /\ DOMAIN state = Jobs /\ DOMAIN event = Jobs /\ DOMAIN attempt = Jobs
  BY DEF Retry, NextAttempt, View, TypeOK
<1>2. event[j] = "Started"
  BY DEF EventMatches, EventOf
<1>3. {w.id : w \in workers'} = {w.id : w \in workers} \ {j}
  BY <1>1 DEF View, Live
<1>4. EventMatches'
  BY <1>1, OthersMatch DEF EventOf
<1> QED BY <1>1, <1>2, <1>3, <1>4 DEF Contract!ScheduleRetry, RetriesLeft

\* A running job is asked to stop for a pause.
LEMMA StartPauseView ==
    ASSUME View, View', EventMatches, NEW j \in Jobs, state[j] = "Running",
           state' = [state EXCEPT ![j] = "Pausing"],
           event' = [event EXCEPT ![j] = "PauseStarted"],
           UNCHANGED <<result, attempt, limit>>
    PROVE  EventMatches' /\ Contract!StartPause(j)
<1>1. DOMAIN state = Jobs /\ DOMAIN event = Jobs
  BY DEF View, TypeOK
<1>2. event[j] = "Started"
  BY DEF EventMatches, EventOf
<1>3. {w.id : w \in workers'} = {w.id : w \in workers}
  BY <1>1 DEF View, Live
<1>4. EventMatches'
  BY <1>1, OthersMatch DEF EventOf
<1> QED BY <1>2, <1>3, <1>4 DEF Contract!StartPause

\* A job is paused, at once or after its worker has stopped or failed.
LEMMA PauseView ==
    ASSUME View, View', EventMatches, NEW j \in Jobs, NEW C, PauseJob(j, C),
           \/ state[j] \in {"Queued", "Retrying", "Pausing"} /\ attempt' = attempt
           \/ /\ state[j] = "Pausing" /\ RetriesLeft(j)
              /\ attempt' = [attempt EXCEPT ![j] = NextAttempt(j)],
           UNCHANGED <<result, limit>>
    PROVE  EventMatches' /\ Contract!Pause(j)
<1>1. /\ state' = [state EXCEPT ![j] = "Paused"]
      /\ event' = [event EXCEPT ![j] = "Paused"]
      /\ DOMAIN state = Jobs /\ DOMAIN event = Jobs /\ DOMAIN attempt = Jobs
  BY DEF PauseJob, View, TypeOK
<1>2. \/ event[j] \in {"Queued", "RetryScheduled", "PauseStarted"} /\ attempt' = attempt
      \/ /\ event[j] = "PauseStarted" /\ attempt[j] < Retries[j]
         /\ attempt' = [attempt EXCEPT ![j] = attempt[j] + 1]
  BY DEF EventMatches, EventOf, RetriesLeft, NextAttempt
<1>3. {w.id : w \in workers'} = {w.id : w \in workers} \ {j}
  BY <1>1 DEF View, Live
<1>4. EventMatches'
  BY <1>1, <1>2, OthersMatch DEF EventOf
<1> QED BY <1>1, <1>2, <1>3, <1>4 DEF Contract!Pause

\* A transfer is over.
LEMMA FinishView ==
    ASSUME View, View', EventMatches, NEW j \in Jobs, NEW r \in Result, Finalize(j, r),
           \/ state[j] \in {"Running", "Pausing"} /\ r \in {"Ok", "Fatal"}
           \/ /\ state[j] \in {"Running", "Pausing"} /\ r = "Retryable"
              /\ attempt[j] = Retries[j]
           \/ state[j] = "Running" /\ r \in {"Cancelled", "Io"}
           \/ state[j] = "Cancelling" /\ r \in {"Ok", "Cancelled", "Io"},
           UNCHANGED <<attempt, limit>>
    PROVE  EventMatches' /\ Contract!Finish(j, r)
<1>1. /\ state' = [state EXCEPT ![j] = "None"]
      /\ event' = [event EXCEPT ![j] = TerminalEvent(r)]
      /\ result' = [result EXCEPT ![j] = r]
      /\ DOMAIN state = Jobs /\ DOMAIN event = Jobs /\ DOMAIN result = Jobs
      /\ r # "None"
  BY DEF Finalize, View, TypeOK, Result, JobError
<1>2. /\ state[j] = "Running" => event[j] = "Started"
      /\ state[j] = "Pausing" => event[j] = "PauseStarted"
      /\ state[j] = "Cancelling" => event[j] = "CancellationStarted"
  BY DEF EventMatches, EventOf
<1>3. {w.id : w \in workers'} = {w.id : w \in workers} \ {j}
  BY <1>1 DEF View, Live
<1>4. EventMatches'
  BY <1>1, OthersMatch DEF EventOf
<1>5. TerminalEvent(r) = Contract!Reports(r)
  BY DEF TerminalEvent, Contract!Reports
<1> QED BY <1>1, <1>2, <1>3, <1>4, <1>5 DEF Contract!Finish

\* The jobs of S are cancelled.
LEMMA CancelView ==
    ASSUME View, View', EventMatches, NEW S \in SUBSET Jobs, CancelJobs(S), limit' = limit
    PROVE  EventMatches' /\ Contract!Cancel(S)
<1>1. /\ {j \in S : event[j] \in {"Queued", "RetryScheduled", "Paused"}}
            = {j \in S : state[j] \in Idle}
      /\ {j \in S : event[j] \in {"Started", "PauseStarted"}}
            = {j \in S : state[j] \in {"Running", "Pausing"}}
  <2>1. ASSUME NEW j \in S
        PROVE  /\ event[j] \in {"Queued", "RetryScheduled", "Paused"} <=> state[j] \in Idle
               /\ event[j] \in {"Started", "PauseStarted"} <=> state[j] \in {"Running", "Pausing"}
    <3>1. event[j] = EventOf(j) /\ state[j] \in JobState \cup {"None"}
      BY DEF EventMatches, View, TypeOK
    <3> QED BY <3>1 DEF EventOf, TerminalEvent, Idle, JobState
  <2> QED BY <2>1
<1>2. PICK r \in [{j \in S : state[j] \in Idle} -> {"Cancelled", "Io"}] :
         /\ state' = [j \in Jobs |-> IF j \in {i \in S : state[i] \in Idle} THEN "None"
                        ELSE IF j \in {i \in S : state[i] \in {"Running", "Pausing"}}
                             THEN "Cancelling" ELSE state[j]]
         /\ result' = [j \in Jobs |-> IF j \in {i \in S : state[i] \in Idle}
                                      THEN r[j] ELSE result[j]]
         /\ event' = [j \in Jobs |-> IF j \in {i \in S : state[i] \in Idle}
                                     THEN TerminalEvent(r[j])
                        ELSE IF j \in {i \in S : state[i] \in {"Running", "Pausing"}}
                             THEN "CancellationStarted" ELSE event[j]]
         /\ UNCHANGED attempt
  BY DEF CancelJobs
<1>3. {w.id : w \in workers'} = {w.id : w \in workers}
  <2>1. \A j \in Jobs : state'[j] \in Live <=> state[j] \in Live
    BY <1>2 DEF Live, Idle
  <2> QED BY <2>1 DEF View
<1>4. EventMatches'
  <2> SUFFICES ASSUME NEW j \in Jobs
               PROVE  /\ event'[j] = EventOf(j)'
                      /\ state'[j] = "None" /\ result'[j] = "None" => attempt'[j] = 0
    BY DEF EventMatches
  <2>1. CASE j \in S /\ state[j] \in Idle
    <3>1. r[j] \in {"Cancelled", "Io"} /\ state'[j] = "None" /\ result'[j] = r[j]
          /\ event'[j] = TerminalEvent(r[j])
      BY <1>2, <2>1
    <3> QED BY <3>1 DEF EventOf
  <2>2. CASE j \in S /\ state[j] \in {"Running", "Pausing"}
    <3>1. state'[j] = "Cancelling" /\ event'[j] = "CancellationStarted"
      BY <1>2, <2>2 DEF Idle
    <3> QED BY <3>1 DEF EventOf
  <2>3. CASE ~(j \in S /\ state[j] \in Idle) /\ ~(j \in S /\ state[j] \in {"Running", "Pausing"})
    <3>1. state'[j] = state[j] /\ event'[j] = event[j] /\ result'[j] = result[j]
          /\ attempt'[j] = attempt[j]
      BY <1>2, <2>3
    <3> QED BY <3>1 DEF EventMatches, EventOf
  <2> QED BY <2>1, <2>2, <2>3
<1>5. \A x \in {"Cancelled", "Io"} : TerminalEvent(x) = Contract!Reports(x)
  BY DEF TerminalEvent, Contract!Reports
<1>6. Contract!Cancel(S)
  <2> DEFINE idle == {j \in S : event[j] \in {"Queued", "RetryScheduled", "Paused"}}
             busy == {j \in S : event[j] \in {"Started", "PauseStarted"}}
  <2>1. /\ idle = {j \in S : state[j] \in Idle}
        /\ busy = {j \in S : state[j] \in {"Running", "Pausing"}}
    BY <1>1
  <2> HIDE DEF idle, busy
  <2>2. /\ r \in [idle -> {"Cancelled", "Io"}]
        /\ result' = [j \in Jobs |-> IF j \in idle THEN r[j] ELSE result[j]]
        /\ event' = [j \in Jobs |-> IF j \in idle THEN TerminalEvent(r[j])
                                    ELSE IF j \in busy THEN "CancellationStarted"
                                    ELSE event[j]]
    BY <1>2, <2>1
  <2>3. event' = [j \in Jobs |-> IF j \in idle THEN Contract!Reports(r[j])
                                 ELSE IF j \in busy THEN "CancellationStarted"
                                 ELSE event[j]]
    <3>1. \A j \in Jobs : j \in idle => TerminalEvent(r[j]) = Contract!Reports(r[j])
      BY <1>5, <2>2
    <3> QED BY <2>2, <3>1
  <2>4. UNCHANGED <<attempt, {w.id : w \in workers}, limit>>
    BY <1>2, <1>3
  <2> QED BY <2>2, <2>3, <2>4 DEF Contract!Cancel, idle, busy
<1> QED BY <1>4, <1>6

----------------------------------------------------------------------------
(* Each step is one of these, or no step of the life cycle *)

\* A step that changes nothing the life cycle is about.
LEMMA StutterView ==
    ASSUME EventMatches,
           UNCHANGED <<state, event, result, attempt, limit>>,
           {w.id : w \in workers'} = {w.id : w \in workers}
    PROVE  EventMatches' /\ UNCHANGED Contract!vars
<1>1. EventMatches'
  BY DEF EventMatches, EventOf
<1> QED BY <1>1 DEF Contract!vars

\* The result of a worker ends the transfer, ends a pause or schedules a
\* retry, each only where the life cycle allows it.
LEMMA WorkerView ==
    ASSUME IInv, View, View', EventMatches, NEW w \in workers, WorkerStep(w)
    PROVE  EventMatches' /\ Contract!Next
<1>1. w.id \in Jobs /\ state[w.id] \in Live
  BY DEF IInv, TypeOK, OneWorkerPerLiveJob, Worker
<1>2. PICK j \in Jobs : j = w.id
  BY <1>1
<1>3. state[j] \in {"Running", "Pausing", "Cancelling"}
  BY <1>1, <1>2 DEF Live
<1>4. limit' = limit
  BY DEF WorkerStep, WorkerFinished, WorkerStopped, WorkerFailed, WorkerFatal, WorkerReturns
<1>5. attempt[j] \in Nat /\ Retries[j] \in Nat /\ attempt[j] <= Retries[j]
  BY RetriesType DEF View, TypeOK
<1>6. {"Ok", "Cancelled", "Io", "Retryable", "Fatal"} \subseteq Result
  BY DEF Result, JobError
<1>7. ASSUME NEW r \in {"Ok", "Cancelled", "Io", "Retryable", "Fatal"}, Finalize(j, r),
             \/ state[j] \in {"Running", "Pausing"} /\ r \in {"Ok", "Fatal"}
             \/ state[j] \in {"Running", "Pausing"} /\ r = "Retryable" /\ ~RetriesLeft(j)
             \/ state[j] = "Running" /\ r \in {"Cancelled", "Io"}
             \/ state[j] = "Cancelling" /\ r \in {"Ok", "Cancelled", "Io"},
             attempt' = attempt
      PROVE  EventMatches' /\ Contract!Next
  <2>1. ~RetriesLeft(j) => attempt[j] = Retries[j]
    BY <1>5 DEF RetriesLeft
  <2>2. EventMatches' /\ Contract!Finish(j, r)
    BY <1>4, <1>6, <1>7, <2>1, FinishView
  <2> QED BY <2>2 DEF Contract!Next
<1>8. ASSUME PauseJob(j, {}), state[j] = "Pausing", result' = result,
             \/ attempt' = attempt
             \/ RetriesLeft(j) /\ attempt' = [attempt EXCEPT ![j] = NextAttempt(j)]
      PROVE  EventMatches' /\ Contract!Next
  <2>1. EventMatches' /\ Contract!Pause(j)
    BY <1>4, <1>8, PauseView
  <2> QED BY <2>1 DEF Contract!Next
<1>9. CASE WorkerFinished(w)
  <2>1. Finalize(j, "Ok") /\ attempt' = attempt
    BY <1>2, <1>3, <1>9 DEF WorkerFinished
  <2> QED BY <1>3, <1>7, <2>1
<1>10. CASE WorkerStopped(w)
  <2>1. /\ attempt' = attempt
        /\ \/ CancelJob(j) /\ state[j] \in {"Cancelling", "Running"}
           \/ PauseJob(j, {}) /\ result' = result /\ state[j] = "Pausing"
    BY <1>2, <1>3, <1>10 DEF WorkerStopped
  <2>2. CASE CancelJob(j) /\ state[j] \in {"Cancelling", "Running"}
    BY <1>7, <2>1, <2>2 DEF CancelJob
  <2>3. CASE PauseJob(j, {}) /\ result' = result /\ state[j] = "Pausing"
    BY <1>8, <2>1, <2>3
  <2> QED BY <2>1, <2>2, <2>3
<1>11. CASE WorkerFailed(w)
  <2>1. \/ CancelJob(j) /\ state[j] = "Cancelling" /\ attempt' = attempt
        \/ /\ Finalize(j, "Retryable") /\ ~RetriesLeft(j) /\ attempt' = attempt
           /\ state[j] \in {"Running", "Pausing"}
        \/ state[j] = "Pausing" /\ RetriesLeft(j) /\ PauseAfterFailure(j)
        \/ state[j] = "Running" /\ RetriesLeft(j) /\ Retry(j)
    BY <1>2, <1>3, <1>11 DEF WorkerFailed
  <2>2. CASE CancelJob(j) /\ state[j] = "Cancelling" /\ attempt' = attempt
    BY <1>7, <2>2 DEF CancelJob
  <2>3. CASE /\ Finalize(j, "Retryable") /\ ~RetriesLeft(j) /\ attempt' = attempt
             /\ state[j] \in {"Running", "Pausing"}
    BY <1>7, <2>3
  <2>4. CASE state[j] = "Pausing" /\ RetriesLeft(j) /\ PauseAfterFailure(j)
    BY <1>8, <2>4 DEF PauseAfterFailure
  <2>5. CASE state[j] = "Running" /\ RetriesLeft(j) /\ Retry(j)
    <3>1. EventMatches' /\ Contract!ScheduleRetry(j)
      BY <1>4, <2>5, RetryView
    <3> QED BY <3>1 DEF Contract!Next
  <2> QED BY <2>1, <2>2, <2>3, <2>4, <2>5
<1>12. CASE WorkerFatal(w)
  <2>1. /\ attempt' = attempt
        /\ \/ CancelJob(j) /\ state[j] = "Cancelling"
           \/ Finalize(j, "Fatal") /\ state[j] \in {"Running", "Pausing"}
    BY <1>2, <1>3, <1>12 DEF WorkerFatal
  <2>2. CASE CancelJob(j) /\ state[j] = "Cancelling"
    BY <1>7, <2>1, <2>2 DEF CancelJob
  <2>3. CASE Finalize(j, "Fatal") /\ state[j] \in {"Running", "Pausing"}
    BY <1>7, <2>1, <2>3
  <2> QED BY <2>1, <2>2, <2>3
<1> QED BY <1>9, <1>10, <1>11, <1>12 DEF WorkerStep

\* Every step of the scheduler and its clients keeps the events true to the
\* states, and is a step of the life cycle or none.
LEMMA StepRefines ==
    ASSUME IInv, IInv', EventMatches, [Next]_vars
    PROVE  EventMatches' /\ [Contract!Next]_Contract!vars
<1>1. TypeOK /\ OneWorkerPerLiveJob /\ DownloadsAccountedFor /\ TypeOK' /\ OneWorkerPerLiveJob'
  BY DEF IInv
<1>2. View
  BY <1>1, ActiveIsLive DEF View
<1>3. View'
  BY <1>1, ActiveIsLiveNext DEF View
<1>4. ASSUME UNCHANGED <<state, event, result, attempt, limit, workers>>
      PROVE  EventMatches' /\ UNCHANGED Contract!vars
  BY <1>4, StutterView
<1>5. CASE UNCHANGED vars
  BY <1>4, <1>5 DEF vars
<1>6. CASE ClientStep
  <2>1. UNCHANGED <<state, event, result, attempt, limit, workers>>
    BY <1>6 DEF ClientStep, Send, Enqueue, CallPause, CallResume, CallCancel,
                CallCancelAll, CallSetMaxConcurrent, CallRefused, CancelRoot
  <2> QED BY <1>4, <2>1
<1>7. CASE PollStop \/ PollNoCmd \/ Wake \/ DispatchAbandoned \/ DispatchOver \/ Finish
  BY <1>4, <1>7 DEF PollStop, PollNoCmd, Wake, DispatchAbandoned, DispatchOver, Finish
<1>8. CASE HandleEnqueue
  <2>1. PICK j \in Jobs : j = Head(cmds).id /\ state[j] = "None" /\ result[j] = "None"
    BY <1>1, <1>8, EnqueueIsNew
  <2>2. attempt[j] = 0 /\ attempt \in [Jobs -> Nat]
    BY <1>1, <2>1 DEF EventMatches, TypeOK
  <2>3. attempt' = attempt
    BY <1>8, <2>1, <2>2 DEF HandleEnqueue
  <2>4. Requeue(j) /\ UNCHANGED <<result, limit>>
    BY <1>8, <2>1 DEF HandleEnqueue
  <2>5. EventMatches' /\ Contract!Queue(j)
    BY <1>2, <1>3, <2>1, <2>3, <2>4, QueueView
  <2> QED BY <2>5 DEF Contract!Next
<1>9. CASE HandlePause
  <2>1. PICK j \in Jobs, c \in Calls :
           \/ PauseIdle(j, c) \/ PauseRunning(j, c) \/ PausePausing(j, c) \/ PauseAnswered(j, c)
    <3>1. Head(cmds) \in Command /\ Head(cmds).op = "Pause"
      BY <1>1, <1>9 DEF HandlePause, Receive, TypeOK
    <3>2. Head(cmds).id \in Jobs /\ Head(cmds).ack \in Calls
      BY <3>1 DEF Command
    <3> QED BY <1>9, <3>2 DEF HandlePause
  <2>2. UNCHANGED <<result, limit, attempt>>
    BY <1>9 DEF HandlePause
  <2>3. CASE PauseIdle(j, c)
    <3>1. EventMatches' /\ Contract!Pause(j)
      BY <1>2, <1>3, <2>2, <2>3, PauseView DEF PauseIdle
    <3> QED BY <3>1 DEF Contract!Next
  <2>4. CASE PauseRunning(j, c)
    <3>1. EventMatches' /\ Contract!StartPause(j)
      BY <1>2, <1>3, <2>2, <2>4, StartPauseView DEF PauseRunning
    <3> QED BY <3>1 DEF Contract!Next
  <2>5. CASE PausePausing(j, c) \/ PauseAnswered(j, c)
    BY <1>4, <2>2, <2>5 DEF PausePausing, PauseAnswered
  <2> QED BY <2>1, <2>3, <2>4, <2>5
<1>10. CASE HandleResume
  <2>1. PICK j \in Jobs, c \in Calls : ResumePaused(j, c) \/ ResumeAnswered(j, c)
    <3>1. Head(cmds) \in Command /\ Head(cmds).op = "Resume"
      BY <1>1, <1>10 DEF HandleResume, Receive, TypeOK
    <3>2. Head(cmds).id \in Jobs /\ Head(cmds).ack \in Calls
      BY <3>1 DEF Command
    <3> QED BY <1>10, <3>2 DEF HandleResume
  <2>2. UNCHANGED <<result, limit, attempt, workers>>
    BY <1>10 DEF HandleResume
  <2>3. CASE ResumePaused(j, c)
    <3>1. EventMatches' /\ Contract!Queue(j)
      BY <1>2, <1>3, <2>2, <2>3, QueueView DEF ResumePaused
    <3> QED BY <3>1 DEF Contract!Next
  <2>4. CASE ResumeAnswered(j, c)
    BY <1>4, <2>2, <2>4 DEF ResumeAnswered
  <2> QED BY <2>1, <2>3, <2>4
<1>11. ASSUME NEW S \in SUBSET Jobs, CancelJobs(S), limit' = limit
       PROVE  EventMatches' /\ Contract!Next
  <2>1. EventMatches' /\ Contract!Cancel(S)
    BY <1>2, <1>3, <1>11, CancelView
  <2> QED BY <2>1 DEF Contract!Next
<1>12. CASE Stop \/ HandleCancelAll
  <2>1. CancelJobs(Jobs) /\ limit' = limit
    BY <1>12 DEF Stop, HandleCancelAll, CancelAllJobs
  <2> QED BY <1>11, <2>1
<1>13. CASE HandleCancel
  <2>1. Head(cmds) \in Command /\ Head(cmds).op = "Cancel"
        /\ CancelJobs({Head(cmds).id}) /\ limit' = limit
    BY <1>1, <1>13 DEF HandleCancel, Receive, TypeOK
  <2>2. {Head(cmds).id} \in SUBSET Jobs
    BY <2>1 DEF Command
  <2> QED BY <1>11, <2>1, <2>2
<1>14. CASE HandleSetMaxConcurrent
  <2>1. Head(cmds) \in Command /\ Head(cmds).op = "SetMaxConcurrent" /\ limit' = Head(cmds).max
    BY <1>1, <1>14 DEF HandleSetMaxConcurrent, Receive, TypeOK
  <2>2. limit' \in Nat \ {0}
    BY <1>1, <2>1 DEF TypeOK
  <2>3. UNCHANGED <<state, event, result, attempt, workers>>
    BY <1>14 DEF HandleSetMaxConcurrent
  <2>4. Contract!SetLimit
    BY <2>2, <2>3 DEF Contract!SetLimit
  <2>5. EventMatches'
    BY <2>3 DEF EventMatches, EventOf
  <2> QED BY <2>4, <2>5 DEF Contract!Next
<1>15. CASE DispatchJob
  <2>1. ready # <<>> /\ Head(ready) \in Jobs /\ Cardinality(workers) < limit
        /\ UNCHANGED <<result, attempt, limit>>
    BY <1>1, <1>15 DEF DispatchJob, CanDispatch, TypeOK
  <2>2. PICK j \in Jobs : j = Head(ready)
    BY <2>1
  <2>3. CASE state[j] = "Queued"
    <3>1. /\ state' = [state EXCEPT ![j] = "Running"]
          /\ event' = [event EXCEPT ![j] = "Started"]
      BY <1>15, <2>2, <2>3 DEF DispatchJob
    <3>2. EventMatches' /\ Contract!Start(j)
      BY <1>2, <1>3, <2>1, <2>3, <3>1, StartView
    <3> QED BY <3>2 DEF Contract!Next
  <2>4. CASE state[j] # "Queued"
    <3>1. UNCHANGED <<state, event, workers>>
      BY <1>15, <2>2, <2>4 DEF DispatchJob
    <3> QED BY <1>4, <2>1, <3>1
  <2> QED BY <2>3, <2>4
<1>16. ASSUME NEW w \in workers, WorkerStep(w)
       PROVE  EventMatches' /\ Contract!Next
  BY <1>2, <1>3, <1>16, WorkerView
<1>17. ASSUME NEW t \in delayed, RetryElapsed(t)
       PROVE  EventMatches' /\ [Contract!Next]_Contract!vars
  <2>1. t.id \in Jobs /\ UNCHANGED <<result, limit, attempt, workers>>
    BY <1>1, <1>17 DEF RetryElapsed, TypeOK, Timer
  <2>2. PICK j \in Jobs : j = t.id
    BY <2>1
  <2>3. CASE TimerMatches(t)
    <3>1. Requeue(j) /\ state[j] = "Retrying"
      BY <1>17, <2>2, <2>3 DEF RetryElapsed, TimerMatches
    <3>2. EventMatches' /\ Contract!Queue(j)
      BY <1>2, <1>3, <2>1, <3>1, QueueView
    <3> QED BY <3>2 DEF Contract!Next
  <2>4. CASE ~TimerMatches(t)
    <3>1. UNCHANGED <<state, event>>
      BY <1>17, <2>4 DEF RetryElapsed
    <3> QED BY <1>4, <2>1, <3>1
  <2> QED BY <2>3, <2>4
<1> QED
  BY <1>5, <1>6, <1>7, <1>8, <1>9, <1>10, <1>12, <1>13, <1>14, <1>15, <1>16, <1>17
     DEF Next, ThreadStep

\* The scheduler keeps every promise of the abstract life cycle (events.rs,
\* scheduler.rs, job.rs): which event may follow which, which result goes with
\* which last event, how many transfers run and how often one is retried.
THEOREM SchedulerKeepsContract == Spec => KeepsContract
<1>1. Init => EventMatches
  BY DEF Init, EventMatches, EventOf
<1>2. Init => Contract!Init
  BY ConfigAssumption DEF Init, Contract!Init
<1>3. IInv /\ IInv' /\ EventMatches /\ [Next]_vars
        => EventMatches' /\ [Contract!Next]_Contract!vars
  BY StepRefines
<1> QED BY <1>1, <1>2, <1>3, Invariance, PTL DEF Spec, KeepsContract, Contract!Spec

=============================================================================
