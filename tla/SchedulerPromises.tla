------------------------- MODULE SchedulerPromises -------------------------
(***************************************************************************)
(* Proofs of further properties of Scheduler from its inductive invariant: *)
(* what a step may never do, and three invariants it makes easy.           *)
(***************************************************************************)
EXTENDS SchedulerProofs

----------------------------------------------------------------------------
(* Retries *)

\* The budgets are numbers.
LEMMA RetriesType == \A j \in Jobs : Retries[j] \in Nat
  BY ConfigAssumption

\* A download the scheduler knows has no result yet.
LEMMA NoResultYet ==
    ASSUME DownloadsAccountedFor, NEW j \in Jobs, state[j] # "None"
    PROVE  result[j] = "None"
  BY DEF DownloadsAccountedFor

\* HandleEnqueue meets a download the scheduler does not know.
LEMMA EnqueueIsNew ==
    ASSUME TypeOK, DownloadsAccountedFor, HandleEnqueue
    PROVE  /\ Head(cmds).id \in Jobs
           /\ state[Head(cmds).id] = "None" /\ result[Head(cmds).id] = "None"
  <1>1. /\ 1 \in DOMAIN cmds /\ cmds[1] = Head(cmds)
        /\ Head(cmds) \in Command /\ Head(cmds).op = "Enqueue"
    BY DEF HandleEnqueue, Receive, TypeOK
  <1>2. /\ Head(cmds).id \in Jobs
        /\ Head(cmds) = [op |-> "Enqueue", id |-> Head(cmds).id]
    BY <1>1 DEF Command
  <1>3. 1 \in Submissions(Head(cmds).id)
    BY <1>1, <1>2 DEF Submissions
  <1>4. QED
    BY <1>2, <1>3 DEF DownloadsAccountedFor

\* The worker of j ends with the error of the last retry, or with something
\* else and the job keeps its retries if it gets a result.
LEMMA ResultOfWorker ==
    ASSUME TypeOK, OneWorkerPerLiveJob, NEW w \in workers, WorkerStep(w)
    PROVE  /\ w.id \in Jobs /\ state[w.id] \in Live
           /\ \A j \in Jobs \ {w.id} : result'[j] = result[j] /\ attempt'[j] = attempt[j]
           /\ \/ result' = result
              \/ /\ result'[w.id] = "Retryable"
                 /\ attempt' = attempt /\ attempt[w.id] >= Retries[w.id]
              \/ result'[w.id] # "Retryable"
  <1>1. /\ w.id \in Jobs /\ state[w.id] \in Live
        /\ \/ (\E r \in Result : Finalize(w.id, r)) /\ UNCHANGED <<attempt, delayed>>
           \/ state[w.id] = "Pausing" /\ PauseJob(w.id, {}) /\ UNCHANGED <<result, delayed>>
           \/ state[w.id] = "Running" /\ Retry(w.id)
    BY WorkerOutcome
  <1>2. /\ \A j \in Jobs \ {w.id} : result'[j] = result[j]
        /\ result' = result \/ \E r \in Result : Finalize(w.id, r) /\ attempt' = attempt
    BY <1>1 DEF Finalize, PauseJob, Retry, TypeOK
  <1>3. \E n \in Nat : attempt' = attempt \/ attempt' = [attempt EXCEPT ![w.id] = n]
    <2>1. attempt[w.id] \in Nat
      BY <1>1 DEF TypeOK
    <2>2. NextAttempt(w.id) \in Nat
      BY <2>1 DEF NextAttempt
    <2>3. CASE WorkerFinished(w) \/ WorkerStopped(w) \/ WorkerFatal(w)
      BY <2>3, <2>2 DEF WorkerFinished, WorkerStopped, WorkerFatal
    <2>4. CASE WorkerFailed(w)
      BY <1>1, <2>2, <2>4 DEF WorkerFailed, PauseAfterFailure, Retry, Live
    <2>5. QED
      BY <2>3, <2>4 DEF WorkerStep
  <1>4. \A j \in Jobs \ {w.id} : attempt'[j] = attempt[j]
    BY <1>1, <1>3 DEF TypeOK
  <1>5. \A r \in Result : Finalize(w.id, r) => result'[w.id] = r
    BY <1>1 DEF Finalize, TypeOK
  <1>6. CASE WorkerFailed(w)
    <2>1. attempt[w.id] \in Nat /\ Retries[w.id] \in Nat
      BY <1>1, RetriesType DEF TypeOK
    <2>2. \/ CancelJob(w.id)
          \/ Finalize(w.id, "Retryable") /\ attempt' = attempt /\ ~RetriesLeft(w.id)
          \/ result' = result
      BY <1>6, <1>1 DEF WorkerFailed, PauseAfterFailure, Retry, Live
    <2>3. CASE CancelJob(w.id)
      BY <1>1, <1>2, <1>4, <1>5, <2>3 DEF CancelJob, Result, JobError
    <2>4. CASE Finalize(w.id, "Retryable") /\ attempt' = attempt /\ ~RetriesLeft(w.id)
      <3>1. attempt[w.id] >= Retries[w.id]
        BY <2>1, <2>4 DEF RetriesLeft
      <3>2. result'[w.id] = "Retryable"
        BY <1>5, <2>4 DEF Result, JobError
      <3>3. QED
        BY <1>1, <1>2, <1>4, <2>4, <3>1, <3>2
    <2>5. QED
      BY <1>1, <1>2, <1>4, <2>2, <2>3, <2>4
  <1>7. CASE WorkerFinished(w) \/ WorkerStopped(w) \/ WorkerFatal(w)
    <2>1. result' = result \/ \E r \in {"Ok", "Cancelled", "Io", "Unknown", "Fatal"} :
                                  Finalize(w.id, r)
      BY <1>7, <1>1 DEF WorkerFinished, WorkerStopped, WorkerFatal, CancelJob, Live
    <2>2. {"Ok", "Cancelled", "Io", "Unknown", "Fatal"} \subseteq Result \ {"Retryable"}
      BY DEF Result, JobError
    <2>3. result' = result \/ result'[w.id] # "Retryable"
      BY <2>1, <2>2, <1>5
    <2>4. QED
      BY <1>1, <1>2, <1>4, <2>3
  <1>8. QED
    BY <1>6, <1>7 DEF WorkerStep

\* Every step keeps it: attempts change only for downloads without a result.
LEMMA RetriesStep ==
    ASSUME IInv, RetriesUsedUp, [Next]_vars
    PROVE  RetriesUsedUp'
  <1> USE DEF IInv
  <1>1. ASSUME UNCHANGED <<result, attempt>> PROVE RetriesUsedUp'
    BY <1>1 DEF RetriesUsedUp
  <1>2. CASE ClientStep
    <2>1. UNCHANGED <<result, attempt>>
      BY <1>2 DEF ClientStep, Send, Enqueue, CallPause, CallResume, CallCancel,
                  CallCancelAll, CallSetMaxConcurrent, CallRefused, CancelRoot
    <2>2. QED
      BY <2>1, <1>1
  <1>3. CASE PollStop \/ PollNoCmd \/ Wake \/ DispatchJob \/ DispatchAbandoned
             \/ DispatchOver \/ Finish \/ HandleSetMaxConcurrent \/ HandlePause \/ HandleResume
    BY <1>1, <1>3 DEF PollStop, PollNoCmd, Wake, DispatchJob, DispatchAbandoned,
                      DispatchOver, Finish, HandleSetMaxConcurrent, HandlePause, HandleResume
  <1>4. CASE HandleEnqueue
    <2>1. PICK k \in Jobs : k = Head(cmds).id /\ result[k] = "None"
      BY <1>4, EnqueueIsNew
    <2>2. result' = result /\ attempt' = [attempt EXCEPT ![k] = 0]
      BY <1>4, <2>1 DEF HandleEnqueue
    <2>3. QED
      BY <2>1, <2>2 DEF RetriesUsedUp, TypeOK
  <1>5. ASSUME NEW S \in SUBSET Jobs, CancelJobs(S) PROVE RetriesUsedUp'
    <2>1. attempt' = attempt /\
          \A j \in Jobs : result'[j] = result[j] \/ result'[j] \in {"Cancelled", "Io"}
      BY <1>5 DEF CancelJobs
    <2>2. QED
      BY <2>1 DEF RetriesUsedUp
  <1>6. CASE Stop \/ HandleCancelAll
    BY <1>5, <1>6 DEF Stop, HandleCancelAll, CancelAllJobs
  <1>7. CASE HandleCancel
    <2>1. Head(cmds) \in Command /\ Head(cmds).op = "Cancel" /\ CancelJobs({Head(cmds).id})
      BY <1>7 DEF HandleCancel, Receive, TypeOK
    <2>2. Head(cmds).id \in Jobs
      BY <2>1 DEF Command
    <2>3. QED
      BY <2>1, <2>2, <1>5
  <1>8. ASSUME NEW w \in workers, WorkerStep(w) PROVE RetriesUsedUp'
    <2>1. PICK j \in Jobs : j = w.id
      BY <1>8, ResultOfWorker
    <2>2. /\ state[j] \in Live
          /\ \A k \in Jobs \ {j} : result'[k] = result[k] /\ attempt'[k] = attempt[k]
          /\ \/ result' = result
             \/ attempt' = attempt /\ attempt[j] >= Retries[j]
             \/ result'[j] # "Retryable"
      BY <1>8, <2>1, ResultOfWorker
    <2>3. attempt[j] \in Nat /\ Retries[j] \in Nat /\ attempt[j] <= Retries[j]
      BY RetriesType DEF TypeOK
    <2>4. result[j] = "None"
      BY <2>2, NoResultYet DEF Live
    <2>5. result'[j] = "Retryable" => attempt'[j] = Retries[j]
      BY <2>2, <2>3, <2>4
    <2>6. QED
      BY <2>2, <2>5 DEF RetriesUsedUp
  <1>9. ASSUME NEW t \in delayed, RetryElapsed(t) PROVE RetriesUsedUp'
    BY <1>1, <1>9 DEF RetryElapsed
  <1>10. CASE UNCHANGED vars
    BY <1>1, <1>10 DEF vars
  <1>11. QED
    BY <1>2, <1>3, <1>4, <1>6, <1>7, <1>8, <1>9, <1>10 DEF Next, ThreadStep

\* A transport error is reported only when no retry is left, whatever pauses
\* and resumes came between the attempts.
THEOREM NoRetryForgone == Spec => []RetriesUsedUp
  <1>1. Init => RetriesUsedUp
    BY DEF Init, RetriesUsedUp
  <1>2. QED
    BY <1>1, RetriesStep, Invariance, PTL DEF Spec

----------------------------------------------------------------------------
(* Dispatch *)

\* NoIdleSlot also between the dispatch and the next wait, unless the root
\* token sent the scheduler out of try_dispatch on its way to stop.
SlotsInUse ==
    pc \in {"PollStop", "PollCmd", "PollWork"} /\ ready # <<>> =>
        Cardinality(workers) >= limit \/ Abandoned

\* Every step keeps it: all the steps that free a slot or queue a job lead to
\* try_dispatch.
LEMMA SlotsStep ==
    ASSUME TypeOK, SlotsInUse, [Next]_vars
    PROVE  SlotsInUse'
  <1>1. ASSUME UNCHANGED <<pc, ready, workers, limit>>, Abandoned => Abandoned'
        PROVE  SlotsInUse'
    BY <1>1 DEF SlotsInUse
  <1>2. CASE UNCHANGED vars
    <2>1. UNCHANGED <<pc, ready, workers, limit>> /\ (Abandoned => Abandoned')
      BY <1>2 DEF vars, Abandoned
    <2>2. QED
      BY <2>1, <1>1
  <1>3. CASE ClientStep
    <2>1. UNCHANGED <<pc, ready, workers, limit>> /\ (root' = root \/ root' = TRUE)
      BY <1>3 DEF ClientStep, Send, Enqueue, CallPause, CallResume, CallCancel,
                  CallCancelAll, CallSetMaxConcurrent, CallRefused, CancelRoot, clientVars
    <2>2. Abandoned => Abandoned'
      BY Zenon, <2>1 DEF Abandoned
    <2>3. QED
      BY <2>1, <2>2, <1>1
  <1>4. CASE PollStop \/ PollNoCmd \/ Wake
    <2>1. UNCHANGED <<ready, workers, limit>> /\ ~Abandoned
          /\ pc \in {"PollStop", "PollCmd", "PollWork"}
      BY <1>4 DEF PollStop, PollNoCmd, Wake, Abandoned
    <2>2. QED
      BY <2>1 DEF SlotsInUse
  <1>5. ASSUME pc' \in {"Dispatch", "Drain", "Done"} PROVE SlotsInUse'
    BY <1>5 DEF SlotsInUse
  <1>6. CASE Stop \/ HandleEnqueue \/ HandlePause \/ HandleResume \/ HandleCancel
             \/ HandleCancelAll \/ HandleSetMaxConcurrent \/ DispatchJob \/ Finish
    BY <1>5, <1>6 DEF Stop, HandleEnqueue, HandlePause, HandleResume, HandleCancel,
       HandleCancelAll, HandleSetMaxConcurrent, DispatchJob, Finish, Receive, AfterItem
  <1>7. CASE DispatchAbandoned
    BY <1>7 DEF DispatchAbandoned, SlotsInUse, Abandoned, clientVars
  <1>8. CASE DispatchOver
    <2>1. Cardinality(workers) \in Nat /\ limit \in Nat
      BY FS_CardinalityType DEF TypeOK
    <2>2. ready # <<>> => Cardinality(workers) >= limit
      BY <1>8, <2>1 DEF DispatchOver, CanDispatch
    <2>3. QED
      BY <1>8, <2>2 DEF DispatchOver, SlotsInUse
  <1>9. ASSUME NEW w \in workers, WorkerStep(w) PROVE SlotsInUse'
    BY <1>5, <1>9 DEF WorkerStep, WorkerFinished, WorkerStopped, WorkerFailed,
                      WorkerFatal, WorkerReturns, AfterItem
  <1>10. ASSUME NEW t \in delayed, RetryElapsed(t) PROVE SlotsInUse'
    BY <1>5, <1>10 DEF RetryElapsed, AfterItem
  <1>11. QED
    BY <1>2, <1>3, <1>4, <1>6, <1>7, <1>8, <1>9, <1>10 DEF Next, ThreadStep

\* The scheduler never goes to wait with a queued job and a free slot.
THEOREM NoSlotWasted == Spec => []NoIdleSlot
  <1>1. Init => SlotsInUse
    BY DEF Init, SlotsInUse
  <1>2. SlotsInUse => NoIdleSlot
    BY DEF SlotsInUse, NoIdleSlot, Abandoned
  <1>3. IInv => TypeOK
    BY DEF IInv
  <1>4. QED
    BY <1>1, <1>2, <1>3, SlotsStep, Invariance, PTL DEF Spec

----------------------------------------------------------------------------
(* What a step may never do *)

\* A retry leaves its back-off only on its own timer.
LEMMA BackOffStep ==
    ASSUME IInv, Next, NEW j \in Jobs, state[j] = "Retrying", state'[j] = "Queued"
    PROVE  \E t \in delayed \ delayed' : t.id = j /\ t.attempt = attempt[j]
  <1> USE DEF IInv
  <1>1. CASE ClientStep
    BY <1>1 DEF ClientStep, Send, Enqueue, CallPause, CallResume, CallCancel,
                CallCancelAll, CallSetMaxConcurrent, CallRefused, CancelRoot
  <1>2. CASE PollStop \/ PollNoCmd \/ Wake \/ DispatchAbandoned \/ DispatchOver
             \/ Finish \/ HandleSetMaxConcurrent
    BY <1>2 DEF PollStop, PollNoCmd, Wake, DispatchAbandoned, DispatchOver, Finish,
                HandleSetMaxConcurrent
  <1>3. CASE DispatchJob
    <2>1. state' = state \/ state' = [state EXCEPT ![Head(ready)] = "Running"]
      BY <1>3 DEF DispatchJob
    <2>2. QED
      BY <2>1 DEF TypeOK
  <1>4. CASE HandleEnqueue
    <2>1. PICK k \in Jobs : k = Head(cmds).id /\ state[k] = "None"
      BY <1>4, EnqueueIsNew
    <2>2. state' = [state EXCEPT ![k] = "Queued"]
      BY <1>4, <2>1 DEF HandleEnqueue, Requeue
    <2>3. QED
      BY <2>1, <2>2 DEF TypeOK
  <1>5. CASE HandlePause
    <2>1. PICK k, c : PauseIdle(k, c) \/ PauseRunning(k, c) \/ PausePausing(k, c)
                          \/ PauseAnswered(k, c)
      BY <1>5 DEF HandlePause
    <2>2. \/ state' = state \/ state' = [state EXCEPT ![k] = "Paused"]
          \/ state' = [state EXCEPT ![k] = "Pausing"]
      BY <2>1 DEF PauseIdle, PauseJob, PauseRunning, PausePausing, PauseAnswered
    <2>3. QED
      BY <2>2 DEF TypeOK
  <1>6. CASE HandleResume
    <2>1. PICK k, c : ResumePaused(k, c) \/ ResumeAnswered(k, c)
      BY <1>6 DEF HandleResume
    <2>2. \/ state' = state
          \/ state[k] = "Paused" /\ state' = [state EXCEPT ![k] = "Queued"]
      BY <2>1 DEF ResumePaused, Requeue, ResumeAnswered
    <2>3. QED
      BY <2>2 DEF TypeOK
  <1>7. CASE Stop \/ HandleCancelAll \/ HandleCancel
    <2>1. PICK S : CancelJobs(S)
      BY <1>7 DEF Stop, HandleCancelAll, HandleCancel, CancelAllJobs
    <2>2. state'[j] \in {"None", "Cancelling", state[j]}
      BY <2>1 DEF CancelJobs
    <2>3. QED
      BY <2>2
  <1>8. ASSUME NEW w \in workers, WorkerStep(w) PROVE FALSE
    <2>1. /\ w.id \in Jobs
          /\ \E x \in {"None", "Paused", "Retrying"} : state' = [state EXCEPT ![w.id] = x]
      BY <1>8, WorkerOutcome DEF Finalize, PauseJob, Retry
    <2>2. QED
      BY <2>1 DEF TypeOK
  <1>9. ASSUME NEW t \in delayed, RetryElapsed(t)
        PROVE  \E u \in delayed \ delayed' : u.id = j /\ u.attempt = attempt[j]
    <2>1. TimerMatches(t) /\ state' = [state EXCEPT ![t.id] = "Queued"]
      BY <1>9 DEF RetryElapsed, Requeue
    <2>2. t.id = j
      BY <2>1 DEF TypeOK
    <2>3. t.attempt = attempt[j] /\ t \in delayed \ delayed'
      BY <1>9, <2>1, <2>2 DEF TimerMatches, RetryElapsed
    <2>4. QED
      BY <2>2, <2>3
  <1>10. QED
    BY <1>1, <1>2, <1>3, <1>4, <1>5, <1>6, <1>7, <1>8, <1>9 DEF Next, ThreadStep

\* A retry leaves its back-off only on the timer made for it, never on one
\* left over from a wait that a pause cut short.
THEOREM BackOffKept == Spec => RetryWaitsForItsTimer
  <1>1. ASSUME IInv, [Next]_vars
        PROVE  [\A j \in Jobs :
                  state[j] = "Retrying" /\ state'[j] = "Queued" =>
                    \E t \in delayed \ delayed' : t.id = j /\ t.attempt = attempt[j]]_vars
    BY <1>1, BackOffStep
  <1>2. QED
    BY <1>1, Invariance, PTL DEF Spec, RetryWaitsForItsTimer

\* What becomes of a download that is being cancelled.
LEMMA CancellingStep ==
    ASSUME IInv, Next, NEW j \in Jobs, state[j] = "Cancelling"
    PROVE  \/ state'[j] = "Cancelling"
           \/ state'[j] = "None" /\ result'[j] \in {"Cancelled", "Ok", "Io"}
  <1> USE DEF IInv
  <1>1. CASE ClientStep
    BY <1>1 DEF ClientStep, Send, Enqueue, CallPause, CallResume, CallCancel,
                CallCancelAll, CallSetMaxConcurrent, CallRefused, CancelRoot
  <1>2. CASE PollStop \/ PollNoCmd \/ Wake \/ DispatchAbandoned \/ DispatchOver
             \/ Finish \/ HandleSetMaxConcurrent
    BY <1>2 DEF PollStop, PollNoCmd, Wake, DispatchAbandoned, DispatchOver, Finish,
                HandleSetMaxConcurrent
  <1>3. CASE DispatchJob
    <2>1. \/ state' = state
          \/ /\ state[Head(ready)] = "Queued"
             /\ state' = [state EXCEPT ![Head(ready)] = "Running"]
      BY <1>3 DEF DispatchJob
    <2>2. QED
      BY <2>1 DEF TypeOK
  <1>4. CASE HandleEnqueue
    <2>1. PICK k \in Jobs : k = Head(cmds).id /\ state[k] = "None"
      BY <1>4, EnqueueIsNew
    <2>2. state' = [state EXCEPT ![k] = "Queued"]
      BY <1>4, <2>1 DEF HandleEnqueue, Requeue
    <2>3. QED
      BY <2>1, <2>2 DEF TypeOK
  <1>5. CASE HandlePause
    <2>1. PICK k, c : PauseIdle(k, c) \/ PauseRunning(k, c) \/ PausePausing(k, c)
                          \/ PauseAnswered(k, c)
      BY <1>5 DEF HandlePause
    <2>2. \/ state' = state
          \/ state[k] # "Cancelling" /\ \E x \in {"Paused", "Pausing"} :
                state' = [state EXCEPT ![k] = x]
      BY <2>1 DEF PauseIdle, PauseJob, PauseRunning, PausePausing, PauseAnswered
    <2>3. QED
      BY <2>2 DEF TypeOK
  <1>6. CASE HandleResume
    <2>1. PICK k, c : ResumePaused(k, c) \/ ResumeAnswered(k, c)
      BY <1>6 DEF HandleResume
    <2>2. \/ state' = state
          \/ state[k] = "Paused" /\ state' = [state EXCEPT ![k] = "Queued"]
      BY <2>1 DEF ResumePaused, Requeue, ResumeAnswered
    <2>3. QED
      BY <2>2 DEF TypeOK
  <1>7. CASE Stop \/ HandleCancelAll \/ HandleCancel
    <2>1. PICK S : CancelJobs(S)
      BY <1>7 DEF Stop, HandleCancelAll, HandleCancel, CancelAllJobs
    <2>2. state'[j] = "Cancelling"
      BY <2>1 DEF CancelJobs, Idle
    <2>3. QED
      BY <2>2
  <1>8. ASSUME NEW w \in workers, WorkerStep(w)
        PROVE  \/ state'[j] = "Cancelling"
               \/ state'[j] = "None" /\ result'[j] \in {"Cancelled", "Ok", "Io"}
    <2>1. w.id \in Jobs
      BY DEF TypeOK, Worker
    <2>2. CASE w.id # j
      <3>1. \E x \in {"None", "Paused", "Retrying"} : state' = [state EXCEPT ![w.id] = x]
        BY <1>8, WorkerOutcome DEF Finalize, PauseJob, Retry
      <3>2. QED
        BY <2>1, <2>2, <3>1 DEF TypeOK
    <2>3. CASE w.id = j
      <3>1. CancelJob(j) \/ Finalize(j, "Ok")
        BY <1>8, <2>3 DEF WorkerStep, WorkerFinished, WorkerStopped, WorkerFailed, WorkerFatal
      <3>2. \E r \in {"Cancelled", "Ok", "Io"} : Finalize(j, r)
        BY <3>1 DEF CancelJob
      <3>3. QED
        BY <3>2 DEF Finalize, TypeOK
    <2>4. QED
      BY <2>2, <2>3
  <1>9. ASSUME NEW t \in delayed, RetryElapsed(t) PROVE state'[j] = "Cancelling"
    <2>1. \/ state' = state
          \/ state[t.id] = "Retrying" /\ state' = [state EXCEPT ![t.id] = "Queued"]
      BY <1>9 DEF RetryElapsed, TimerMatches, Requeue
    <2>2. QED
      BY <2>1 DEF TypeOK
  <1>10. QED
    BY <1>1, <1>2, <1>3, <1>4, <1>5, <1>6, <1>7, <1>8, <1>9 DEF Next, ThreadStep

\* Once a cancellation has started it wins over whatever its worker reports.
THEOREM CancellationKept == Spec => CancellationWins
  <1>1. ASSUME IInv, [Next]_vars
        PROVE  [\A j \in Jobs :
                  state[j] = "Cancelling" =>
                      \/ state'[j] = "Cancelling"
                      \/ state'[j] = "None" /\ result'[j] \in {"Cancelled", "Ok", "Io"}]_vars
    BY <1>1, CancellingStep
  <1>2. QED
    BY <1>1, Invariance, PTL DEF Spec, CancellationWins

\* Whoever is answered Ok, in the head of the channel or among the waiters of
\* j, finds j without a worker.
LEMMA AckStep ==
    ASSUME IInv, IInv', Next, NEW c \in Calls, NEW j \in Jobs,
           call[c] = "Waiting", call'[c] = "Ok",
           \/ c \in waiters[j]
           \/ cmds # <<>> /\ Head(cmds) = [op |-> "Pause", id |-> j, ack |-> c]
    PROVE  ~ \E w \in workers' : w.id = j
  <1>1. TypeOK /\ AcksAccountedFor /\ DownloadsAccountedFor /\ OneWorkerPerLiveJob
    BY DEF IInv
  <1>2. SUFFICES state'[j] \notin Live
    BY DEF IInv, OneWorkerPerLiveJob
  <1>3. ASSUME c \in waiters[j], NEW k \in Jobs, c \in waiters[k] PROVE k = j
    BY <1>1, <1>3 DEF AcksAccountedFor, HeldBy
  <1>4. ASSUME NEW op \in {"Pause", "Resume"}, Receive(op), Head(cmds).ack = c
        PROVE  \A k \in Jobs : c \notin waiters[k]
    <2>1. 1 \in DOMAIN cmds /\ cmds[1] = Head(cmds) /\ Head(cmds).op = op
      BY <1>1, <1>4 DEF Receive, TypeOK
    <2>2. 1 \in CommandsOf(c)
      BY <1>4, <2>1 DEF CommandsOf
    <2>3. HeldBy(c) = {}
      BY <1>1, <2>2 DEF AcksAccountedFor
    <2>4. QED
      BY <2>3 DEF HeldBy
  <1>5. ASSUME NEW k \in Jobs, c \in waiters[k] PROVE j = k
    <2>1. CASE c \in waiters[j]
      BY <1>3, <1>5, <2>1
    <2>2. CASE cmds # <<>> /\ Head(cmds) = [op |-> "Pause", id |-> j, ack |-> c]
      <3>1. 1 \in CommandsOf(c)
        BY <1>1, <2>2 DEF CommandsOf, TypeOK
      <3>2. k \in HeldBy(c)
        BY <1>5 DEF HeldBy
      <3>3. QED
        BY <1>1, <3>1, <3>2 DEF AcksAccountedFor
    <2>3. QED
      BY <2>1, <2>2
  <1>6. CASE ClientStep
    <2>1. call' = call \/ \E d \in Calls, r \in {"Sent", "Waiting", "Closed"} :
                               call' = [call EXCEPT ![d] = r]
      BY <1>6 DEF ClientStep, Enqueue, CallPause, CallResume, CallCancel,
                  CallCancelAll, CallSetMaxConcurrent, CallRefused, CancelRoot
    <2>2. QED
      BY <1>1, <2>1 DEF TypeOK
  <1>7. CASE PollStop \/ PollNoCmd \/ Wake \/ HandleEnqueue \/ DispatchJob
             \/ DispatchAbandoned \/ DispatchOver \/ Finish \/ HandleSetMaxConcurrent
    BY <1>7 DEF PollStop, PollNoCmd, Wake, HandleEnqueue, DispatchJob,
                DispatchAbandoned, DispatchOver, Finish, HandleSetMaxConcurrent
  <1>8. CASE Stop \/ HandleCancelAll \/ HandleCancel
    <2>1. PICK S : CancelJobs(S)
      BY <1>8 DEF Stop, HandleCancelAll, HandleCancel, CancelAllJobs
    <2>2. call'[c] \in {"Cancelled", call[c]}
      BY <2>1 DEF CancelJobs, Answer
    <2>3. QED
      BY <2>2
  <1>9. CASE HandlePause
    <2> DEFINE k == Head(cmds).id
               d == Head(cmds).ack
    <2>1. /\ Receive("Pause") /\ Head(cmds) \in Command /\ Head(cmds).op = "Pause"
          /\ PauseIdle(k, d) \/ PauseRunning(k, d) \/ PausePausing(k, d) \/ PauseAnswered(k, d)
      BY <1>1, <1>9 DEF HandlePause, Receive, TypeOK
    <2>2. k \in Jobs
      BY <2>1 DEF Command
    <2>3. \/ PauseIdle(k, d) /\ call' = Answer(waiters[k] \cup {d}, "Ok")
             /\ state' = [state EXCEPT ![k] = "Paused"]
          \/ call' = call
          \/ \E r : call' = Answer({d}, r) /\ PauseAnswered(k, d)
      BY <2>1 DEF PauseIdle, PauseJob, PauseRunning, PausePausing, PauseAnswered
    <2>4. waiters[k] = {} \/ ~PauseIdle(k, d)
      BY <1>1, <2>2 DEF AcksAccountedFor, PauseIdle
    <2>5. d = c
      BY <2>3, <2>4 DEF Answer
    <2>6. k = j
      BY <1>4, <2>1, <2>5
    <2>7. CASE PauseIdle(k, d)
      BY <1>1, <2>2, <2>6, <2>7 DEF PauseIdle, PauseJob, Live, TypeOK
    <2>8. CASE PauseAnswered(k, d)
      <3>1. state'[j] = state[j] /\ state[j] \in {"None", "Paused", "Cancelling"}
        BY <2>6, <2>8 DEF PauseAnswered
      <3>2. state[j] # "Cancelling"
        BY <2>5, <2>6, <2>8 DEF PauseAnswered, Answer
      <3>3. QED
        BY <3>1, <3>2 DEF Live
    <2>9. QED
      BY <2>3, <2>7, <2>8
  <1>10. CASE HandleResume
    <2>1. /\ Receive("Resume") /\ \E r : call' = Answer({Head(cmds).ack}, r)
          /\ Head(cmds).op = "Resume"
      BY <1>10 DEF HandleResume, ResumePaused, ResumeAnswered, Receive
    <2>2. Head(cmds).ack = c
      BY <2>1 DEF Answer
    <2>3. QED
      BY <1>4, <2>1, <2>2
  <1>11. ASSUME NEW w \in workers, WorkerStep(w) PROVE state'[j] \notin Live
    <2>1. /\ w.id \in Jobs
          /\ \/ \E r \in Result : Finalize(w.id, r)
             \/ PauseJob(w.id, {})
             \/ Retry(w.id)
      BY <1>1, <1>11, WorkerOutcome
    <2>2. /\ c \in waiters[w.id]
          /\ \E x \in {"None", "Paused"} : state' = [state EXCEPT ![w.id] = x]
      BY <2>1 DEF Finalize, PauseJob, Retry, Answer
    <2>3. w.id = j
      BY <1>5, <2>1, <2>2
    <2>4. QED
      BY <1>1, <2>2, <2>3 DEF TypeOK, Live
  <1>12. ASSUME NEW t \in delayed, RetryElapsed(t) PROVE FALSE
    BY <1>12 DEF RetryElapsed
  <1>13. QED
    BY <1>6, <1>7, <1>8, <1>9, <1>10, <1>11, <1>12 DEF Next, ThreadStep

\* A pause answered Ok means that no worker writes the partial file any more.
THEOREM PauseMeansStopped == Spec => PauseAckAfterWorker
  <1>1. ASSUME IInv, IInv', [Next]_vars
        PROVE  [\A c \in Calls, j \in Jobs :
                  /\ call[c] = "Waiting" /\ call'[c] = "Ok"
                  /\ \/ c \in waiters[j]
                     \/ cmds # <<>> /\ Head(cmds) = [op |-> "Pause", id |-> j, ack |-> c]
                  => ~ \E w \in workers' : w.id = j]_vars
    BY <1>1, AckStep
  <1>2. QED
    BY <1>1, Invariance, PTL DEF Spec, PauseAckAfterWorker

----------------------------------------------------------------------------
(* Who asked for a cancellation *)

\* The downloads that may be reported as cancelled.
MayBeCancelled == {j \in Jobs : j \in asked \cup swept \/ root}

\* The channel brings no cancellation nobody asked for: what a cancel_all was
\* not sent for is behind it in the channel.
CancelsAsked ==
    /\ \A i \in DOMAIN cmds : cmds[i].op = "Cancel" => cmds[i].id \in asked
    /\ \A i \in DOMAIN cmds : cmds[i].op = "CancelAll" =>
          \A j \in enqueued : j \in swept \/ \E k \in Submissions(j) : k > i

\* Nor do the jobs: a stop token is cancelled for a pause or a cancellation,
\* which the state of its job tells apart.
StopsAsked ==
    /\ \A j \in Jobs : state[j] = "Cancelling" => j \in MayBeCancelled
    /\ \A w \in workers : w.stop => state[w.id] # "Running"
    /\ \A j \in Jobs : result[j] = "Cancelled" => j \in MayBeCancelled

\* A command is sent.
LEMMA SentAsked ==
    ASSUME TypeOK, CancelsAsked, NEW m \in Command, cmds' = Append(cmds, m),
           asked \subseteq asked', swept \subseteq swept',
           m.op = "Cancel" => m.id \in asked',
           m.op = "CancelAll" => enqueued' \subseteq swept',
           \/ enqueued' = enqueued
           \/ \E j \in Jobs : m = [op |-> "Enqueue", id |-> j] /\ enqueued' = enqueued \cup {j}
    PROVE  CancelsAsked'
<1>1. /\ cmds \in Seq(Command) /\ Len(cmds) \in Nat
      /\ DOMAIN cmds = 1..Len(cmds) /\ DOMAIN cmds' = 1..Len(cmds) + 1
      /\ \A i \in 1..Len(cmds) : cmds'[i] = cmds[i]
      /\ cmds'[Len(cmds) + 1] = m
  BY DEF TypeOK
<1>2. ASSUME NEW i \in DOMAIN cmds', cmds'[i].op = "Cancel" PROVE cmds'[i].id \in asked'
  <2>1. CASE i \in DOMAIN cmds
    BY <1>1, <1>2, <2>1 DEF CancelsAsked
  <2>2. CASE i \notin DOMAIN cmds
    BY <1>1, <1>2, <2>2
  <2> QED BY <2>1, <2>2
<1>3. ASSUME NEW i \in DOMAIN cmds', cmds'[i].op = "CancelAll", NEW j \in enqueued'
      PROVE  j \in swept' \/ \E k \in Submissions(j)' : k > i
  <2>1. CASE i \notin DOMAIN cmds
    BY <1>1, <1>3, <2>1
  <2>2. CASE i \in DOMAIN cmds /\ j \in enqueued
    <3>1. j \in swept \/ \E k \in Submissions(j) : k > i
      BY <1>1, <1>3, <2>2 DEF CancelsAsked
    <3>2. Submissions(j) \subseteq Submissions(j)'
      BY <1>1 DEF Submissions
    <3> QED BY <3>1, <3>2
  <2>3. CASE i \in DOMAIN cmds /\ j \notin enqueued
    <3>1. m = [op |-> "Enqueue", id |-> j]
      BY <1>3, <2>3
    <3>2. Len(cmds) + 1 \in Submissions(j)' /\ Len(cmds) + 1 > i
      BY <1>1, <2>3, <3>1 DEF Submissions
    <3> QED BY <3>2
  <2> QED BY <2>1, <2>2, <2>3
<1> QED BY <1>2, <1>3 DEF CancelsAsked

\* A command is received.
LEMMA ReceivedAsked ==
    ASSUME TypeOK, CancelsAsked, cmds # <<>>, cmds' = Tail(cmds),
           UNCHANGED <<enqueued, asked, swept>>
    PROVE  CancelsAsked'
<1>1. /\ cmds \in Seq(Command) /\ Len(cmds) \in Nat \ {0}
      /\ DOMAIN cmds = 1..Len(cmds) /\ DOMAIN cmds' = 1..Len(cmds) - 1
      /\ \A i \in 1..Len(cmds) - 1 : cmds'[i] = cmds[i + 1]
  BY DEF TypeOK
<1>2. \A i \in DOMAIN cmds' : i + 1 \in DOMAIN cmds /\ cmds'[i] = cmds[i + 1]
  BY <1>1
<1>3. ASSUME NEW i \in DOMAIN cmds', cmds'[i].op = "CancelAll", NEW j \in enqueued
      PROVE  j \in swept \/ \E k \in Submissions(j)' : k > i
  <2>1. j \in swept \/ \E k \in Submissions(j) : k > i + 1
    BY <1>2, <1>3 DEF CancelsAsked
  <2>2. ASSUME NEW k \in Submissions(j), k > i + 1 PROVE k - 1 \in Submissions(j)' /\ k - 1 > i
    <3>1. k \in 1..Len(cmds) /\ cmds[k] = [op |-> "Enqueue", id |-> j] /\ i \in Nat
      BY <1>1 DEF Submissions
    <3>2. k - 1 \in DOMAIN cmds' /\ cmds'[k - 1] = cmds[k]
      BY <1>1, <2>2, <3>1
    <3> QED BY <1>1, <2>2, <3>1, <3>2 DEF Submissions
  <2> QED BY <2>1, <2>2
<1> QED BY <1>2, <1>3 DEF CancelsAsked

\* So the channel stays true to what was asked.
LEMMA ChannelAskedStep ==
    ASSUME TypeOK, CancelsAsked, [Next]_vars
    PROVE  CancelsAsked'
<1>1. ASSUME UNCHANGED <<cmds, enqueued, asked, swept>> PROVE CancelsAsked'
  BY <1>1 DEF CancelsAsked, Submissions
<1>2. ASSUME NEW j \in Jobs, Enqueue(j) PROVE CancelsAsked'
  BY <1>2, SentAsked DEF Enqueue, Send, Command
<1>3. ASSUME NEW c \in Calls, NEW j \in Jobs, CallPause(c, j) PROVE CancelsAsked'
  BY <1>3, SentAsked DEF CallPause, Send, Command
<1>4. ASSUME NEW c \in Calls, NEW j \in Jobs, CallResume(c, j) PROVE CancelsAsked'
  BY <1>4, SentAsked DEF CallResume, Send, Command
<1>5. ASSUME NEW c \in Calls, NEW j \in Jobs, CallCancel(c, j) PROVE CancelsAsked'
  BY <1>5, SentAsked DEF CallCancel, Send, Command
<1>6. ASSUME NEW c \in Calls, CallCancelAll(c) PROVE CancelsAsked'
  BY <1>6, SentAsked DEF CallCancelAll, Send, Command
<1>7. ASSUME NEW c \in Calls, NEW n \in Limits, CallSetMaxConcurrent(c, n) PROVE CancelsAsked'
  BY <1>7, SentAsked DEF CallSetMaxConcurrent, Send, Command
<1>8. ASSUME NEW c \in Calls, CallRefused(c) PROVE CancelsAsked'
  BY <1>1, <1>8 DEF CallRefused, clientVars
<1>9. CASE CancelRoot
  BY <1>1, <1>9 DEF CancelRoot
<1>10. CASE PollStop \/ Stop \/ PollNoCmd \/ Wake \/ DispatchJob \/ DispatchAbandoned
            \/ DispatchOver \/ Finish
  BY <1>1, <1>10 DEF PollStop, Stop, PollNoCmd, Wake, DispatchJob, DispatchAbandoned,
                     DispatchOver, Finish, clientVars
<1>11. ASSUME NEW op, Receive(op) PROVE CancelsAsked'
  BY <1>11, ReceivedAsked DEF Receive
<1>12. CASE HandleEnqueue \/ HandlePause \/ HandleResume \/ HandleCancel
            \/ HandleCancelAll \/ HandleSetMaxConcurrent
  BY <1>11, <1>12 DEF HandleEnqueue, HandlePause, HandleResume, HandleCancel,
                      HandleCancelAll, HandleSetMaxConcurrent
<1>13. ASSUME NEW w \in workers, WorkerStep(w) PROVE CancelsAsked'
  BY <1>1, <1>13 DEF WorkerStep, WorkerFinished, WorkerStopped, WorkerFailed,
                     WorkerFatal, WorkerReturns, clientVars
<1>14. ASSUME NEW t \in delayed, RetryElapsed(t) PROVE CancelsAsked'
  BY <1>1, <1>14 DEF RetryElapsed, clientVars
<1>15. CASE UNCHANGED vars
  BY <1>1, <1>15 DEF vars
<1> QED
  BY <1>2, <1>3, <1>4, <1>5, <1>6, <1>7, <1>8, <1>9, <1>10, <1>12, <1>13, <1>14, <1>15
     DEF Next, ClientStep, ThreadStep

\* A step that cancels only jobs it may cancel.
LEMMA CancelJobsAsked ==
    ASSUME TypeOK, OneWorkerPerLiveJob, StopsAsked, MayBeCancelled \subseteq MayBeCancelled',
           NEW S \in SUBSET Jobs, CancelJobs(S),
           \A j \in S : state[j] # "None" => j \in MayBeCancelled
    PROVE  StopsAsked'
<1>1. ASSUME NEW j \in Jobs, state'[j] = "Cancelling" PROVE j \in MayBeCancelled'
  BY <1>1 DEF CancelJobs, StopsAsked
<1>2. ASSUME NEW j \in Jobs, result'[j] = "Cancelled" PROVE j \in MayBeCancelled'
  <2>1. result'[j] = result[j] \/ (j \in S /\ state[j] \in Idle)
    BY DEF CancelJobs
  <2> QED BY <1>2, <2>1 DEF StopsAsked, Idle
<1>3. ASSUME NEW v \in workers', v.stop PROVE state'[v.id] # "Running"
  <2> DEFINE R == {j \in S : state[j] = "Running"}
  <2>1. v \in {IF w.id \in R /\ w.tok = token[w.id] THEN [w EXCEPT !.stop = TRUE] ELSE w
                  : w \in workers}
    BY <1>3 DEF CancelJobs, StopWorkers
  <2>2. PICK w \in workers :
           v = IF w.id \in R /\ w.tok = token[w.id] THEN [w EXCEPT !.stop = TRUE] ELSE w
    BY <2>1
  <2>3. w \in Worker /\ w.id \in Jobs /\ v.id = w.id
    BY <2>2 DEF TypeOK, Worker
  <2>4. CASE w.id \in R
    BY <2>3, <2>4, CancelJobsState
  <2>5. CASE w.id \notin R
    <3>1. state[w.id] # "Running"
      BY <1>3, <2>2, <2>5 DEF StopsAsked
    <3> QED BY <2>3, <3>1 DEF CancelJobs
  <2> QED BY <2>4, <2>5
<1> QED BY <1>1, <1>2, <1>3 DEF StopsAsked

\* Every step keeps the jobs true to what was asked: in particular a worker
\* that was stopped while its job is Running was stopped by the root token.
LEMMA StopsAskedStep ==
    ASSUME IInv, CancelsAsked, StopsAsked, [Next]_vars
    PROVE  StopsAsked'
<1>1. TypeOK /\ OneWorkerPerLiveJob /\ DownloadsAccountedFor /\ ReadyHoldsQueuedJobs
  BY DEF IInv
<1>2. MayBeCancelled \subseteq MayBeCancelled'
  <2>1. asked \subseteq asked' /\ swept \subseteq swept' /\ (root' = root \/ root' = TRUE)
    BY DEF Next, vars, ClientStep, Send, Enqueue, CallPause, CallResume, CallCancel, CallCancelAll,
       CallSetMaxConcurrent, CallRefused, CancelRoot, ThreadStep, PollStop, Stop, PollNoCmd,
       Wake, Receive, HandleEnqueue, HandlePause, HandleResume, HandleCancel, HandleCancelAll,
       HandleSetMaxConcurrent, DispatchJob, DispatchAbandoned, DispatchOver, Finish,
       WorkerStep, WorkerFinished, WorkerStopped, WorkerFailed, WorkerFatal, WorkerReturns,
       RetryElapsed, clientVars
  <2> QED BY Zenon, <2>1 DEF MayBeCancelled
<1>3. ASSUME UNCHANGED <<state, result, workers>> PROVE StopsAsked'
  BY <1>2, <1>3 DEF StopsAsked

\* A job goes from a state that is not Running to one that is neither Running
\* nor Cancelling.
<1>4. ASSUME NEW j \in Jobs, NEW s \in {"Queued", "Paused", "Pausing", "None", "Retrying"},
             state' = [state EXCEPT ![j] = s], result' = result, workers' \subseteq workers
      PROVE  StopsAsked'
  <2>1. \A k \in Jobs : state'[k] = IF k = j THEN s ELSE state[k]
    BY <1>1, <1>4 DEF TypeOK
  <2>2. \A w \in workers' : w \in workers /\ w.id \in Jobs
    BY <1>1, <1>4 DEF TypeOK, Worker
  <2> QED BY <1>2, <1>4, <2>1, <2>2 DEF StopsAsked
<1>5. CASE ClientStep
  BY <1>3, <1>5 DEF ClientStep, Send, Enqueue, CallPause, CallResume, CallCancel,
              CallCancelAll, CallSetMaxConcurrent, CallRefused, CancelRoot
<1>6. CASE PollStop \/ PollNoCmd \/ Wake \/ DispatchAbandoned \/ DispatchOver \/ Finish
           \/ HandleSetMaxConcurrent
  BY <1>3, <1>6 DEF PollStop, PollNoCmd, Wake, DispatchAbandoned, DispatchOver, Finish,
                    HandleSetMaxConcurrent
<1>7. CASE HandleEnqueue
  <2>1. PICK j \in Jobs : j = Head(cmds).id
    BY <1>1, <1>7, EnqueueIsNew
  <2> QED BY <1>4, <1>7, <2>1 DEF HandleEnqueue, Requeue
<1>8. CASE HandlePause
  <2>1. PICK j \in Jobs, c \in Calls :
           \/ PauseIdle(j, c) \/ PauseRunning(j, c) \/ PausePausing(j, c) \/ PauseAnswered(j, c)
    <3>1. Head(cmds) \in Command /\ Head(cmds).op = "Pause"
      BY <1>1, <1>8 DEF HandlePause, Receive, TypeOK
    <3>2. Head(cmds).id \in Jobs /\ Head(cmds).ack \in Calls
      BY <3>1 DEF Command
    <3> QED BY <1>8, <3>2 DEF HandlePause
  <2>2. result' = result
    BY <1>8 DEF HandlePause
  <2>3. CASE PauseIdle(j, c)
    BY <1>4, <2>2, <2>3 DEF PauseIdle, PauseJob
  <2>4. CASE PauseRunning(j, c)
    <3>1. \A k \in Jobs : state'[k] = IF k = j THEN "Pausing" ELSE state[k]
      BY <1>1, <2>4 DEF PauseRunning, TypeOK
    <3>2. ASSUME NEW v \in workers', v.stop PROVE state'[v.id] # "Running"
      <4>1. PICK w \in workers :
               v = IF w.id \in {j} /\ w.tok = token[w.id] THEN [w EXCEPT !.stop = TRUE] ELSE w
        BY <2>4, <3>2 DEF PauseRunning, StopWorkers
      <4>2. w \in Worker /\ w.id \in Jobs /\ v.id = w.id
        BY <1>1, <4>1 DEF TypeOK, Worker
      <4>3. CASE w.id = j
        BY <3>1, <4>2, <4>3
      <4>4. CASE w.id # j
        BY <3>1, <3>2, <4>1, <4>2, <4>4 DEF StopsAsked
      <4> QED BY <4>3, <4>4
    <3> QED BY <1>2, <2>2, <3>1, <3>2 DEF StopsAsked
  <2>5. CASE PausePausing(j, c) \/ PauseAnswered(j, c)
    BY <1>3, <2>2, <2>5 DEF PausePausing, PauseAnswered
  <2> QED BY <2>1, <2>3, <2>4, <2>5
<1>9. CASE HandleResume
  <2>1. PICK j \in Jobs, c \in Calls : ResumePaused(j, c) \/ ResumeAnswered(j, c)
    <3>1. Head(cmds) \in Command /\ Head(cmds).op = "Resume"
      BY <1>1, <1>9 DEF HandleResume, Receive, TypeOK
    <3>2. Head(cmds).id \in Jobs /\ Head(cmds).ack \in Calls
      BY <3>1 DEF Command
    <3> QED BY <1>9, <3>2 DEF HandleResume
  <2>2. UNCHANGED <<result, workers>>
    BY <1>9 DEF HandleResume
  <2>3. CASE ResumePaused(j, c)
    BY <1>4, <2>2, <2>3 DEF ResumePaused, Requeue
  <2>4. CASE ResumeAnswered(j, c)
    BY <1>3, <2>2, <2>4 DEF ResumeAnswered
  <2> QED BY <2>1, <2>3, <2>4
<1>10. CASE Stop
  <2>1. CancelJobs(Jobs) /\ root
    BY <1>10 DEF Stop, CancelAllJobs
  <2>2. \A j \in Jobs : j \in MayBeCancelled
    BY <2>1 DEF MayBeCancelled
  <2> QED BY <1>1, <1>2, <2>1, <2>2, CancelJobsAsked
<1>11. CASE HandleCancelAll
  <2>1. CancelJobs(Jobs) /\ 1 \in DOMAIN cmds /\ cmds[1].op = "CancelAll"
    BY <1>1, <1>11 DEF HandleCancelAll, CancelAllJobs, Receive, TypeOK
  <2>2. ASSUME NEW j \in Jobs, state[j] # "None" PROVE j \in MayBeCancelled
    <3>1. j \in enqueued /\ Submissions(j) = {}
      BY <1>1, <2>2 DEF DownloadsAccountedFor
    <3>2. j \in swept
      BY <2>1, <3>1 DEF CancelsAsked
    <3> QED BY <3>2 DEF MayBeCancelled
  <2> QED BY <1>1, <1>2, <2>1, <2>2, CancelJobsAsked
<1>12. CASE HandleCancel
  <2>1. /\ CancelJobs({Head(cmds).id}) /\ Head(cmds) \in Command /\ Head(cmds).op = "Cancel"
        /\ 1 \in DOMAIN cmds /\ cmds[1] = Head(cmds)
    BY <1>1, <1>12 DEF HandleCancel, Receive, TypeOK
  <2>2. Head(cmds).id \in Jobs /\ Head(cmds).id \in asked
    BY <2>1 DEF Command, CancelsAsked
  <2>3. Head(cmds).id \in MayBeCancelled
    BY <2>2 DEF MayBeCancelled
  <2> QED BY <1>1, <1>2, <2>1, <2>2, <2>3, CancelJobsAsked
<1>13. CASE DispatchJob
  <2>1. ready # <<>> /\ Head(ready) \in Jobs /\ result' = result
    BY <1>1, <1>13 DEF DispatchJob, CanDispatch, TypeOK
  <2>2. PICK j \in Jobs : j = Head(ready)
    BY <2>1
  <2>3. CASE state[j] = "Queued"
    <3>1. \A w \in workers : w.id # j /\ w.id \in Jobs
      BY <1>1, <2>3 DEF OneWorkerPerLiveJob, Live, TypeOK, Worker
    <3>2. PICK t : workers' = workers \cup {[id |-> j, tok |-> t, stop |-> FALSE]}
      BY <1>13, <2>2, <2>3 DEF DispatchJob
    <3>3. \A k \in Jobs : state'[k] = IF k = j THEN "Running" ELSE state[k]
      BY <1>1, <1>13, <2>2, <2>3 DEF DispatchJob, TypeOK
    <3>4. ASSUME NEW v \in workers', v.stop PROVE state'[v.id] # "Running"
      BY <3>1, <3>2, <3>3, <3>4 DEF StopsAsked
    <3> QED BY <1>2, <2>1, <3>3, <3>4 DEF StopsAsked
  <2>4. CASE state[j] # "Queued"
    BY <1>3, <1>13, <2>1, <2>2, <2>4 DEF DispatchJob
  <2> QED BY <2>3, <2>4
<1>14. ASSUME NEW w \in workers, WorkerStep(w) PROVE StopsAsked'
  <2>1. /\ WorkerReturns(w) /\ w.id \in Jobs /\ state[w.id] \in Live
        /\ \/ \E r \in Result : Finalize(w.id, r)
           \/ PauseJob(w.id, {}) /\ result' = result
           \/ Retry(w.id)
    BY <1>1, <1>14, WorkerOutcome
  <2>2. PICK j \in Jobs : j = w.id
    BY <2>1
  <2>3. workers' \subseteq workers /\ \A v \in workers' : v.id \in Jobs
    BY <1>1, <2>1 DEF WorkerReturns, TypeOK, Worker
  <2>4. CASE PauseJob(j, {}) /\ result' = result
    BY <1>4, <2>3, <2>4 DEF PauseJob
  <2>5. CASE Retry(j)
    BY <1>4, <2>3, <2>5 DEF Retry
  <2>6. ASSUME NEW r \in Result, Finalize(j, r) PROVE StopsAsked'
    <3>1. \A k \in Jobs : /\ state'[k] = IF k = j THEN "None" ELSE state[k]
                          /\ result'[k] = IF k = j THEN r ELSE result[k]
      BY <1>1, <2>6 DEF Finalize, TypeOK
    <3>2. r = "Cancelled" => j \in MayBeCancelled
      <4>1. r = "Cancelled" => CancelJob(j)
        BY <2>6 DEF CancelJob
      <4>2. ASSUME r = "Cancelled" PROVE state[j] = "Cancelling" \/ (Stopping(w) /\ state[j] = "Running")
        <5>1. result'[j] = "Cancelled"
          BY <3>1, <4>2
        <5>0. state[j] \in {"Running", "Pausing", "Cancelling"} /\ result[j] = "None"
          <6>1. state[j] \in {"Running", "Pausing", "Cancelling"}
            BY <2>1, <2>2 DEF Live
          <6>2. DownloadsAccountedFor /\ state[j] # "None"
            BY <1>1, <6>1
          <6> QED BY <6>1, <6>2, NoResultYet
        <5>2. CASE WorkerFinished(w)
          BY <1>1, <2>1, <2>2, <5>1, <5>2 DEF WorkerFinished, Live, Finalize, TypeOK
        <5>3. CASE WorkerStopped(w)
          <6>1. state[j] = "Pausing" => PauseJob(j, {}) /\ result' = result
            BY <2>2, <5>3 DEF WorkerStopped
          <6>2. state[j] # "Pausing"
            BY <5>0, <5>1, <6>1
          <6>3. state[j] = "Running" => Stopping(w)
            BY <2>2, <5>3 DEF WorkerStopped
          <6> QED BY <5>0, <6>2, <6>3
        <5>4. CASE WorkerFailed(w)
          <6>1. \/ state[j] = "Cancelling" \/ Finalize(j, "Retryable")
                \/ result' = result
            BY <2>1, <2>2, <5>4 DEF WorkerFailed, Live, PauseAfterFailure, Retry
          <6>2. Finalize(j, "Retryable") => result'[j] = "Retryable"
            BY <1>1 DEF Finalize, TypeOK
          <6>3. result' = result => result'[j] = "None"
            BY <5>0
          <6> QED BY <5>1, <6>1, <6>2, <6>3
        <5>5. CASE WorkerFatal(w)
          BY <1>1, <2>1, <2>2, <5>1, <5>5 DEF WorkerFatal, Live, Finalize, TypeOK
        <5> QED BY <1>14, <5>2, <5>3, <5>4, <5>5 DEF WorkerStep
      <4>3. ASSUME Stopping(w), state[j] = "Running" PROVE root
        BY <2>2, <4>3 DEF Stopping, StopsAsked
      <4>4. root => j \in MayBeCancelled
        BY DEF MayBeCancelled
      <4> QED BY <4>2, <4>3, <4>4 DEF StopsAsked
    <3> QED BY <1>2, <2>3, <3>1, <3>2 DEF StopsAsked
  <2> QED BY <2>1, <2>2, <2>4, <2>5, <2>6
<1>15. ASSUME NEW t \in delayed, RetryElapsed(t) PROVE StopsAsked'
  <2>1. t.id \in Jobs /\ UNCHANGED <<result, workers>>
    BY <1>1, <1>15 DEF RetryElapsed, TypeOK, Timer
  <2> QED BY <1>3, <1>4, <1>15, <2>1 DEF RetryElapsed, Requeue
<1>16. CASE UNCHANGED vars
  BY <1>3, <1>16 DEF vars
<1> QED
  BY <1>5, <1>6, <1>7, <1>8, <1>9, <1>10, <1>11, <1>12, <1>13, <1>14, <1>15, <1>16
     DEF Next, ThreadStep

\* A download is reported as cancelled only if its user asked for that, a
\* cancel_all was sent after it was enqueued, or the manager was shut down.
THEOREM NoCancelUnasked == Spec => []CancelledOnlyIfAsked
<1>1. Init => CancelsAsked /\ StopsAsked
  BY DEF Init, CancelsAsked, StopsAsked
<1>2. StopsAsked => CancelledOnlyIfAsked
  BY DEF StopsAsked, CancelledOnlyIfAsked, MayBeCancelled
<1>3. IInv /\ CancelsAsked /\ StopsAsked /\ [Next]_vars => CancelsAsked' /\ StopsAsked'
  BY ChannelAskedStep, StopsAskedStep DEF IInv
<1> QED BY <1>1, <1>2, <1>3, Invariance, PTL DEF Spec

=============================================================================
