----------------------------- MODULE Scheduler -----------------------------
(***************************************************************************)
(* The scheduler thread of the download manager and the handles that talk  *)
(* to it: src/src/scheduler.rs, src/src/scheduler/job.rs, the client side  *)
(* of src/src/manager.rs and src/src/download.rs, src/src/context.rs.      *)
(*                                                                         *)
(* One thread runs `Scheduler::run`: it polls, in this order, the root     *)
(* cancellation token, the command channel, the worker futures and the     *)
(* retry timers, handles one item, then dispatches queued jobs.  Client    *)
(* threads send commands and cancel the root token at any moment, so the   *)
(* loop is cut into one step per read of state that clients can change.    *)
(*                                                                         *)
(* A worker is reduced here to the results `worker::run` can return; the   *)
(* transfer itself is another component.  Its stop token is the pair of    *)
(* the worker's own flag and the root token it is a child of.              *)
(***************************************************************************)
EXTENDS Integers, Sequences, FiniteSets

CONSTANTS
    Jobs,           \* downloads that may ever be enqueued (their Uuids)
    Calls,          \* client calls that may ever be made, each used once
    Retries,        \* Retries[j]: DownloadConfig::retries of j's request
    MaxConcurrent,  \* DownloadManagerConfig::max_concurrent
    Limits,         \* values a client passes to set_max_concurrent
    QueueCap        \* capacity of the command channel (1024 in the code)

\* With more than 64 retries `next_delay` would be asked for 2^64 seconds,
\* where `Duration::mul_f64` panics: the model stays below that.
ASSUME ConfigAssumption ==
    /\ Retries \in [Jobs -> 0..64]
    /\ MaxConcurrent \in Nat \ {0}
    /\ Limits \subseteq Nat \ {0}
    /\ QueueCap \in Nat \ {0}

VARIABLES
    \* shared between client threads and the scheduler thread
    root,       \* ctx.cancel_root has been cancelled
    closed,     \* the command channel is closed
    cmds,       \* commands in the channel, oldest first
    call,       \* what each client call has got so far
    result,     \* what the result channel of each download holds
    \* private to the scheduler thread
    pc,         \* where `run` stands
    limit,      \* max_concurrent
    state,      \* JobState of each job, "None" when not in `jobs`
    attempt,    \* Job::attempt; JobState::Retrying carries the same number
    waiters,    \* acks held by JobState::Pausing
    token,      \* stop token held by JobState::Running
    ready,      \* VecDeque of queued ids
    delayed,    \* retry timers
    workers,    \* worker futures
    \* history, never read by the code
    enqueued,   \* downloads whose Enqueue was accepted by the channel
    asked,      \* downloads Download::cancel was called on
    swept,      \* downloads enqueued before a cancel_all
    event       \* last event emitted for each download

clientVars == <<root, closed, cmds, enqueued, asked, swept>>
vars == <<root, closed, cmds, call, result, pc, limit, state, attempt, waiters,
          token, ready, delayed, workers, enqueued, asked, swept, event>>

----------------------------------------------------------------------------
(* Values *)

JobState == {"Queued", "Running", "Retrying", "Pausing", "Paused", "Cancelling"}
IdleOrPausing == {"Queued", "Retrying", "Paused", "Pausing"}
Idle     == {"Queued", "Retrying", "Paused"}     \* no worker holds the job
Live     == {"Running", "Pausing", "Cancelling"} \* a worker future exists

\* Error values as far as the scheduler tells them apart: a transport error
\* or a 5xx ("Retryable"), any other worker error ("Fatal"), a clean-up
\* failure ("Io"), Error::Cancelled and the catch-all Error::Unknown.
JobError == {"Retryable", "Fatal", "Io", "Cancelled", "Unknown"}
Result   == {"Ok"} \cup JobError
Reply    == Result \cup {"Invalid", "Closed"}

EventKind == {"Queued", "Started", "RetryScheduled", "PauseStarted", "Paused",
              "CancellationStarted", "Cancelled", "Completed", "Failed"}

Command ==
    [op : {"Enqueue", "Cancel"}, id : Jobs]
        \cup [op : {"Pause", "Resume"}, id : Jobs, ack : Calls]
        \cup [op : {"CancelAll"}]
        \cup [op : {"SetMaxConcurrent"}, max : Limits]

Worker == [id : Jobs, tok : Nat, stop : BOOLEAN]
Timer  == [id : Jobs, attempt : Nat, n : Nat]

Init ==
    /\ root = FALSE
    /\ closed = FALSE
    /\ cmds = <<>>
    /\ call = [c \in Calls |-> "Idle"]
    /\ result = [j \in Jobs |-> "None"]
    /\ pc = "PollStop"
    /\ limit = MaxConcurrent
    /\ state = [j \in Jobs |-> "None"]
    /\ attempt = [j \in Jobs |-> 0]
    /\ waiters = [j \in Jobs |-> {}]
    /\ token = [j \in Jobs |-> 0]
    /\ ready = <<>>
    /\ delayed = {}
    /\ workers = {}
    /\ enqueued = {}
    /\ asked = {}
    /\ swept = {}
    /\ event = [j \in Jobs |-> "None"]

----------------------------------------------------------------------------
(* Client threads: DownloadManager and Download.  A send on a full channel *)
(* waits (`send`) or is refused without a trace (`try_send`): in both      *)
(* cases nothing changes, so the step is simply not enabled.               *)

Send(cmd) ==
    /\ ~closed
    /\ Len(cmds) < QueueCap
    /\ cmds' = Append(cmds, cmd)
    /\ UNCHANGED <<root, closed, result, pc, limit, state, attempt, waiters,
                   token, ready, delayed, workers, event>>

Enqueue(j) ==
    /\ j \notin enqueued
    /\ Send([op |-> "Enqueue", id |-> j])
    /\ enqueued' = enqueued \cup {j}
    /\ UNCHANGED <<call, asked, swept>>

CallPause(c, j) ==
    /\ call[c] = "Idle" /\ j \in enqueued
    /\ Send([op |-> "Pause", id |-> j, ack |-> c])
    /\ call' = [call EXCEPT ![c] = "Waiting"]
    /\ UNCHANGED <<enqueued, asked, swept>>

CallResume(c, j) ==
    /\ call[c] = "Idle" /\ j \in enqueued
    /\ Send([op |-> "Resume", id |-> j, ack |-> c])
    /\ call' = [call EXCEPT ![c] = "Waiting"]
    /\ UNCHANGED <<enqueued, asked, swept>>

\* `cancel` goes on to await the result of the download: its answer is
\* result[j], not an ack.
CallCancel(c, j) ==
    /\ call[c] = "Idle" /\ j \in enqueued
    /\ Send([op |-> "Cancel", id |-> j])
    /\ call' = [call EXCEPT ![c] = "Sent"]
    /\ asked' = asked \cup {j}
    /\ UNCHANGED <<enqueued, swept>>

CallCancelAll(c) ==
    /\ call[c] = "Idle"
    /\ Send([op |-> "CancelAll"])
    /\ call' = [call EXCEPT ![c] = "Sent"]
    /\ swept' = swept \cup enqueued
    /\ UNCHANGED <<enqueued, asked>>

CallSetMaxConcurrent(c, n) ==
    /\ call[c] = "Idle"
    /\ Send([op |-> "SetMaxConcurrent", max |-> n])
    /\ call' = [call EXCEPT ![c] = "Sent"]
    /\ UNCHANGED <<enqueued, asked, swept>>

\* A send, waiting or new, finds the channel closed.
CallRefused(c) ==
    /\ closed /\ call[c] = "Idle"
    /\ call' = [call EXCEPT ![c] = "Closed"]
    /\ UNCHANGED <<clientVars, result, pc, limit, state, attempt, waiters,
                   token, ready, delayed, workers, event>>

\* `shutdown` and dropping the manager both cancel the root token; shutdown
\* then waits until the thread ends (pc = "Done").
CancelRoot ==
    /\ ~root
    /\ root' = TRUE
    /\ UNCHANGED <<closed, cmds, call, result, pc, limit, state, attempt,
                   waiters, token, ready, delayed, workers, enqueued, asked, swept, event>>

----------------------------------------------------------------------------
(* Helpers of the scheduler *)

Ids(q) == {q[i] : i \in DOMAIN q}

\* VecDeque::retain(|queued| *queued != id)
RetainNothingRemoved(q, j) == q
Retain(q, j) ==
    LET kept   == {i \in DOMAIN q : q[i] # j}
        rank(i) == Cardinality({k \in kept : k <= i})
    IN  [n \in 1..Cardinality(kept) |-> q[CHOOSE i \in kept : rank(i) = n]]

\* A number no live worker of j, or no pending timer of j for attempt a,
\* carries: the identity of a new token or timer.
FreshToken(j) ==
    CHOOSE t \in 0..Cardinality(workers) :
        \A w \in workers : w.id = j => w.tok # t
FreshTimer(j, a) ==
    CHOOSE n \in 0..Cardinality(delayed) :
        [id |-> j, attempt |-> a, n |-> n] \notin delayed

\* The stop token of w is a child of the root token.
Stopping(w) == w.stop \/ root

\* stop.cancel() on the tokens that the jobs of S hold.
StopNobody(S) == workers
StopWorkers(S) ==
    {IF w.id \in S /\ w.tok = token[w.id] THEN [w EXCEPT !.stop = TRUE] ELSE w
        : w \in workers}

\* The calls of C get answer r on their ack channels.
Answer(C, r) == [c \in Calls |-> IF c \in C THEN r ELSE call[c]]

TerminalEvent(r) ==
    CASE r = "Ok"        -> "Completed"
      [] r = "Cancelled" -> "Cancelled"
      [] OTHER           -> "Failed"

\* Job::finalize: the job has left the map, its waiters and its result
\* channel get r.
Finalize(j, r) ==
    /\ state' = [state EXCEPT ![j] = "None"]
    /\ call' = Answer(waiters[j], r)
    /\ waiters' = [waiters EXCEPT ![j] = {}]
    /\ event' = [event EXCEPT ![j] = TerminalEvent(r)]
    /\ result' = [result EXCEPT ![j] = r]

\* cancel_job: discard the partial files, which may fail, and finalize.
CancelJob(j) == \E r \in {"Cancelled", "Io"} : Finalize(j, r)

\* Job::pause, with `more` acks answered at once by the caller.
PauseJob(j, more) ==
    /\ state' = [state EXCEPT ![j] = "Paused"]
    /\ call' = Answer(waiters[j] \cup more, "Ok")
    /\ waiters' = [waiters EXCEPT ![j] = {}]
    /\ event' = [event EXCEPT ![j] = "Paused"]

\* job.state = Queued and ready.push_back(id).
Requeue(j) ==
    /\ state' = [state EXCEPT ![j] = "Queued"]
    /\ ready' = Append(ready, j)
    /\ event' = [event EXCEPT ![j] = "Queued"]

\* job.attempt < retries, the negation of the code's test.
RetriesLeftOffByOne(j) == attempt[j] <= Retries[j]
RetriesLeftTooFew(j)   == attempt[j] + 1 < Retries[j]
RetriesLeft(j)         == attempt[j] < Retries[j]

NextAttemptSame(j) == attempt[j]
NextAttempt(j) == attempt[j] + 1

\* Where `run` goes after it has handled an item in the main loop.
AfterItemNoDispatch == "PollStop"
AfterItem == "Dispatch"

----------------------------------------------------------------------------
(* The loop of `run`: select_biased! polls the root token, the channel,    *)
(* the workers and the timers in this order.  A client may act between two *)
(* of these polls.  Parked with nothing ready, the thread stays in         *)
(* "PollWork" until it is woken.                                           *)

\* transition_job(id, JobEvent::Cancel) for every id of S.
CancelJobs(S) ==
    LET idle == {j \in S : state[j] \in Idle}
        live == {j \in S : state[j] \in {"Running", "Pausing"}}
    IN  \E r \in [idle -> {"Cancelled", "Io"}] :
          /\ state' = [j \in Jobs |-> IF j \in idle THEN "None"
                                      ELSE IF j \in live THEN "Cancelling"
                                      ELSE state[j]]
          /\ result' = [j \in Jobs |-> IF j \in idle THEN r[j] ELSE result[j]]
          /\ event' = [j \in Jobs |-> IF j \in idle THEN TerminalEvent(r[j])
                                      ELSE IF j \in live THEN "CancellationStarted"
                                      ELSE event[j]]
          /\ workers' = StopWorkers({j \in S : state[j] = "Running"})
          /\ call' = Answer(UNION {waiters[j] : j \in live}, "Cancelled")
          /\ waiters' = [j \in Jobs |-> IF j \in live THEN {} ELSE waiters[j]]
          /\ UNCHANGED <<attempt, token>>

CancelAllJobs ==
    /\ CancelJobs(Jobs)
    /\ ready' = <<>>
    /\ delayed' = {}

PollStop ==
    /\ pc = "PollStop" /\ ~root
    /\ pc' = "PollCmd"
    /\ UNCHANGED <<clientVars, call, result, limit, state, attempt, waiters,
                   token, ready, delayed, workers, event>>

\* Next::Stop: leave the loop, close the channel, cancel everything.
Stop ==
    /\ pc = "PollStop" /\ root
    /\ pc' = "Drain"
    /\ closed' = TRUE
    /\ CancelAllJobs
    /\ UNCHANGED <<root, cmds, limit, enqueued, asked, swept>>

\* The channel is empty: go on polling.
PollNoCmd ==
    /\ pc = "PollCmd" /\ cmds = <<>>
    /\ pc' = "PollWork"
    /\ UNCHANGED <<clientVars, call, result, limit, state, attempt, waiters,
                   token, ready, delayed, workers, event>>

\* A command arrived or the root token was cancelled while parked.
WakeOnlyForCommands ==
    /\ pc = "PollWork"
    /\ cmds # <<>>
    /\ pc' = "PollStop"
    /\ UNCHANGED <<clientVars, call, result, limit, state, attempt, waiters,
                   token, ready, delayed, workers, event>>
Wake ==
    /\ pc = "PollWork"
    /\ root \/ cmds # <<>>
    /\ pc' = "PollStop"
    /\ UNCHANGED <<clientVars, call, result, limit, state, attempt, waiters,
                   token, ready, delayed, workers, event>>

----------------------------------------------------------------------------
(* handle_cmd *)

Receive(op) ==
    /\ pc = "PollCmd" /\ cmds # <<>> /\ Head(cmds).op = op
    /\ cmds' = Tail(cmds)
    /\ pc' = AfterItem
    /\ UNCHANGED <<root, closed, enqueued, asked, swept>>

HandleEnqueue ==
    /\ Receive("Enqueue")
    /\ Requeue(Head(cmds).id)
    /\ attempt' = [attempt EXCEPT ![Head(cmds).id] = 0]
    /\ UNCHANGED <<call, result, limit, waiters, token, delayed, workers>>

\* Pause of a job no worker holds.
PauseIdleOrRunning(j, c) ==
    /\ state[j] \in {"Queued", "Retrying", "Running"}
    /\ PauseJob(j, {c})
    /\ ready' = IF state[j] = "Queued" THEN Retain(ready, j) ELSE ready
    /\ UNCHANGED workers
PauseIdle(j, c) ==
    /\ state[j] \in {"Queued", "Retrying"}
    /\ PauseJob(j, {c})
    /\ ready' = IF state[j] = "Queued" THEN Retain(ready, j) ELSE ready
    /\ UNCHANGED workers

\* Pause of a running job: stop the worker, answer when it has stopped.
PauseRunningAtOnce(j, c) ==
    /\ state[j] = "Running"
    /\ workers' = StopWorkers({j})
    /\ state' = [state EXCEPT ![j] = "Pausing"]
    /\ call' = Answer({c}, "Ok")
    /\ event' = [event EXCEPT ![j] = "PauseStarted"]
    /\ UNCHANGED <<waiters, ready>>
PauseRunning(j, c) ==
    /\ state[j] = "Running"
    /\ workers' = StopWorkers({j})
    /\ state' = [state EXCEPT ![j] = "Pausing"]
    /\ waiters' = [waiters EXCEPT ![j] = {c}]
    /\ event' = [event EXCEPT ![j] = "PauseStarted"]
    /\ UNCHANGED <<call, ready>>

\* One more caller waits for the same pause.
PausePausingReplacing(j, c) ==
    /\ state[j] = "Pausing"
    /\ waiters' = [waiters EXCEPT ![j] = {c}]
    /\ UNCHANGED <<state, call, event, ready, workers>>
PausePausing(j, c) ==
    /\ state[j] = "Pausing"
    /\ waiters' = [waiters EXCEPT ![j] = @ \cup {c}]
    /\ UNCHANGED <<state, call, event, ready, workers>>

\* Answered without any effect on the job.
PauseAnswered(j, c) ==
    /\ state[j] \in {"None", "Paused", "Cancelling"}
    /\ call' = Answer({c}, CASE state[j] = "None" -> "Unknown"
                             [] state[j] = "Paused" -> "Ok"
                             [] OTHER -> "Invalid")
    /\ UNCHANGED <<state, waiters, event, ready, workers>>

HandlePause ==
    /\ Receive("Pause")
    /\ LET j == Head(cmds).id
           c == Head(cmds).ack
       IN  PauseIdle(j, c) \/ PauseRunning(j, c) \/ PausePausing(j, c)
               \/ PauseAnswered(j, c)
    /\ UNCHANGED <<result, limit, attempt, token, delayed>>

ResumePaused(j, c) ==
    /\ state[j] = "Paused"
    /\ Requeue(j)
    /\ call' = Answer({c}, "Ok")

ResumeAnswered(j, c) ==
    /\ state[j] # "Paused"
    /\ call' = Answer({c}, CASE state[j] = "None" -> "Unknown"
                             [] state[j] \in {"Pausing", "Cancelling"} -> "Invalid"
                             [] OTHER -> "Ok")
    /\ UNCHANGED <<state, event, ready>>

HandleResume ==
    /\ Receive("Resume")
    /\ LET j == Head(cmds).id
           c == Head(cmds).ack
       IN  ResumePaused(j, c) \/ ResumeAnswered(j, c)
    /\ UNCHANGED <<result, limit, attempt, waiters, token, delayed, workers>>

HandleCancel ==
    /\ Receive("Cancel")
    /\ LET j == Head(cmds).id
       IN  /\ CancelJobs({j})
           /\ ready' = IF state[j] \in Idle THEN Retain(ready, j) ELSE ready
    /\ UNCHANGED <<limit, delayed>>

HandleCancelAll ==
    /\ Receive("CancelAll")
    /\ CancelAllJobs
    /\ UNCHANGED limit

HandleSetMaxConcurrent ==
    /\ Receive("SetMaxConcurrent")
    /\ limit' = Head(cmds).max
    /\ UNCHANGED <<call, result, state, attempt, waiters, token, ready, delayed,
                   workers, event>>

----------------------------------------------------------------------------
(* try_dispatch: one step per turn of its loop, which reads the root token *)

CanDispatchOneTooMany == Cardinality(workers) <= limit /\ ready # <<>>
CanDispatch == Cardinality(workers) < limit /\ ready # <<>>

DispatchJob ==
    /\ pc = "Dispatch" /\ CanDispatch /\ ~root
    /\ ready' = Tail(ready)
    /\ LET j == Head(ready)
           t == FreshToken(j)
       IN  IF state[j] = "Queued"
           THEN /\ state' = [state EXCEPT ![j] = "Running"]
                /\ token' = [token EXCEPT ![j] = t]
                /\ workers' = workers \cup {[id |-> j, tok |-> t, stop |-> FALSE]}
                /\ event' = [event EXCEPT ![j] = "Started"]
           ELSE UNCHANGED <<state, token, workers, event>>
    /\ UNCHANGED <<clientVars, call, result, pc, limit, attempt, waiters, delayed>>

\* The id is popped before the root token is read, and dropped.
DispatchAbandoned ==
    /\ pc = "Dispatch" /\ CanDispatch /\ root
    /\ ready' = Tail(ready)
    /\ pc' = "PollStop"
    /\ UNCHANGED <<clientVars, call, result, limit, state, attempt, waiters,
                   token, delayed, workers, event>>

DispatchOver ==
    /\ pc = "Dispatch" /\ ~CanDispatch
    /\ pc' = "PollStop"
    /\ UNCHANGED <<clientVars, call, result, limit, state, attempt, waiters,
                   token, ready, delayed, workers, event>>

----------------------------------------------------------------------------
(* Results of workers and of timers *)

\* The worker future w of job j is taken out of `workers`, in the loop or in
\* the final drain.
WorkerReturns(w) ==
    /\ pc \in {"PollWork", "Drain"}
    /\ workers' = workers \ {w}
    /\ pc' = IF pc = "Drain" THEN "Drain" ELSE AfterItem
    /\ UNCHANGED <<clientVars, limit, token, ready>>

WorkerFinishedTooLate(w) ==
    /\ WorkerReturns(w)
    /\ CASE state[w.id] = "None" -> UNCHANGED <<call, result, state, waiters, event>>
         [] state[w.id] = "Cancelling" -> CancelJob(w.id)
         [] OTHER -> Finalize(w.id, "Ok")
    /\ UNCHANGED <<attempt, delayed>>
WorkerFinished(w) ==
    /\ WorkerReturns(w)
    /\ IF state[w.id] = "None"
       THEN UNCHANGED <<call, result, state, waiters, event>>
       ELSE Finalize(w.id, "Ok")
    /\ UNCHANGED <<attempt, delayed>>

\* worker::run saw its stop token.  A Running job whose token is cancelled
\* is one the root token stopped.
WorkerStoppedByPauseCancels(w) ==
    /\ Stopping(w)
    /\ WorkerReturns(w)
    /\ CASE state[w.id] \in {"Cancelling", "Running", "Pausing"} -> CancelJob(w.id)
         [] state[w.id] = "None" -> UNCHANGED <<call, result, state, waiters, event>>
         [] OTHER -> Finalize(w.id, "Unknown")
    /\ UNCHANGED <<attempt, delayed>>
WorkerStopped(w) ==
    /\ Stopping(w)
    /\ WorkerReturns(w)
    /\ CASE state[w.id] \in {"Cancelling", "Running"} -> CancelJob(w.id)
         [] state[w.id] = "Pausing" -> PauseJob(w.id, {}) /\ UNCHANGED result
         [] state[w.id] = "None" -> UNCHANGED <<call, result, state, waiters, event>>
         [] OTHER -> Finalize(w.id, "Unknown")
    /\ UNCHANGED <<attempt, delayed>>

\* Job::retry and the push of its timer.
Retry(j) ==
    LET a == NextAttempt(j)
    IN  /\ attempt' = [attempt EXCEPT ![j] = a]
        /\ state' = [state EXCEPT ![j] = "Retrying"]
        /\ event' = [event EXCEPT ![j] = "RetryScheduled"]
        /\ delayed' = delayed \cup {[id |-> j, attempt |-> a, n |-> FreshTimer(j, a)]}
        /\ UNCHANGED <<call, result, waiters>>

\* A failure during a pause costs an attempt and leaves the job paused.
PauseAfterFailureForgotten(j) ==
    /\ attempt' = [attempt EXCEPT ![j] = NextAttempt(j)]
    /\ state' = [state EXCEPT ![j] = "None"]
    /\ call' = Answer(waiters[j], "Ok")
    /\ waiters' = [waiters EXCEPT ![j] = {}]
    /\ event' = [event EXCEPT ![j] = "Paused"]
    /\ UNCHANGED <<result, delayed>>
PauseAfterFailure(j) ==
    /\ attempt' = [attempt EXCEPT ![j] = NextAttempt(j)]
    /\ PauseJob(j, {})
    /\ UNCHANGED <<result, delayed>>

WorkerFailedRetriesFirst(w) ==
    /\ WorkerReturns(w)
    /\ CASE state[w.id] = "None" ->
              UNCHANGED <<call, result, state, attempt, waiters, delayed, event>>
         [] state[w.id] # "None" /\ ~RetriesLeft(w.id) ->
              Finalize(w.id, "Retryable") /\ UNCHANGED <<attempt, delayed>>
         [] state[w.id] = "Pausing" /\ RetriesLeft(w.id) ->
              PauseAfterFailure(w.id)
         [] OTHER -> Retry(w.id)
WorkerFailed(w) ==
    /\ WorkerReturns(w)
    /\ CASE state[w.id] = "None" ->
              UNCHANGED <<call, result, state, attempt, waiters, delayed, event>>
         [] state[w.id] = "Cancelling" ->
              CancelJob(w.id) /\ UNCHANGED <<attempt, delayed>>
         [] state[w.id] \notin {"None", "Cancelling"} /\ ~RetriesLeft(w.id) ->
              Finalize(w.id, "Retryable") /\ UNCHANGED <<attempt, delayed>>
         [] state[w.id] = "Pausing" /\ RetriesLeft(w.id) ->
              PauseAfterFailure(w.id)
         [] OTHER -> Retry(w.id)

\* An error that is not retried, or a panic caught in the worker.
WorkerFatal(w) ==
    /\ WorkerReturns(w)
    /\ CASE state[w.id] = "None" -> UNCHANGED <<call, result, state, waiters, event>>
         [] state[w.id] = "Cancelling" -> CancelJob(w.id)
         [] OTHER -> Finalize(w.id, "Fatal")
    /\ UNCHANGED <<attempt, delayed>>

\* The timer of attempt t.attempt fires; it counts only for the retry it was
\* made for.
TimerMatchesOldAttempt(t) ==
    state[t.id] = "Retrying" /\ attempt[t.id] = t.attempt + 1
TimerMatchesLoosely(t) == state[t.id] = "Retrying"
TimerMatches(t) == state[t.id] = "Retrying" /\ attempt[t.id] = t.attempt

RetryElapsed(t) ==
    /\ pc = "PollWork"
    /\ pc' = AfterItem
    /\ delayed' = delayed \ {t}
    /\ IF TimerMatches(t)
       THEN Requeue(t.id)
       ELSE UNCHANGED <<state, ready, event>>
    /\ UNCHANGED <<clientVars, call, result, limit, attempt, waiters, token, workers>>

\* The drain loop found no worker left: the thread ends.
Finish ==
    /\ pc = "Drain" /\ workers = {}
    /\ pc' = "Done"
    /\ UNCHANGED <<clientVars, call, result, limit, state, attempt, waiters,
                   token, ready, delayed, workers, event>>

----------------------------------------------------------------------------

ClientStep ==
    \/ \E j \in Jobs : Enqueue(j)
    \/ \E c \in Calls, j \in Jobs : CallPause(c, j)
    \/ \E c \in Calls, j \in Jobs : CallResume(c, j)
    \/ \E c \in Calls, j \in Jobs : CallCancel(c, j)
    \/ \E c \in Calls : CallCancelAll(c)
    \/ \E c \in Calls, n \in Limits : CallSetMaxConcurrent(c, n)
    \/ \E c \in Calls : CallRefused(c)
    \/ CancelRoot

\* Steps the thread takes without waiting for anything outside.
ThreadStep ==
    \/ PollStop
    \/ Stop
    \/ PollNoCmd
    \/ Wake
    \/ HandleEnqueue
    \/ HandlePause
    \/ HandleResume
    \/ HandleCancel
    \/ HandleCancelAll
    \/ HandleSetMaxConcurrent
    \/ DispatchJob
    \/ DispatchAbandoned
    \/ DispatchOver
    \/ Finish

WorkerStep(w) ==
    WorkerFinished(w) \/ WorkerStopped(w) \/ WorkerFailed(w) \/ WorkerFatal(w)

Next ==
    \/ ClientStep
    \/ ThreadStep
    \/ \E w \in workers : WorkerStep(w)
    \/ \E t \in delayed : RetryElapsed(t)

Spec == Init /\ [][Next]_vars

(***************************************************************************)
(* Fairness.  The thread keeps running while it has something to do.  A    *)
(* timer elapses.  A worker whose stop token is cancelled returns, since   *)
(* every wait of worker::run on the network is a select with that token.   *)
(* A worker nobody stops may wait for the server for ever, and clients     *)
(* owe nothing.                                                            *)
(***************************************************************************)
Fairness ==
    /\ WF_vars(ThreadStep)
    /\ \A j \in Jobs :
          WF_vars(\E w \in workers : w.id = j /\ Stopping(w) /\ WorkerStep(w))
    /\ \A j \in Jobs : WF_vars(\E t \in delayed : t.id = j /\ RetryElapsed(t))

FairSpec == Spec /\ Fairness

----------------------------------------------------------------------------
(* Invariants *)

TypeOK ==
    /\ root \in BOOLEAN
    /\ closed \in BOOLEAN
    /\ cmds \in Seq(Command)
    /\ call \in [Calls -> Reply \cup {"Idle", "Sent", "Waiting"}]
    /\ result \in [Jobs -> Result \cup {"None"}]
    /\ pc \in {"PollStop", "PollCmd", "PollWork", "Dispatch", "Drain", "Done"}
    /\ limit \in Nat \ {0}
    /\ state \in [Jobs -> JobState \cup {"None"}]
    /\ attempt \in [Jobs -> Nat] /\ \A j \in Jobs : attempt[j] <= Retries[j]
    /\ waiters \in [Jobs -> SUBSET Calls]
    /\ token \in [Jobs -> Nat]
    /\ ready \in Seq(Jobs)
    /\ delayed \in SUBSET Timer /\ IsFiniteSet(delayed)
    /\ workers \in SUBSET Worker /\ IsFiniteSet(workers)
    /\ enqueued \in SUBSET Jobs
    /\ asked \in SUBSET enqueued
    /\ swept \in SUBSET enqueued
    /\ event \in [Jobs -> EventKind \cup {"None"}]

\* A download has a worker exactly when its job is in a state that waits for
\* one, never two, and a job that is being paused or cancelled has reached
\* the stop token of that worker: otherwise the pause or the cancellation
\* would wait for a transfer nobody stopped, or two workers would write the
\* same file.  (JobState and `workers` are changed apart from each other, in
\* transition_job.)
OneWorkerPerLiveJob ==
    /\ \A j \in Jobs : state[j] \in Live <=> \E w \in workers : w.id = j
    /\ \A v, w \in workers : v.id = w.id => v = w
    /\ \A w \in workers :
          /\ w.tok = token[w.id]
          /\ state[w.id] \in {"Pausing", "Cancelling"} => Stopping(w)

\* `ready` holds every Queued job once and nothing else, through retries,
\* pauses, resumes and cancellations: no job is started twice for one turn in
\* the queue and none is forgotten.  The exception is the id try_dispatch has
\* popped when it sees the root token, just before the scheduler stops.
ReadyHoldsQueuedJobs ==
    /\ \A i, k \in DOMAIN ready : ready[i] = ready[k] => i = k
    /\ \A j \in Ids(ready) : state[j] = "Queued"
    /\ \A j \in Jobs :
          state[j] = "Queued" => j \in Ids(ready) \/ (root /\ pc = "PollStop")

\* A job that waits for a retry has exactly one timer that can end the wait,
\* and no timer is ahead of its job: timers left over from a wait that a
\* pause cut short can never end a later one.
OneTimerPerRetry ==
    /\ \A j \in Jobs :
          state[j] = "Retrying" =>
              \E t \in delayed : t.id = j /\ t.attempt = attempt[j]
    /\ \A s, t \in delayed : s.id = t.id /\ s.attempt = t.attempt => s = t
    /\ \A t \in delayed : t.attempt <= attempt[t.id]

\* A caller of pause or resume that waits for its ack has it in exactly one
\* place, a command in the channel or a job that is being paused: no ack is
\* dropped (the caller would wait for ever) and none is answered twice.
CommandsOf(c) ==
    {i \in DOMAIN cmds : cmds[i].op \in {"Pause", "Resume"} /\ cmds[i].ack = c}
HeldBy(c) == {j \in Jobs : c \in waiters[j]}

AcksAccountedFor ==
    /\ \A c \in Calls :
          IF call[c] = "Waiting"
          THEN \/ HeldBy(c) = {} /\ \E i \in DOMAIN cmds : CommandsOf(c) = {i}
               \/ CommandsOf(c) = {} /\ \E j \in Jobs : HeldBy(c) = {j}
          ELSE HeldBy(c) = {} /\ CommandsOf(c) = {}
    /\ \A j \in Jobs : waiters[j] # {} <=> state[j] = "Pausing"

\* From its enqueueing on, a download is in exactly one of three places: in
\* the channel, in the scheduler's map, or answered.  A handler that takes
\* the job out of the map (JobEvent::Worker always does) must put it back or
\* answer it, and an answered download never comes back.
Submissions(j) == {i \in DOMAIN cmds : cmds[i] = [op |-> "Enqueue", id |-> j]}

DownloadsAccountedFor ==
    \A j \in Jobs :
        /\ j \notin enqueued =>
              Submissions(j) = {} /\ state[j] = "None" /\ result[j] = "None"
        /\ j \in enqueued =>
              \/ /\ \E i \in DOMAIN cmds : Submissions(j) = {i}
                 /\ state[j] = "None" /\ result[j] = "None"
              \/ Submissions(j) = {} /\ state[j] # "None" /\ result[j] = "None"
              \/ Submissions(j) = {} /\ state[j] = "None" /\ result[j] # "None"

\* A download is reported as cancelled only if its user, or a cancel_all sent
\* after it was enqueued, asked for that, or the manager was shut down: a
\* worker that a pause has stopped is never mistaken for a cancelled one.
CancelledOnlyIfAsked ==
    \A j \in Jobs : result[j] = "Cancelled" => j \in asked \cup swept \/ root

\* A transport error is reported only after all the retries of the request
\* are used up, counting those used while the job was being paused.
RetriesUsedUp ==
    \A j \in Jobs : result[j] = "Retryable" => attempt[j] = Retries[j]

\* When the thread goes back to waiting, no queued job waits beside a free
\* slot: whatever freed the slot or filled the queue was followed by a
\* dispatch.  Nothing would wake the thread for it otherwise.
NoIdleSlot ==
    pc \in {"PollCmd", "PollWork"} /\ ready # <<>> => Cardinality(workers) >= limit

----------------------------------------------------------------------------
(* Action properties *)

\* A pause answered Ok means that the download has no worker any more, hence
\* nothing writes its partial file: the ack waits for the worker, whichever
\* way that worker ends and however many callers asked.
PauseAckAfterWorker ==
    [][\A c \in Calls, j \in Jobs :
          /\ call[c] = "Waiting" /\ call'[c] = "Ok"
          /\ \/ c \in waiters[j]
             \/ cmds # <<>> /\ Head(cmds) = [op |-> "Pause", id |-> j, ack |-> c]
          => ~ \E w \in workers' : w.id = j]_vars

\* A retry leaves its back-off only on the timer made for it, never on one
\* left from a wait that a pause and a resume cut short.
RetryWaitsForItsTimer ==
    [][\A j \in Jobs :
          state[j] = "Retrying" /\ state'[j] = "Queued" =>
              \E t \in delayed \ delayed' : t.id = j /\ t.attempt = attempt[j]]_vars

\* Once a cancellation has started it wins: the download is not retried,
\* paused or failed by what its worker still reports, and ends as cancelled,
\* completed, or not cleaned up.
CancellationWins ==
    [][\A j \in Jobs :
          state[j] = "Cancelling" =>
              \/ state'[j] = "Cancelling"
              \/ state'[j] = "None" /\ result'[j] \in {"Cancelled", "Ok", "Io"}]_vars

----------------------------------------------------------------------------
(* What clients may rely on *)

Contract == INSTANCE Lifecycle WITH
    last    <- event,
    outcome <- result,
    tries   <- attempt,
    active  <- {w.id : w \in workers}

\* The scheduler implements the promises of Lifecycle: every step of it, seen
\* through the last event, the result, the retries used and the workers of
\* each download, is a step of the abstract life cycle or no step at all.
KeepsContract == Contract!Spec

----------------------------------------------------------------------------
(* Liveness *)

\* Commands that were still in the channel when the scheduler ended: nobody
\* reads them, and nobody drops them while a sender is alive.
Stranded(j) == pc = "Done" /\ Submissions(j) # {}
Unread(c)   == pc = "Done" /\ CommandsOf(c) # {}

\* A cancelled download ends, also with a worker, a pause or a retry under
\* way, unless the scheduler ended before it saw the download at all.
CancelResolves ==
    \A j \in Jobs : j \in asked \cup swept ~> (result[j] # "None" \/ Stranded(j))

\* A pause or a resume is answered, also when the download completes, fails
\* or is cancelled meanwhile, unless the scheduler ended before reading it.
AcksResolve ==
    \A c \in Calls : call[c] = "Waiting" ~> (call[c] # "Waiting" \/ Unread(c))

\* shutdown returns: after the root token is cancelled the scheduler stops
\* every worker and its thread ends.
ShutdownReturns == root ~> pc = "Done"

\* A back-off ends.
RetryEnds == \A j \in Jobs : state[j] = "Retrying" ~> state[j] # "Retrying"

----------------------------------------------------------------------------
(* What the documentation of Download::cancel says, which the code does    *)
(* not keep.                                                               *)

\* download.rs:89-95: cancel resolves, with Err if the manager was shut down.
CancelReturns == \A j \in Jobs : j \in asked ~> result[j] # "None"

\* download.rs:92-95: cancel returns Ok when the download is cancelled, "was
\* already finished, or completed", and Err if cleanup failed or the manager
\* was shut down.  Any other result makes it return Err.
CancelErrsOnlyOnCleanup ==
    \A j \in Jobs :
        j \in asked /\ ~root => result[j] \in {"None", "Ok", "Cancelled", "Io"}

=============================================================================
