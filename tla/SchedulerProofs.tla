-------------------------- MODULE SchedulerProofs --------------------------
(***************************************************************************)
(* Proofs that the invariants of Scheduler hold for any number of          *)
(* downloads, calls and retries, any limits and any channel capacity.      *)
(***************************************************************************)
EXTENDS Scheduler, FiniteSetTheorems, TLAPS

----------------------------------------------------------------------------
(* Queues *)

\* The positions of q that hold an element of M.
Places(q, M) == {i \in DOMAIN q : q[i] \in M}

\* Appending adds at most its own position.
LEMMA PlacesAppend ==
    ASSUME NEW S, NEW q \in Seq(S), NEW x \in S, NEW M
    PROVE  /\ x \notin M => Places(Append(q, x), M) = Places(q, M)
           /\ x \in M => Places(Append(q, x), M) = Places(q, M) \cup {Len(q) + 1}
  BY DEF Places

\* What is at most once in a queue is at most once in its tail, and no more
\* when it was the head.
LEMMA PlacesTail ==
    ASSUME NEW S, NEW q \in Seq(S), q # <<>>, NEW M
    PROVE  /\ Places(q, M) = {} => Places(Tail(q), M) = {}
           /\ Head(q) \notin M /\ (\E i \in DOMAIN q : Places(q, M) = {i})
                => \E i \in DOMAIN Tail(q) : Places(Tail(q), M) = {i}
           /\ Head(q) \in M /\ (\E i \in DOMAIN q : Places(q, M) = {i})
                => Places(Tail(q), M) = {}
  <1>1. /\ Len(q) \in Nat \ {0}
        /\ Tail(q) \in Seq(S)
        /\ Len(Tail(q)) = Len(q) - 1
        /\ \A i \in 1..(Len(q) - 1) : Tail(q)[i] = q[i + 1]
        /\ Head(q) = q[1]
    OBVIOUS
  <1>2. DOMAIN q = 1..Len(q) /\ DOMAIN Tail(q) = 1..(Len(q) - 1)
    BY <1>1
  <1>3. \A i \in DOMAIN Tail(q) : i \in Places(Tail(q), M) <=> i + 1 \in Places(q, M)
    BY <1>1, <1>2 DEF Places
  <1>4. Places(q, M) = {} => Places(Tail(q), M) = {}
    BY <1>3 DEF Places
  <1>5. ASSUME Head(q) \notin M, NEW i \in DOMAIN q, Places(q, M) = {i}
        PROVE  \E k \in DOMAIN Tail(q) : Places(Tail(q), M) = {k}
    <2>1. i # 1
      BY <1>1, <1>5 DEF Places
    <2>2. i - 1 \in DOMAIN Tail(q)
      BY <2>1, <1>2, <1>1
    <2>3. Places(Tail(q), M) = {i - 1}
      BY <2>2, <1>3, <1>2, <1>5, <1>1 DEF Places
    <2>4. QED
      BY <2>2, <2>3
  <1>6. ASSUME Head(q) \in M, NEW i \in DOMAIN q, Places(q, M) = {i}
        PROVE  Places(Tail(q), M) = {}
    <2>1. 1 \in Places(q, M)
      BY <1>1, <1>2, <1>6 DEF Places
    <2>2. QED
      BY <2>1, <1>2, <1>3, <1>6, <1>1 DEF Places
  <1>7. QED
    BY <1>4, <1>5, <1>6

\* No element is twice in the queue q.
Distinct(q) == \A i, k \in DOMAIN q : q[i] = q[k] => i = k

\* A new element keeps a queue free of repetitions and joins its ids.
LEMMA DistinctAppend ==
    ASSUME NEW S, NEW q \in Seq(S), Distinct(q), NEW x \in S, x \notin Ids(q)
    PROVE  Distinct(Append(q, x)) /\ Ids(Append(q, x)) = Ids(q) \cup {x}
  BY DEF Distinct, Ids

\* The tail of a queue without repetitions has lost its head and nothing else.
LEMMA DistinctTail ==
    ASSUME NEW S, NEW q \in Seq(S), Distinct(q), q # <<>>
    PROVE  Distinct(Tail(q)) /\ Ids(Tail(q)) = Ids(q) \ {Head(q)}
  <1>1. /\ Len(q) \in Nat \ {0}
        /\ Tail(q) \in Seq(S)
        /\ Len(Tail(q)) = Len(q) - 1
        /\ \A i \in 1..(Len(q) - 1) : Tail(q)[i] = q[i + 1]
        /\ Head(q) = q[1]
    OBVIOUS
  <1>2. DOMAIN q = 1..Len(q) /\ DOMAIN Tail(q) = 1..(Len(q) - 1)
    BY <1>1
  <1>3. Distinct(Tail(q))
    BY <1>1, <1>2 DEF Distinct
  <1>4. Ids(Tail(q)) \subseteq Ids(q) \ {Head(q)}
    BY <1>1, <1>2 DEF Distinct, Ids
  <1>5. ASSUME NEW i \in DOMAIN q, q[i] # Head(q)
        PROVE  q[i] \in Ids(Tail(q))
    <2>1. i - 1 \in DOMAIN Tail(q) /\ Tail(q)[i - 1] = q[i]
      BY <1>1, <1>2, <1>5
    <2>2. QED
      BY <2>1 DEF Ids
  <1>6. QED
    BY <1>3, <1>4, <1>5 DEF Ids

\* Retain removes j and keeps the other elements, each once if it was there
\* once: the rank of a kept position is a bijection onto the new positions.
LEMMA RetainRemoves ==
    ASSUME NEW S, NEW q \in Seq(S), NEW j
    PROVE  /\ Retain(q, j) \in Seq(S)
           /\ Ids(Retain(q, j)) = Ids(q) \ {j}
           /\ Distinct(q) => Distinct(Retain(q, j))
  <1> DEFINE kept     == {i \in DOMAIN q : q[i] # j}
             upTo(i)  == {k \in kept : k <= i}
             rank(i)  == Cardinality(upTo(i))
             N        == Cardinality(kept)
             f        == [i \in kept |-> rank(i)]
             at(n)    == CHOOSE i \in kept : rank(i) = n
             r        == [n \in 1..N |-> q[at(n)]]
  <1>1. Retain(q, j) = r
    BY DEF Retain
  <1>2. DOMAIN q = 1..Len(q) /\ Len(q) \in Nat
    OBVIOUS
  <1>3. IsFiniteSet(kept) /\ N \in Nat
    <2>1. IsFiniteSet(1..Len(q)) /\ kept \in SUBSET (1..Len(q))
      BY <1>2, FS_Interval
    <2> HIDE DEF kept
    <2>2. IsFiniteSet(kept)
      BY <2>1, FS_Subset
    <2>3. QED
      BY <2>2, FS_CardinalityType
  <1>4. \A i \in kept : /\ IsFiniteSet(upTo(i)) /\ rank(i) \in Nat
                        /\ rank(i) <= N /\ rank(i) # 0
    <2>1. TAKE i \in kept
    <2>2. upTo(i) \in SUBSET kept /\ i \in upTo(i)
      BY <1>2
    <2>3. IsFiniteSet(upTo(i)) /\ rank(i) <= N
      BY <2>2, <1>3, FS_Subset
    <2>4. QED
      BY <2>2, <2>3, FS_CardinalityType, FS_EmptySet
  <1>5. ASSUME NEW i \in kept, NEW k \in kept, i < k PROVE rank(i) # rank(k)
    <2>1. upTo(i) \in SUBSET upTo(k) /\ k \in upTo(k) /\ k \notin upTo(i)
      BY <1>2, <1>5
    <2>2. QED
      BY <2>1, <1>4, FS_Subset
  <1>6. \A i, k \in kept : rank(i) = rank(k) => i = k
    <2>1. TAKE i, k \in kept
    <2>2. i \in Nat /\ k \in Nat
      BY <1>2
    <2>3. QED
      BY <2>2, <1>5
  <1>7. \A n \in 1..N : \E i \in kept : rank(i) = n
    <2> HIDE DEF kept, upTo, N
    <2>1. f \in [kept -> 1..N]
      BY <1>3, <1>4
    <2>2. f \in Injection(kept, 1..N)
      BY <2>1, <1>6 DEF Injection, IsInjective
    <2>3. IsFiniteSet(1..N) /\ Cardinality(1..N) = N
      BY <1>3, FS_Interval
    <2>4. f \in Surjection(kept, 1..N)
      BY <2>2, <2>3, FS_Injection DEF N
    <2>5. QED
      BY <2>4 DEF Surjection
  <1>8. \A n \in 1..N : at(n) \in kept /\ rank(at(n)) = n
    BY <1>7
  <1>9. \A i \in kept : i \in DOMAIN q /\ q[i] # j
    OBVIOUS
  <1>10. \A i \in DOMAIN q : q[i] # j => i \in kept
    OBVIOUS
  <1> HIDE DEF kept, upTo, rank, N, at
  <1>11. r \in Seq(S) /\ DOMAIN r = 1..N /\ \A n \in 1..N : r[n] = q[at(n)]
    <2>1. \A n \in 1..N : q[at(n)] \in S
      BY <1>8, <1>9
    <2>2. QED
      BY <2>1, <1>3
  <1> HIDE DEF r
  <1>12. Ids(r) = Ids(q) \ {j}
    <2>1. \A n \in 1..N : r[n] \in Ids(q) \ {j}
      BY <1>8, <1>11, <1>9 DEF Ids
    <2>2. ASSUME NEW i \in kept
          PROVE  rank(i) \in 1..N /\ at(rank(i)) = i
      <3>1. rank(i) \in 1..N
        BY <1>3, <1>4
      <3>2. at(rank(i)) \in kept /\ rank(at(rank(i))) = rank(i)
        BY <3>1, <1>8
      <3>3. QED
        BY <3>1, <3>2, <1>6
    <2>3. \A i \in kept : q[i] \in Ids(r)
      BY <2>2, <1>11 DEF Ids
    <2>4. QED
      BY <2>1, <2>3, <1>11, <1>10 DEF Ids
  <1>13. ASSUME Distinct(q) PROVE Distinct(r)
    <2>1. ASSUME NEW m \in 1..N, NEW n \in 1..N, r[m] = r[n] PROVE m = n
      <3>1. at(m) \in kept /\ at(n) \in kept /\ q[at(m)] = q[at(n)]
        BY <2>1, <1>8, <1>11
      <3>2. at(m) = at(n)
        BY <3>1, <1>13, <1>9 DEF Distinct
      <3>3. QED
        BY <3>2, <1>8
    <2>2. QED
      BY <2>1, <1>11 DEF Distinct
  <1>14. QED
    BY <1>1, <1>11, <1>12, <1>13 DEF r, N, at, rank, upTo, kept

----------------------------------------------------------------------------
(* The inductive invariant: the invariants of Scheduler, which lean on each *)
(* other, and one more fact about timers. *)

\* A timer belongs to a download the scheduler has seen, so a new download
\* starts with none.
TimersOfSeenJobs ==
    \A t \in delayed : state[t.id] # "None" \/ result[t.id] # "None"

\* The inductive invariant.  Each conjunct needs another one to survive a step:
\* the types keep `attempt` in bounds, accounts of downloads keep HandleEnqueue
\* from meeting a job that exists, and the match of workers and jobs tells in
\* which states a worker result can find its job.
IInv ==
    /\ TypeOK
    /\ OneWorkerPerLiveJob
    /\ ReadyHoldsQueuedJobs
    /\ OneTimerPerRetry
    /\ TimersOfSeenJobs
    /\ AcksAccountedFor
    /\ DownloadsAccountedFor

\* It holds before the first step.
LEMMA InitIInv == Init => IInv
  <1> SUFFICES ASSUME Init PROVE IInv
    OBVIOUS
  <1>1. TypeOK
    <2>1. delayed \in SUBSET Timer /\ IsFiniteSet(delayed)
          /\ workers \in SUBSET Worker /\ IsFiniteSet(workers)
      BY FS_EmptySet DEF Init
    <2>2. attempt \in [Jobs -> Nat] /\ \A j \in Jobs : attempt[j] <= Retries[j]
      <3>1. \A j \in Jobs : Retries[j] \in Nat
        BY ConfigAssumption
      <3>2. QED
        BY <3>1 DEF Init
    <2>3. /\ limit \in Nat \ {0}
          /\ enqueued \in SUBSET Jobs
          /\ asked \in SUBSET enqueued /\ swept \in SUBSET enqueued
      BY ConfigAssumption DEF Init
    <2>4. /\ call \in [Calls -> Reply \cup {"Idle", "Sent", "Waiting"}]
          /\ result \in [Jobs -> Result \cup {"None"}]
          /\ state \in [Jobs -> JobState \cup {"None"}]
          /\ waiters \in [Jobs -> SUBSET Calls]
          /\ token \in [Jobs -> Nat]
          /\ event \in [Jobs -> EventKind \cup {"None"}]
      BY DEF Init
    <2>5. /\ root \in BOOLEAN /\ closed \in BOOLEAN
          /\ pc \in {"PollStop", "PollCmd", "PollWork", "Dispatch", "Drain", "Done"}
      BY DEF Init
    <2>6. cmds \in Seq(Command) /\ ready \in Seq(Jobs)
      BY DEF Init
    <2>7. QED
      BY <2>1, <2>2, <2>3, <2>4, <2>5, <2>6 DEF TypeOK
  <1>2. OneWorkerPerLiveJob /\ ReadyHoldsQueuedJobs
    BY DEF Init, OneWorkerPerLiveJob, ReadyHoldsQueuedJobs, Live, Ids
  <1>3. OneTimerPerRetry /\ TimersOfSeenJobs
    BY DEF Init, OneTimerPerRetry, TimersOfSeenJobs
  <1>4. AcksAccountedFor
    BY DEF Init, AcksAccountedFor, CommandsOf, HeldBy
  <1>5. DownloadsAccountedFor
    BY DEF Init, DownloadsAccountedFor, Submissions
  <1>6. QED
    BY <1>1, <1>2, <1>3, <1>4, <1>5 DEF IInv

----------------------------------------------------------------------------
(* The helpers *)

\* A queued job has no worker yet: its first token number is free.
LEMMA FreshTokenType ==
    ASSUME TypeOK, OneWorkerPerLiveJob, NEW j \in Jobs, state[j] = "Queued"
    PROVE  FreshToken(j) \in Nat
  <1>1. Cardinality(workers) \in Nat
    BY FS_CardinalityType DEF TypeOK
  <1>2. \A w \in workers : w.id # j
    BY DEF OneWorkerPerLiveJob, Live
  <1>3. \E t \in 0..Cardinality(workers) : \A w \in workers : w.id = j => w.tok # t
    BY <1>1, <1>2
  <1>4. FreshToken(j) \in 0..Cardinality(workers)
    BY <1>3 DEF FreshToken
  <1>5. QED
    BY <1>1, <1>4

\* No timer of j is ahead of j: the number of the next one is free.
LEMMA FreshTimerType ==
    ASSUME TypeOK, OneTimerPerRetry, NEW j \in Jobs
    PROVE  FreshTimer(j, attempt[j] + 1) \in Nat
  <1>1. Cardinality(delayed) \in Nat
    BY FS_CardinalityType DEF TypeOK
  <1>2. [id |-> j, attempt |-> attempt[j] + 1, n |-> 0] \notin delayed
    <2> DEFINE t == [id |-> j, attempt |-> attempt[j] + 1, n |-> 0]
    <2>1. attempt[j] \in Nat /\ t.id = j /\ t.attempt = attempt[j] + 1
      BY DEF TypeOK
    <2>2. t \in delayed => t.attempt <= attempt[t.id]
      BY DEF OneTimerPerRetry
    <2>3. QED
      BY <2>1, <2>2
  <1>3. \E n \in 0..Cardinality(delayed) :
            [id |-> j, attempt |-> attempt[j] + 1, n |-> n] \notin delayed
    BY <1>1, <1>2
  <1>4. FreshTimer(j, attempt[j] + 1) \in 0..Cardinality(delayed)
    BY <1>3 DEF FreshTimer
  <1>5. QED
    BY <1>1, <1>4

\* Cancelling stop tokens changes nothing else about the workers.
LEMMA StopWorkersFacts ==
    ASSUME TypeOK, NEW S
    PROVE  /\ StopWorkers(S) \in SUBSET Worker
           /\ IsFiniteSet(StopWorkers(S))
           /\ \A w \in workers : \E v \in StopWorkers(S) : v.id = w.id
           /\ \A v \in StopWorkers(S) : \E w \in workers :
                 /\ v.id = w.id /\ v.tok = w.tok
                 /\ w.stop => v.stop
                 /\ w.id \in S /\ w.tok = token[w.id] => v.stop
           /\ (\A v, w \in workers : v.id = w.id => v = w)
                => \A v, w \in StopWorkers(S) : v.id = w.id => v = w
  <1> DEFINE f == [w \in workers |->
                     IF w.id \in S /\ w.tok = token[w.id]
                     THEN [w EXCEPT !.stop = TRUE] ELSE w]
  <1>1. StopWorkers(S) = {f[w] : w \in workers}
    BY DEF StopWorkers
  <1>2. \A w \in workers :
          /\ f[w] \in Worker
          /\ f[w].id = w.id /\ f[w].tok = w.tok
          /\ w.stop => f[w].stop
          /\ w.id \in S /\ w.tok = token[w.id] => f[w].stop
    BY DEF TypeOK, Worker
  <1> HIDE DEF f
  <1>3. IsFiniteSet(StopWorkers(S))
    <2>1. IsFiniteSet(workers)
      BY DEF TypeOK
    <2>2. f \in Surjection(workers, StopWorkers(S))
      BY <1>1 DEF Surjection, f
    <2>3. QED
      BY <2>1, <2>2, FS_Surjection
  <1>4. QED
    BY <1>1, <1>2, <1>3

----------------------------------------------------------------------------
(* Type correctness *)

\* Answering acks keeps the type of `call`.
LEMMA AnswerType ==
    ASSUME call \in [Calls -> Reply \cup {"Idle", "Sent", "Waiting"}],
           NEW C, NEW r \in Reply
    PROVE  Answer(C, r) \in [Calls -> Reply \cup {"Idle", "Sent", "Waiting"}]
  BY DEF Answer

\* Job::finalize keeps the types of what it assigns.
LEMMA FinalizeType ==
    ASSUME TypeOK, NEW j \in Jobs, NEW r \in Result, Finalize(j, r)
    PROVE  /\ state' \in [Jobs -> JobState \cup {"None"}]
           /\ call' \in [Calls -> Reply \cup {"Idle", "Sent", "Waiting"}]
           /\ waiters' \in [Jobs -> SUBSET Calls]
           /\ event' \in [Jobs -> EventKind \cup {"None"}]
           /\ result' \in [Jobs -> Result \cup {"None"}]
  <1>1. TerminalEvent(r) \in EventKind
    BY DEF TerminalEvent, EventKind
  <1>2. call' \in [Calls -> Reply \cup {"Idle", "Sent", "Waiting"}]
    BY AnswerType DEF TypeOK, Finalize, Reply
  <1>3. QED
    BY <1>1, <1>2 DEF TypeOK, Finalize

\* Job::pause keeps the types of what it assigns.
LEMMA PauseJobType ==
    ASSUME TypeOK, NEW j \in Jobs, NEW C, PauseJob(j, C)
    PROVE  /\ state' \in [Jobs -> JobState \cup {"None"}]
           /\ call' \in [Calls -> Reply \cup {"Idle", "Sent", "Waiting"}]
           /\ waiters' \in [Jobs -> SUBSET Calls]
           /\ event' \in [Jobs -> EventKind \cup {"None"}]
  <1>1. call' \in [Calls -> Reply \cup {"Idle", "Sent", "Waiting"}]
    BY AnswerType DEF TypeOK, PauseJob, Reply, Result
  <1>2. QED
    BY <1>1 DEF TypeOK, PauseJob, JobState, EventKind

\* Queueing a job keeps the types of what it assigns.
LEMMA RequeueType ==
    ASSUME TypeOK, NEW j \in Jobs, Requeue(j)
    PROVE  /\ state' \in [Jobs -> JobState \cup {"None"}]
           /\ ready' \in Seq(Jobs)
           /\ event' \in [Jobs -> EventKind \cup {"None"}]
  BY DEF TypeOK, Requeue, JobState, EventKind

\* Cancelling a set of jobs keeps the types of what it assigns.
LEMMA CancelJobsType ==
    ASSUME TypeOK, NEW S \in SUBSET Jobs, CancelJobs(S)
    PROVE  /\ state' \in [Jobs -> JobState \cup {"None"}]
           /\ result' \in [Jobs -> Result \cup {"None"}]
           /\ event' \in [Jobs -> EventKind \cup {"None"}]
           /\ workers' \in SUBSET Worker /\ IsFiniteSet(workers')
           /\ call' \in [Calls -> Reply \cup {"Idle", "Sent", "Waiting"}]
           /\ waiters' \in [Jobs -> SUBSET Calls]
           /\ UNCHANGED <<attempt, token>>
  <1> DEFINE idle == {j \in S : state[j] \in Idle}
             live == {j \in S : state[j] \in {"Running", "Pausing"}}
  <1>1. PICK r \in [idle -> {"Cancelled", "Io"}] :
          /\ state' = [j \in Jobs |-> IF j \in idle THEN "None"
                                      ELSE IF j \in live THEN "Cancelling"
                                      ELSE state[j]]
          /\ result' = [j \in Jobs |-> IF j \in idle THEN r[j] ELSE result[j]]
          /\ event' = [j \in Jobs |-> IF j \in idle THEN TerminalEvent(r[j])
                                      ELSE IF j \in live THEN "CancellationStarted"
                                      ELSE event[j]]
          /\ workers' = StopWorkers({j \in S : state[j] = "Running"})
          /\ call' = Answer(UNION {waiters[j] : j \in live}, "Cancelled")
          /\ waiters' = [j \in Jobs |-> IF j \in live THEN {} ELSE waiters[j]]
          /\ UNCHANGED <<attempt, token>>
    BY DEF CancelJobs
  <1> HIDE DEF idle, live
  <1>2. state' \in [Jobs -> JobState \cup {"None"}]
    BY <1>1 DEF TypeOK, JobState
  <1>3. result' \in [Jobs -> Result \cup {"None"}]
    BY <1>1 DEF TypeOK, Result, JobError
  <1>4. event' \in [Jobs -> EventKind \cup {"None"}]
    BY <1>1 DEF TypeOK, EventKind, TerminalEvent
  <1>5. workers' \in SUBSET Worker /\ IsFiniteSet(workers')
    BY <1>1, StopWorkersFacts
  <1>6. call' \in [Calls -> Reply \cup {"Idle", "Sent", "Waiting"}]
    BY <1>1, AnswerType DEF TypeOK, Reply, Result, JobError
  <1>7. waiters' \in [Jobs -> SUBSET Calls]
    BY <1>1 DEF TypeOK
  <1>8. QED
    BY <1>1, <1>2, <1>3, <1>4, <1>5, <1>6, <1>7

\* Every step keeps the types; a retry is scheduled only within the budget.
LEMMA TypeStep ==
    ASSUME IInv, [Next]_vars
    PROVE  TypeOK'
  <1> USE DEF IInv
  <1>1. ASSUME UNCHANGED vars PROVE TypeOK'
    BY <1>1 DEF TypeOK, vars
  <1>2. ASSUME NEW cmd \in Command, Send(cmd) PROVE cmds' \in Seq(Command)
    BY <1>2 DEF TypeOK, Send
  <1>3. ASSUME NEW j \in Jobs, Enqueue(j) PROVE TypeOK'
    <2>1. [op |-> "Enqueue", id |-> j] \in Command
      BY DEF Command
    <2>2. cmds' \in Seq(Command)
      BY <1>2, <1>3, <2>1 DEF Enqueue
    <2>3. QED
      BY <1>3, <2>2 DEF Enqueue, Send, TypeOK
  <1>4. ASSUME NEW c \in Calls, NEW j \in Jobs, CallPause(c, j) PROVE TypeOK'
    <2>1. [op |-> "Pause", id |-> j, ack |-> c] \in Command
      BY DEF Command
    <2>2. cmds' \in Seq(Command)
      BY <1>2, <1>4, <2>1 DEF CallPause
    <2>3. QED
      BY <1>4, <2>2 DEF CallPause, Send, TypeOK
  <1>5. ASSUME NEW c \in Calls, NEW j \in Jobs, CallResume(c, j) PROVE TypeOK'
    <2>1. [op |-> "Resume", id |-> j, ack |-> c] \in Command
      BY DEF Command
    <2>2. cmds' \in Seq(Command)
      BY <1>2, <1>5, <2>1 DEF CallResume
    <2>3. QED
      BY <1>5, <2>2 DEF CallResume, Send, TypeOK
  <1>6. ASSUME NEW c \in Calls, NEW j \in Jobs, CallCancel(c, j) PROVE TypeOK'
    <2>1. [op |-> "Cancel", id |-> j] \in Command
      BY DEF Command
    <2>2. cmds' \in Seq(Command)
      BY <1>2, <1>6, <2>1 DEF CallCancel
    <2>3. QED
      BY <1>6, <2>2 DEF CallCancel, Send, TypeOK
  <1>7. ASSUME NEW c \in Calls, CallCancelAll(c) PROVE TypeOK'
    <2>1. [op |-> "CancelAll"] \in Command
      BY DEF Command
    <2>2. cmds' \in Seq(Command)
      BY <1>2, <1>7, <2>1 DEF CallCancelAll
    <2>3. QED
      BY <1>7, <2>2 DEF CallCancelAll, Send, TypeOK
  <1>8. ASSUME NEW c \in Calls, NEW n \in Limits, CallSetMaxConcurrent(c, n)
        PROVE  TypeOK'
    <2>1. [op |-> "SetMaxConcurrent", max |-> n] \in Command
      BY DEF Command
    <2>2. cmds' \in Seq(Command)
      BY <1>2, <1>8, <2>1 DEF CallSetMaxConcurrent
    <2>3. QED
      BY <1>8, <2>2 DEF CallSetMaxConcurrent, Send, TypeOK
  <1>9. ASSUME NEW c \in Calls, CallRefused(c) PROVE TypeOK'
    BY <1>9 DEF CallRefused, clientVars, TypeOK, Reply
  <1>10. ASSUME CancelRoot PROVE TypeOK'
    BY <1>10 DEF CancelRoot, TypeOK
  <1>11. ASSUME PollStop \/ PollNoCmd \/ Wake \/ DispatchOver \/ Finish
         PROVE  TypeOK'
    BY <1>11 DEF PollStop, PollNoCmd, Wake, DispatchOver, Finish, clientVars, TypeOK
  <1>12. ASSUME Stop PROVE TypeOK'
    <2>1. CancelJobs(Jobs) /\ ready' = <<>> /\ delayed' = {}
      BY <1>12 DEF Stop, CancelAllJobs
    <2>2. ready' \in Seq(Jobs) /\ delayed' \in SUBSET Timer /\ IsFiniteSet(delayed')
      BY <2>1, FS_EmptySet
    <2>3. QED
      BY <1>12, <2>1, <2>2, CancelJobsType DEF Stop, TypeOK
  <1>13. ASSUME NEW op, Receive(op)
         PROVE  /\ Head(cmds) \in Command /\ cmds # <<>>
                /\ cmds' \in Seq(Command) /\ pc' = "Dispatch"
                /\ Head(cmds).op = op
                /\ UNCHANGED <<root, closed, enqueued, asked, swept>>
    BY <1>13 DEF Receive, AfterItem, TypeOK
  <1>14. ASSUME NEW m \in Command
         PROVE  /\ m.op \in {"Enqueue", "Cancel", "Pause", "Resume"} => m.id \in Jobs
                /\ m.op \in {"Pause", "Resume"} => m.ack \in Calls
                /\ m.op = "SetMaxConcurrent" => m.max \in Limits
    BY DEF Command
  <1>15. ASSUME HandleEnqueue PROVE TypeOK'
    <2> DEFINE j == Head(cmds).id
    <2>1. Receive("Enqueue") /\ j \in Jobs /\ Requeue(j)
      BY <1>13, <1>14, <1>15 DEF HandleEnqueue
    <2>2. attempt' \in [Jobs -> Nat] /\ \A k \in Jobs : attempt'[k] <= Retries[k]
      <3>1. \A k \in Jobs : Retries[k] \in Nat
        BY ConfigAssumption
      <3>2. attempt' = [attempt EXCEPT ![j] = 0]
        BY <1>15 DEF HandleEnqueue
      <3>3. QED
        BY <3>1, <3>2, <2>1 DEF TypeOK
    <2>3. QED
      BY <1>15, <2>1, <2>2, <1>13, RequeueType DEF HandleEnqueue, TypeOK
  <1>16. ASSUME HandlePause PROVE TypeOK'
    <2> DEFINE j == Head(cmds).id
               c == Head(cmds).ack
    <2>1. Receive("Pause") /\ j \in Jobs /\ c \in Calls
      BY <1>13, <1>14, <1>16 DEF HandlePause
    <2>2. PauseIdle(j, c) \/ PauseRunning(j, c) \/ PausePausing(j, c) \/ PauseAnswered(j, c)
      BY <1>16 DEF HandlePause
    <2>3. UNCHANGED <<result, limit, attempt, token, delayed>>
      BY <1>16 DEF HandlePause
    <2> SUFFICES /\ state' \in [Jobs -> JobState \cup {"None"}]
                 /\ call' \in [Calls -> Reply \cup {"Idle", "Sent", "Waiting"}]
                 /\ waiters' \in [Jobs -> SUBSET Calls]
                 /\ event' \in [Jobs -> EventKind \cup {"None"}]
                 /\ ready' \in Seq(Jobs)
                 /\ workers' \in SUBSET Worker /\ IsFiniteSet(workers')
      BY <2>1, <2>3, <1>13 DEF TypeOK
    <2> HIDE DEF j, c
    <2>4. CASE PauseIdle(j, c)
      <3>1. ready' \in Seq(Jobs)
        BY <2>4, RetainRemoves DEF PauseIdle, TypeOK
      <3>2. QED
        BY <2>4, <2>1, <3>1, PauseJobType DEF PauseIdle, TypeOK
    <2>5. CASE PauseRunning(j, c)
      <3>1. workers' \in SUBSET Worker /\ IsFiniteSet(workers')
        BY <2>5, StopWorkersFacts DEF PauseRunning
      <3>2. QED
        BY <2>5, <2>1, <3>1 DEF PauseRunning, TypeOK, JobState, EventKind
    <2>6. CASE PausePausing(j, c)
      BY <2>6, <2>1 DEF PausePausing, TypeOK
    <2>7. CASE PauseAnswered(j, c)
      <3>1. \E r \in Reply : call' = Answer({c}, r)
        BY <2>7 DEF PauseAnswered, Reply, Result, JobError
      <3>2. QED
        BY <2>7, <3>1, AnswerType DEF PauseAnswered, TypeOK
    <2>8. QED
      BY <2>2, <2>4, <2>5, <2>6, <2>7
  <1>17. ASSUME HandleResume PROVE TypeOK'
    <2> DEFINE j == Head(cmds).id
               c == Head(cmds).ack
    <2>1. Receive("Resume") /\ j \in Jobs /\ c \in Calls
      BY <1>13, <1>14, <1>17 DEF HandleResume
    <2>2. ResumePaused(j, c) \/ ResumeAnswered(j, c)
      BY <1>17 DEF HandleResume
    <2>3. UNCHANGED <<result, limit, attempt, waiters, token, delayed, workers>>
      BY <1>17 DEF HandleResume
    <2> HIDE DEF j, c
    <2>4. CASE ResumePaused(j, c)
      <3>1. call' \in [Calls -> Reply \cup {"Idle", "Sent", "Waiting"}]
        BY <2>4, AnswerType DEF ResumePaused, Reply, Result, TypeOK
      <3>2. QED
        BY <2>1, <2>3, <2>4, <3>1, <1>13, RequeueType DEF ResumePaused, TypeOK
    <2>5. CASE ResumeAnswered(j, c)
      <3>1. \E r \in Reply : call' = Answer({c}, r)
        BY <2>5 DEF ResumeAnswered, Reply, Result, JobError
      <3>2. call' \in [Calls -> Reply \cup {"Idle", "Sent", "Waiting"}]
        BY <3>1, AnswerType DEF TypeOK
      <3>3. QED
        BY <2>1, <2>3, <2>5, <3>2, <1>13 DEF ResumeAnswered, TypeOK
    <2>6. QED
      BY <2>2, <2>4, <2>5
  <1>18. ASSUME HandleCancel PROVE TypeOK'
    <2> DEFINE j == Head(cmds).id
    <2>1. Receive("Cancel") /\ j \in Jobs /\ CancelJobs({j})
      BY <1>13, <1>14, <1>18 DEF HandleCancel
    <2>2. ready' \in Seq(Jobs)
      BY <1>18, RetainRemoves DEF HandleCancel, TypeOK
    <2>3. UNCHANGED <<limit, delayed>>
      BY <1>18 DEF HandleCancel
    <2> HIDE DEF j
    <2>4. QED
      BY <2>1, <2>2, <2>3, <1>13, CancelJobsType DEF TypeOK
  <1>19. ASSUME HandleCancelAll PROVE TypeOK'
    <2>1. CancelJobs(Jobs) /\ ready' = <<>> /\ delayed' = {} /\ limit' = limit
      BY <1>19 DEF HandleCancelAll, CancelAllJobs
    <2>2. ready' \in Seq(Jobs) /\ delayed' \in SUBSET Timer /\ IsFiniteSet(delayed')
      BY <2>1, FS_EmptySet
    <2>3. QED
      BY <1>19, <2>1, <2>2, <1>13, CancelJobsType DEF HandleCancelAll, TypeOK
  <1>20. ASSUME HandleSetMaxConcurrent PROVE TypeOK'
    <2>1. Receive("SetMaxConcurrent") /\ limit' \in Nat \ {0}
      BY <1>13, <1>14, <1>20, ConfigAssumption DEF HandleSetMaxConcurrent
    <2>2. QED
      BY <1>20, <2>1, <1>13 DEF HandleSetMaxConcurrent, TypeOK
  <1>21. ASSUME DispatchJob PROVE TypeOK'
    <2> DEFINE j == Head(ready)
               t == FreshToken(j)
    <2>1. ready # <<>> /\ j \in Jobs /\ ready' = Tail(ready) /\ ready' \in Seq(Jobs)
      BY <1>21 DEF DispatchJob, CanDispatch, TypeOK
    <2>2. CASE state[j] = "Queued"
      <3>1. t \in Nat
        BY <2>1, <2>2, FreshTokenType
      <3>2. [id |-> j, tok |-> t, stop |-> FALSE] \in Worker
        BY <2>1, <3>1 DEF Worker
      <3>3. /\ state' = [state EXCEPT ![j] = "Running"]
            /\ token' = [token EXCEPT ![j] = t]
            /\ workers' = workers \cup {[id |-> j, tok |-> t, stop |-> FALSE]}
            /\ event' = [event EXCEPT ![j] = "Started"]
            /\ UNCHANGED <<clientVars, call, result, pc, limit, attempt, waiters, delayed>>
        BY <1>21, <2>2 DEF DispatchJob
      <3> HIDE DEF j, t
      <3>4. workers' \in SUBSET Worker /\ IsFiniteSet(workers')
        BY <3>2, <3>3, FS_AddElement DEF TypeOK
      <3>5. QED
        BY <2>1, <3>1, <3>3, <3>4 DEF TypeOK, clientVars, JobState, EventKind
    <2>3. CASE state[j] # "Queued"
      BY <1>21, <2>1, <2>3 DEF DispatchJob, TypeOK, clientVars
    <2>4. QED
      BY <2>2, <2>3
  <1>22. ASSUME DispatchAbandoned PROVE TypeOK'
    BY <1>22 DEF DispatchAbandoned, CanDispatch, clientVars, TypeOK
  <1>23. ASSUME NEW w \in workers, WorkerReturns(w)
         PROVE  /\ w.id \in Jobs
                /\ workers' \in SUBSET Worker /\ IsFiniteSet(workers')
                /\ pc' \in {"Drain", "Dispatch"}
                /\ UNCHANGED <<clientVars, limit, token, ready>>
    BY <1>23, FS_RemoveElement DEF WorkerReturns, AfterItem, TypeOK, Worker
  <1>24. ASSUME NEW w \in workers, WorkerReturns(w),
                NEW r \in Result, Finalize(w.id, r), UNCHANGED <<attempt, delayed>>
         PROVE  TypeOK'
    BY <1>23, <1>24, FinalizeType DEF TypeOK, clientVars
  <1>25. ASSUME NEW w \in workers, WorkerReturns(w),
                UNCHANGED <<call, result, state, waiters, event, attempt, delayed>>
         PROVE  TypeOK'
    BY <1>23, <1>25 DEF TypeOK, clientVars
  <1>26. ASSUME NEW w \in workers, WorkerFinished(w) PROVE TypeOK'
    <2>1. "Ok" \in Result
      BY DEF Result
    <2>2. QED
      BY <1>24, <1>25, <1>26, <2>1 DEF WorkerFinished
  <1>27. ASSUME NEW w \in workers, WorkerReturns(w), CancelJob(w.id),
                UNCHANGED <<attempt, delayed>>
         PROVE  TypeOK'
    BY <1>24, <1>27 DEF CancelJob, Result, JobError
  <1>28. ASSUME NEW w \in workers, WorkerStopped(w) PROVE TypeOK'
    <2>1. WorkerReturns(w) /\ UNCHANGED <<attempt, delayed>>
      BY <1>28 DEF WorkerStopped
    <2>2. \/ CancelJob(w.id)
          \/ PauseJob(w.id, {}) /\ UNCHANGED result
          \/ UNCHANGED <<call, result, state, waiters, event>>
          \/ Finalize(w.id, "Unknown")
      BY <1>28 DEF WorkerStopped
    <2>3. CASE PauseJob(w.id, {}) /\ UNCHANGED result
      BY <2>1, <2>3, <1>23, PauseJobType DEF TypeOK, clientVars
    <2>4. CASE Finalize(w.id, "Unknown")
      BY <2>1, <2>4, <1>24 DEF Result, JobError
    <2>5. QED
      BY <2>1, <2>2, <2>3, <2>4, <1>25, <1>27
  <1>29. ASSUME NEW j \in Jobs, RetriesLeft(j), attempt' = [attempt EXCEPT ![j] = NextAttempt(j)]
         PROVE  attempt' \in [Jobs -> Nat] /\ \A k \in Jobs : attempt'[k] <= Retries[k]
    <2>1. \A k \in Jobs : Retries[k] \in Nat
      BY ConfigAssumption
    <2>2. QED
      BY <1>29, <2>1 DEF RetriesLeft, NextAttempt, TypeOK
  <1>30. ASSUME NEW w \in workers, WorkerFailed(w) PROVE TypeOK'
    <2>1. WorkerReturns(w)
      BY <1>30 DEF WorkerFailed
    <2>2. \/ UNCHANGED <<call, result, state, attempt, waiters, delayed, event>>
          \/ CancelJob(w.id) /\ UNCHANGED <<attempt, delayed>>
          \/ Finalize(w.id, "Retryable") /\ UNCHANGED <<attempt, delayed>>
          \/ RetriesLeft(w.id) /\ PauseAfterFailure(w.id)
          \/ RetriesLeft(w.id) /\ Retry(w.id)
      BY <1>30 DEF WorkerFailed
    <2>3. CASE Finalize(w.id, "Retryable") /\ UNCHANGED <<attempt, delayed>>
      BY <2>1, <2>3, <1>24 DEF Result, JobError
    <2>4. CASE RetriesLeft(w.id) /\ PauseAfterFailure(w.id)
      BY <2>1, <2>4, <1>23, <1>29, PauseJobType DEF PauseAfterFailure, TypeOK, clientVars
    <2>5. CASE RetriesLeft(w.id) /\ Retry(w.id)
      <3> DEFINE t == [id |-> w.id, attempt |-> attempt[w.id] + 1,
                       n |-> FreshTimer(w.id, attempt[w.id] + 1)]
      <3>1. t \in Timer
        BY <2>1, <1>23, FreshTimerType DEF TypeOK, Timer
      <3>2. delayed' = delayed \cup {t}
        BY <2>5 DEF Retry, NextAttempt
      <3>3. delayed' \in SUBSET Timer /\ IsFiniteSet(delayed')
        <4> HIDE DEF t
        <4> QED BY <3>1, <3>2, FS_AddElement DEF TypeOK
      <3>4. /\ state' = [state EXCEPT ![w.id] = "Retrying"]
            /\ event' = [event EXCEPT ![w.id] = "RetryScheduled"]
            /\ attempt' = [attempt EXCEPT ![w.id] = NextAttempt(w.id)]
            /\ UNCHANGED <<call, result, waiters>>
        BY <2>5 DEF Retry
      <3>5. QED
        BY <2>1, <2>5, <3>3, <3>4, <1>23, <1>29 DEF TypeOK, clientVars, JobState, EventKind
    <2>6. QED
      BY <2>1, <2>2, <2>3, <2>4, <2>5, <1>25, <1>27
  <1>31. ASSUME NEW w \in workers, WorkerFatal(w) PROVE TypeOK'
    <2>1. WorkerReturns(w) /\ UNCHANGED <<attempt, delayed>>
      BY <1>31 DEF WorkerFatal
    <2>2. \/ UNCHANGED <<call, result, state, waiters, event>>
          \/ CancelJob(w.id)
          \/ Finalize(w.id, "Fatal")
      BY <1>31 DEF WorkerFatal
    <2>3. CASE Finalize(w.id, "Fatal")
      BY <2>1, <2>3, <1>24 DEF Result, JobError
    <2>4. QED
      BY <2>1, <2>2, <2>3, <1>25, <1>27
  <1>32. ASSUME NEW t \in delayed, RetryElapsed(t) PROVE TypeOK'
    <2>1. /\ t.id \in Jobs
          /\ delayed' \in SUBSET Timer /\ IsFiniteSet(delayed')
          /\ pc' = "Dispatch"
          /\ UNCHANGED <<clientVars, call, result, limit, attempt, waiters, token, workers>>
      BY <1>32, FS_RemoveElement DEF RetryElapsed, AfterItem, TypeOK, Timer
    <2>2. Requeue(t.id) \/ UNCHANGED <<state, ready, event>>
      BY <1>32 DEF RetryElapsed
    <2>3. QED
      BY <2>1, <2>2, RequeueType DEF TypeOK, clientVars
  <1>33. QED
    BY <1>1, <1>3, <1>4, <1>5, <1>6, <1>7, <1>8, <1>9, <1>10, <1>11, <1>12, <1>15,
       <1>16, <1>17, <1>18, <1>19, <1>20, <1>21, <1>22, <1>26, <1>28, <1>30, <1>31,
       <1>32
       DEF Next, ClientStep, ThreadStep, WorkerStep

----------------------------------------------------------------------------
(* Downloads are accounted for *)

\* No job enters the map; one that leaves it gets its result.
MapKept ==
    \A j \in Jobs :
        \/ (state'[j] = "None" <=> state[j] = "None") /\ result'[j] = result[j]
        \/ state[j] # "None" /\ state'[j] = "None" /\ result'[j] # "None"

\* Job::finalize answers the job it takes out of the map.
LEMMA FinalizeMap ==
    ASSUME TypeOK, NEW j \in Jobs, state[j] # "None", NEW r \in Result, Finalize(j, r)
    PROVE  MapKept
  BY DEF MapKept, TypeOK, Finalize, Result, JobError

\* A cancellation answers the jobs it takes out of the map.
LEMMA CancelJobsMap ==
    ASSUME TypeOK, NEW S \in SUBSET Jobs, CancelJobs(S)
    PROVE  MapKept
  <1> DEFINE idle == {j \in S : state[j] \in Idle}
             live == {j \in S : state[j] \in {"Running", "Pausing"}}
  <1>1. PICK r \in [idle -> {"Cancelled", "Io"}] :
          /\ state' = [j \in Jobs |-> IF j \in idle THEN "None"
                                      ELSE IF j \in live THEN "Cancelling"
                                      ELSE state[j]]
          /\ result' = [j \in Jobs |-> IF j \in idle THEN r[j] ELSE result[j]]
    BY DEF CancelJobs
  <1>2. \A j \in idle : state[j] # "None" /\ r[j] # "None"
    BY DEF Idle
  <1>3. \A j \in live : state[j] # "None"
    OBVIOUS
  <1> HIDE DEF idle, live
  <1>4. QED
    BY <1>1, <1>2, <1>3 DEF MapKept

\* Every handler but that of Enqueue puts the job it took out of the map back,
\* or answers it.
LEMMA MapStep ==
    ASSUME TypeOK, Next, ~HandleEnqueue
    PROVE  MapKept
  <1>1. ASSUME UNCHANGED <<state, result>> PROVE MapKept
    BY <1>1 DEF MapKept
  <1>2. CASE ClientStep
    BY <1>1, <1>2 DEF ClientStep, Send, Enqueue, CallPause, CallResume, CallCancel,
                      CallCancelAll, CallSetMaxConcurrent, CallRefused, CancelRoot
  <1>3. CASE PollStop \/ PollNoCmd \/ Wake \/ DispatchAbandoned \/ DispatchOver
             \/ Finish \/ HandleSetMaxConcurrent
    BY <1>1, <1>3 DEF PollStop, PollNoCmd, Wake, DispatchAbandoned, DispatchOver,
                      Finish, HandleSetMaxConcurrent
  <1>4. CASE Stop \/ HandleCancelAll
    BY <1>4, CancelJobsMap DEF Stop, HandleCancelAll, CancelAllJobs
  <1>5. ASSUME NEW op \in {"Pause", "Resume", "Cancel"}, Receive(op)
        PROVE  Head(cmds).id \in Jobs
    <2>1. Head(cmds) \in Command /\ Head(cmds).op = op
      BY <1>5 DEF Receive, TypeOK
    <2>2. QED
      BY <2>1 DEF Command
  <1>6. CASE HandleCancel
    <2>1. Head(cmds).id \in Jobs /\ CancelJobs({Head(cmds).id})
      BY <1>5, <1>6 DEF HandleCancel
    <2>2. QED
      BY <2>1, CancelJobsMap
  <1>7. CASE HandlePause
    <2> DEFINE j == Head(cmds).id
               c == Head(cmds).ack
    <2>1. /\ j \in Jobs /\ result' = result
          /\ PauseIdle(j, c) \/ PauseRunning(j, c) \/ PausePausing(j, c) \/ PauseAnswered(j, c)
      BY <1>5, <1>7 DEF HandlePause
    <2> HIDE DEF j, c
    <2>2. QED
      BY <2>1 DEF PauseIdle, PauseJob, PauseRunning, PausePausing, PauseAnswered,
                  MapKept, TypeOK
  <1>8. CASE HandleResume
    <2> DEFINE j == Head(cmds).id
               c == Head(cmds).ack
    <2>1. /\ j \in Jobs /\ result' = result
          /\ ResumePaused(j, c) \/ ResumeAnswered(j, c)
      BY <1>5, <1>8 DEF HandleResume
    <2> HIDE DEF j, c
    <2>2. QED
      BY <2>1 DEF ResumePaused, Requeue, ResumeAnswered, MapKept, TypeOK
  <1>9. CASE DispatchJob
    BY <1>9 DEF DispatchJob, CanDispatch, MapKept, TypeOK
  <1>10. ASSUME NEW w \in workers PROVE w.id \in Jobs
    BY DEF TypeOK, Worker
  <1>11. ASSUME NEW w \in workers, state[w.id] # "None", CancelJob(w.id)
         PROVE  MapKept
    BY <1>10, <1>11, FinalizeMap DEF CancelJob, Result, JobError
  <1>12. ASSUME NEW w \in workers, WorkerFinished(w) PROVE MapKept
    <2>1. "Ok" \in Result
      BY DEF Result
    <2>2. QED
      BY <2>1, <1>1, <1>10, <1>12, FinalizeMap DEF WorkerFinished
  <1>13. ASSUME NEW w \in workers, WorkerStopped(w) PROVE MapKept
    <2>1. \/ state[w.id] # "None" /\ CancelJob(w.id)
          \/ state[w.id] # "None" /\ PauseJob(w.id, {}) /\ UNCHANGED result
          \/ UNCHANGED <<call, result, state, waiters, event>>
          \/ state[w.id] # "None" /\ Finalize(w.id, "Unknown")
      BY <1>13 DEF WorkerStopped
    <2>2. CASE state[w.id] # "None" /\ PauseJob(w.id, {}) /\ UNCHANGED result
      BY <2>2, <1>10 DEF PauseJob, MapKept, TypeOK
    <2>3. CASE state[w.id] # "None" /\ Finalize(w.id, "Unknown")
      BY <2>3, <1>10, FinalizeMap DEF Result, JobError
    <2>4. QED
      BY <2>1, <2>2, <2>3, <1>1, <1>11
  <1>14. ASSUME NEW w \in workers, WorkerFailed(w) PROVE MapKept
    <2>1. \/ UNCHANGED <<call, result, state, attempt, waiters, delayed, event>>
          \/ state[w.id] # "None" /\ CancelJob(w.id)
          \/ state[w.id] # "None" /\ Finalize(w.id, "Retryable")
          \/ state[w.id] # "None" /\ PauseAfterFailure(w.id)
          \/ state[w.id] # "None" /\ Retry(w.id)
      BY <1>14 DEF WorkerFailed
    <2>2. CASE state[w.id] # "None" /\ Finalize(w.id, "Retryable")
      BY <2>2, <1>10, FinalizeMap DEF Result, JobError
    <2>3. CASE state[w.id] # "None" /\ PauseAfterFailure(w.id)
      BY <2>3, <1>10 DEF PauseAfterFailure, PauseJob, MapKept, TypeOK
    <2>4. CASE state[w.id] # "None" /\ Retry(w.id)
      BY <2>4, <1>10 DEF Retry, MapKept, TypeOK
    <2>5. QED
      BY <2>1, <2>2, <2>3, <2>4, <1>1, <1>11
  <1>15. ASSUME NEW w \in workers, WorkerFatal(w) PROVE MapKept
    <2>1. \/ UNCHANGED <<call, result, state, waiters, event>>
          \/ state[w.id] # "None" /\ CancelJob(w.id)
          \/ state[w.id] # "None" /\ Finalize(w.id, "Fatal")
      BY <1>15 DEF WorkerFatal
    <2>2. CASE state[w.id] # "None" /\ Finalize(w.id, "Fatal")
      BY <2>2, <1>10, FinalizeMap DEF Result, JobError
    <2>3. QED
      BY <2>1, <2>2, <1>1, <1>11
  <1>16. ASSUME NEW t \in delayed, RetryElapsed(t) PROVE MapKept
    <2>1. t.id \in Jobs /\ result' = result
      BY <1>16 DEF RetryElapsed, TypeOK, Timer
    <2>2. QED
      BY <2>1, <1>16 DEF RetryElapsed, TimerMatches, Requeue, MapKept, TypeOK
  <1>17. QED
    BY <1>2, <1>3, <1>4, <1>6, <1>7, <1>8, <1>9, <1>12, <1>13, <1>14, <1>15, <1>16
       DEF Next, ThreadStep, WorkerStep

\* What a step does to the channel.
LEMMA CmdsStep ==
    ASSUME TypeOK, Next
    PROVE  \/ UNCHANGED <<cmds, enqueued>>
           \/ \E m \in Command : /\ m.op # "Enqueue" /\ cmds' = Append(cmds, m)
                                 /\ enqueued' = enqueued
           \/ \E j \in Jobs : Enqueue(j)
           \/ /\ cmds # <<>> /\ Head(cmds).op # "Enqueue" /\ cmds' = Tail(cmds)
              /\ enqueued' = enqueued
           \/ HandleEnqueue
  <1> DEFINE Sent == \E m \in Command : /\ m.op # "Enqueue" /\ cmds' = Append(cmds, m)
                                       /\ enqueued' = enqueued
  <1>1. ASSUME NEW c \in Calls, NEW j \in Jobs,
               CallPause(c, j) \/ CallResume(c, j) \/ CallCancel(c, j)
        PROVE  Sent
    <2>1. PICK m \in {[op |-> "Pause", id |-> j, ack |-> c],
                      [op |-> "Resume", id |-> j, ack |-> c],
                      [op |-> "Cancel", id |-> j]} : Send(m) /\ enqueued' = enqueued
      BY <1>1 DEF CallPause, CallResume, CallCancel
    <2>2. m \in Command /\ m.op # "Enqueue"
      BY DEF Command
    <2>3. QED
      BY <2>1, <2>2 DEF Send
  <1>2. ASSUME NEW c \in Calls, CallCancelAll(c) PROVE Sent
    <2>1. [op |-> "CancelAll"] \in Command
      BY DEF Command
    <2>2. QED
      BY <1>2, <2>1 DEF CallCancelAll, Send
  <1>3. ASSUME NEW c \in Calls, NEW n \in Limits, CallSetMaxConcurrent(c, n) PROVE Sent
    <2>1. [op |-> "SetMaxConcurrent", max |-> n] \in Command
      BY DEF Command
    <2>2. QED
      BY <1>3, <2>1 DEF CallSetMaxConcurrent, Send
  <1> HIDE DEF Sent
  <1>4. CASE ClientStep
    <2>1. ASSUME NEW c \in Calls, CallRefused(c) PROVE UNCHANGED <<cmds, enqueued>>
      BY <2>1 DEF CallRefused, clientVars
    <2>2. CASE CancelRoot
      BY <2>2 DEF CancelRoot
    <2>3. QED
      BY <1>1, <1>2, <1>3, <1>4, <2>1, <2>2 DEF ClientStep, Sent
  <1>5. CASE PollStop \/ Stop \/ PollNoCmd \/ Wake \/ DispatchJob \/ DispatchAbandoned
             \/ DispatchOver \/ Finish
    BY <1>5 DEF PollStop, Stop, PollNoCmd, Wake, DispatchJob, DispatchAbandoned,
                DispatchOver, Finish, clientVars
  <1>6. CASE HandlePause \/ HandleResume \/ HandleCancel \/ HandleCancelAll
             \/ HandleSetMaxConcurrent
    BY <1>6 DEF HandlePause, HandleResume, HandleCancel, HandleCancelAll,
                HandleSetMaxConcurrent, Receive
  <1>7. ASSUME NEW w \in workers, WorkerStep(w) PROVE UNCHANGED <<cmds, enqueued>>
    BY <1>7 DEF WorkerStep, WorkerFinished, WorkerStopped, WorkerFailed, WorkerFatal,
                WorkerReturns, clientVars
  <1>8. ASSUME NEW t \in delayed, RetryElapsed(t) PROVE UNCHANGED <<cmds, enqueued>>
    BY <1>8 DEF RetryElapsed, clientVars
  <1>9. QED
    BY <1>4, <1>5, <1>6, <1>7, <1>8 DEF Next, ThreadStep

\* The command that submits j.
EnqueueOf(j) == {[op |-> "Enqueue", id |-> j]}

\* Every step keeps each download in one place.
LEMMA DownloadsStep ==
    ASSUME TypeOK, DownloadsAccountedFor, [Next]_vars
    PROVE  DownloadsAccountedFor'
  <1> DEFINE P(q, j) == Places(q, EnqueueOf(j))
  <1>1. \A j \in Jobs : Submissions(j) = P(cmds, j) /\ Submissions(j)' = P(cmds', j)
    BY DEF Submissions, Places, EnqueueOf
  <1>2. ASSUME UNCHANGED vars PROVE DownloadsAccountedFor'
    BY <1>2 DEF vars, DownloadsAccountedFor, Submissions
  <1>3. ASSUME MapKept, UNCHANGED <<cmds, enqueued>>
        PROVE  DownloadsAccountedFor'
    BY <1>3 DEF DownloadsAccountedFor, Submissions, MapKept
  <1>4. ASSUME MapKept, enqueued' = enqueued,
               NEW m \in Command, m.op # "Enqueue", cmds' = Append(cmds, m)
        PROVE  DownloadsAccountedFor'
    <2>1. ASSUME NEW j \in Jobs PROVE P(cmds', j) = P(cmds, j)
      <3>1. m \notin EnqueueOf(j) /\ cmds \in Seq(Command)
        BY <1>4 DEF EnqueueOf, TypeOK
      <3>2. Places(Append(cmds, m), EnqueueOf(j)) = Places(cmds, EnqueueOf(j))
        BY <3>1, PlacesAppend
      <3>3. QED
        BY <1>4, <3>2
    <2>2. DOMAIN cmds \subseteq DOMAIN cmds'
      BY <1>4 DEF TypeOK
    <2> HIDE DEF P
    <2>3. QED
      BY <1>4, <2>1, <2>2, <1>1 DEF DownloadsAccountedFor, MapKept
  <1>5. ASSUME NEW k \in Jobs, Enqueue(k)
        PROVE  DownloadsAccountedFor'
    <2> DEFINE m == [op |-> "Enqueue", id |-> k]
    <2>1. /\ k \notin enqueued /\ enqueued' = enqueued \cup {k}
          /\ cmds' = Append(cmds, m) /\ UNCHANGED <<state, result>>
      BY <1>5 DEF Enqueue, Send
    <2>2. m \in Command
      BY DEF Command
    <2>3. \A j \in Jobs : P(cmds', j) = P(cmds, j) \cup (IF j = k THEN {Len(cmds) + 1} ELSE {})
      <3>1. \A j \in Jobs : m \in EnqueueOf(j) <=> j = k
        BY DEF EnqueueOf
      <3>2. cmds \in Seq(Command)
        BY DEF TypeOK
      <3>3. \A j \in Jobs : j = k => P(Append(cmds, m), j) = P(cmds, j) \cup {Len(cmds) + 1}
        BY <2>2, <3>1, <3>2, PlacesAppend
      <3>4. \A j \in Jobs : j # k => P(Append(cmds, m), j) = P(cmds, j)
        BY <2>2, <3>1, <3>2, PlacesAppend
      <3>5. QED
        BY <2>1, <3>3, <3>4
    <2>4. DOMAIN cmds \subseteq DOMAIN cmds' /\ Len(cmds) + 1 \in DOMAIN cmds'
      BY <2>1, <2>2 DEF TypeOK
    <2>5. P(cmds, k) = {} /\ state[k] = "None" /\ result[k] = "None"
      BY <2>1, <1>1 DEF DownloadsAccountedFor
    <2> HIDE DEF P
    <2>6. QED
      BY <2>1, <2>3, <2>4, <2>5, <1>1 DEF DownloadsAccountedFor
  <1>6. ASSUME MapKept, enqueued' = enqueued,
               cmds # <<>>, Head(cmds).op # "Enqueue", cmds' = Tail(cmds)
        PROVE  DownloadsAccountedFor'
    <2>1. ASSUME NEW j \in Jobs
          PROVE  /\ P(cmds, j) = {} => P(cmds', j) = {}
                 /\ (\E i \in DOMAIN cmds : P(cmds, j) = {i})
                      => \E i \in DOMAIN cmds' : P(cmds', j) = {i}
      <3>1. Head(cmds) \notin EnqueueOf(j) /\ cmds \in Seq(Command) /\ cmds # <<>>
        BY <1>6 DEF EnqueueOf, TypeOK
      <3>2. /\ P(cmds, j) = {} => P(Tail(cmds), j) = {}
            /\ (\E i \in DOMAIN cmds : P(cmds, j) = {i})
                 => \E i \in DOMAIN Tail(cmds) : P(Tail(cmds), j) = {i}
        BY <3>1, PlacesTail
      <3>3. QED
        BY <1>6, <3>2
    <2> HIDE DEF P
    <2>2. QED
      BY <1>6, <2>1, <1>1 DEF DownloadsAccountedFor, MapKept
  <1>7. ASSUME HandleEnqueue
        PROVE  DownloadsAccountedFor'
    <2> DEFINE k == Head(cmds).id
    <2>1. /\ cmds # <<>> /\ Head(cmds) \in Command /\ Head(cmds).op = "Enqueue"
          /\ cmds' = Tail(cmds) /\ enqueued' = enqueued
          /\ result' = result /\ state' = [state EXCEPT ![k] = "Queued"]
      BY <1>7 DEF HandleEnqueue, Receive, Requeue, TypeOK
    <2>2. k \in Jobs /\ Head(cmds) = [op |-> "Enqueue", id |-> k]
      BY <2>1 DEF Command
    <2> HIDE DEF k
    <2>3. ASSUME NEW j \in Jobs
          PROVE  /\ P(cmds, j) = {} => P(cmds', j) = {}
                 /\ j # k /\ (\E i \in DOMAIN cmds : P(cmds, j) = {i})
                      => \E i \in DOMAIN cmds' : P(cmds', j) = {i}
                 /\ j = k /\ (\E i \in DOMAIN cmds : P(cmds, j) = {i})
                      => P(cmds', j) = {}
      <3>1. Head(cmds) \in EnqueueOf(j) <=> j = k
        BY <2>2 DEF EnqueueOf
      <3>2. cmds \in Seq(Command)
        BY DEF TypeOK
      <3>3. CASE j = k
        <4>1. Head(cmds) \in EnqueueOf(j)
          BY <3>1, <3>3
        <4>2. QED
          BY <2>1, <3>2, <3>3, <4>1, PlacesTail
      <3>4. CASE j # k
        <4>1. Head(cmds) \notin EnqueueOf(j)
          BY <3>1, <3>4
        <4>2. QED
          BY <2>1, <3>2, <3>4, <4>1, PlacesTail
      <3>5. QED
        BY <3>3, <3>4
    <2>4. 1 \in P(cmds, k)
      <3>1. 1 \in DOMAIN cmds /\ cmds[1] = Head(cmds)
        BY <2>1 DEF TypeOK
      <3>2. QED
        BY <2>2, <3>1 DEF Places, EnqueueOf
    <2> HIDE DEF P
    <2>5. \/ k \in enqueued /\ state[k] = "None" /\ result[k] = "None"
             /\ \E i \in DOMAIN cmds : P(cmds, k) = {i}
      BY <2>2, <2>4, <1>1 DEF DownloadsAccountedFor
    <2>6. ASSUME NEW j \in Jobs, j # k
          PROVE  state'[j] = state[j] /\ result'[j] = result[j]
      BY <2>1, <2>6 DEF TypeOK
    <2>7. state'[k] = "Queued" /\ result'[k] = "None" /\ P(cmds', k) = {}
      BY <2>1, <2>2, <2>3, <2>5 DEF TypeOK
    <2>8. QED
      BY <2>1, <2>2, <2>3, <2>5, <2>6, <2>7, <1>1 DEF DownloadsAccountedFor
  <1>8. ASSUME NEW k \in Jobs, Enqueue(k) PROVE ~HandleEnqueue
    BY <1>8 DEF Enqueue, Send, HandleEnqueue, Receive, AfterItem
  <1>9. QED
    BY <1>2, <1>3, <1>4, <1>5, <1>6, <1>7, CmdsStep, MapStep

\* Timers: a step keeps those there are or adds one for a job in the map.
LEMMA TimersSeenStep ==
    ASSUME TypeOK, DownloadsAccountedFor, TimersOfSeenJobs, [Next]_vars
    PROVE  TimersOfSeenJobs'
  <1>1. ASSUME UNCHANGED vars PROVE TimersOfSeenJobs'
    BY <1>1 DEF vars, TimersOfSeenJobs
  <1>2. ASSUME Next
        PROVE  \A t \in delayed' : t \in delayed \/ (t.id \in Jobs /\ state'[t.id] # "None")
    <2>1. CASE ClientStep
      BY <2>1 DEF ClientStep, Send, Enqueue, CallPause, CallResume, CallCancel,
                  CallCancelAll, CallSetMaxConcurrent, CallRefused, CancelRoot
    <2>2. CASE ThreadStep
      BY <2>2 DEF ThreadStep, PollStop, Stop, PollNoCmd, Wake, HandleEnqueue, HandlePause,
                  HandleResume, HandleCancel, HandleCancelAll, HandleSetMaxConcurrent,
                  DispatchJob, DispatchAbandoned, DispatchOver, Finish, CancelAllJobs
    <2>3. ASSUME NEW w \in workers, WorkerStep(w), delayed' # delayed
          PROVE  Retry(w.id)
      BY <2>3 DEF WorkerStep, WorkerFinished, WorkerStopped, WorkerFailed, WorkerFatal,
                  PauseAfterFailure
    <2>4. ASSUME NEW w \in workers, Retry(w.id)
          PROVE  \A t \in delayed' : t \in delayed \/ (t.id \in Jobs /\ state'[t.id] # "None")
      <3>1. w.id \in Jobs
        BY DEF TypeOK, Worker
      <3>2. QED
        BY <2>4, <3>1 DEF Retry, TypeOK
    <2>5. ASSUME NEW t \in delayed, RetryElapsed(t) PROVE delayed' \subseteq delayed
      BY <2>5 DEF RetryElapsed
    <2>6. QED
      BY <1>2, <2>1, <2>2, <2>3, <2>4, <2>5 DEF Next
  <1>3. ASSUME Next
        PROVE  \A j \in Jobs : (state[j] # "None" \/ result[j] # "None")
                                => (state'[j] # "None" \/ result'[j] # "None")
    <2>1. CASE HandleEnqueue
      <3>1. Head(cmds).id \in Jobs /\ UNCHANGED result /\ Requeue(Head(cmds).id)
        <4>1. Head(cmds) \in Command /\ Head(cmds).op = "Enqueue"
          BY <2>1 DEF HandleEnqueue, Receive, TypeOK
        <4>2. QED
          BY <4>1, <2>1 DEF HandleEnqueue, Command
      <3>2. QED
        BY <3>1 DEF Requeue, TypeOK
    <2>2. CASE ~HandleEnqueue
      BY <1>3, <2>2, MapStep DEF MapKept
    <2>3. QED
      BY <2>1, <2>2
  <1>4. \A t \in delayed : t.id \in Jobs
    BY DEF TypeOK, Timer
  <1>5. QED
    BY <1>1, <1>2, <1>3, <1>4 DEF TimersOfSeenJobs

----------------------------------------------------------------------------
(* Timers *)

\* Where a cancellation leaves each job.
LEMMA CancelJobsState ==
    ASSUME TypeOK, NEW S \in SUBSET Jobs, CancelJobs(S), NEW j \in Jobs
    PROVE  /\ j \in S /\ state[j] \in Idle => state'[j] = "None"
           /\ j \in S /\ state[j] \in {"Running", "Pausing"} => state'[j] = "Cancelling"
           /\ j \notin S \/ state[j] \in {"None", "Cancelling"} => state'[j] = state[j]
  BY DEF CancelJobs, Idle

\* A step that leaves timers and attempts alone and puts no job to wait.
LEMMA TimersLeftAlone ==
    ASSUME OneTimerPerRetry, UNCHANGED <<delayed, attempt>>,
           \A j \in Jobs : state'[j] = "Retrying" => state[j] = "Retrying"
    PROVE  OneTimerPerRetry'
  BY DEF OneTimerPerRetry

\* Every step keeps one timer for each job in back-off: Job::retry numbers the
\* attempt of its timer above those of all the timers left from before.
LEMMA TimerStep ==
    ASSUME IInv, [Next]_vars
    PROVE  OneTimerPerRetry'
  <1> USE DEF IInv
  <1>1. \A w \in workers : w.id \in Jobs
    BY DEF TypeOK, Worker
  <1>2. \A t \in delayed : t.id \in Jobs /\ t.attempt \in Nat
    BY DEF TypeOK, Timer
  <1>3. ASSUME UNCHANGED vars PROVE OneTimerPerRetry'
    BY <1>3, TimersLeftAlone DEF vars
  <1>4. CASE ClientStep
    <2>1. UNCHANGED <<delayed, attempt, state>>
      BY <1>4 DEF ClientStep, Send, Enqueue, CallPause, CallResume, CallCancel,
                  CallCancelAll, CallSetMaxConcurrent, CallRefused, CancelRoot
    <2>2. QED
      BY <2>1, TimersLeftAlone
  <1>5. CASE PollStop \/ PollNoCmd \/ Wake \/ DispatchAbandoned \/ DispatchOver \/ Finish
             \/ HandleSetMaxConcurrent
    <2>1. UNCHANGED <<delayed, attempt, state>>
      BY <1>5 DEF PollStop, PollNoCmd, Wake, DispatchAbandoned, DispatchOver, Finish,
                  HandleSetMaxConcurrent
    <2>2. QED
      BY <2>1, TimersLeftAlone
  <1>6. CASE Stop \/ HandleCancelAll
    <2>1. CancelJobs(Jobs) /\ delayed' = {}
      BY <1>6 DEF Stop, HandleCancelAll, CancelAllJobs
    <2>2. \A j \in Jobs : state'[j] # "Retrying"
      BY <2>1, CancelJobsState DEF TypeOK, JobState, Idle
    <2>3. QED
      BY <2>1, <2>2 DEF OneTimerPerRetry
  <1>7. ASSUME NEW op \in {"Enqueue", "Pause", "Resume", "Cancel"}, Receive(op)
        PROVE  Head(cmds).id \in Jobs /\ Head(cmds).op = op /\ Head(cmds) \in Command
    <2>1. Head(cmds) \in Command /\ Head(cmds).op = op
      BY <1>7 DEF Receive, TypeOK
    <2>2. QED
      BY <2>1 DEF Command
  <1>8. CASE HandleEnqueue
    <2> DEFINE k == Head(cmds).id
    <2>1. /\ k \in Jobs /\ delayed' = delayed
          /\ attempt' = [attempt EXCEPT ![k] = 0]
          /\ state' = [state EXCEPT ![k] = "Queued"]
      BY <1>7, <1>8 DEF HandleEnqueue, Requeue
    <2>2. 1 \in Submissions(k)
      <3>1. 1 \in DOMAIN cmds /\ cmds[1] = Head(cmds)
        BY <1>8 DEF HandleEnqueue, Receive, TypeOK
      <3>2. Head(cmds) = [op |-> "Enqueue", id |-> k]
        BY <1>7, <1>8 DEF HandleEnqueue, Command
      <3>3. QED
        BY <3>1, <3>2 DEF Submissions
    <2> HIDE DEF k
    <2>3. state[k] = "None" /\ result[k] = "None"
      BY <2>1, <2>2 DEF DownloadsAccountedFor
    <2>4. \A t \in delayed : t.id # k
      BY <2>3 DEF TimersOfSeenJobs
    <2>5. QED
      BY <2>1, <2>4, <1>2 DEF OneTimerPerRetry, TypeOK
  <1>9. CASE HandlePause
    <2> DEFINE j == Head(cmds).id
               c == Head(cmds).ack
    <2>1. /\ j \in Jobs /\ UNCHANGED <<delayed, attempt>>
          /\ PauseIdle(j, c) \/ PauseRunning(j, c) \/ PausePausing(j, c) \/ PauseAnswered(j, c)
      BY <1>7, <1>9 DEF HandlePause
    <2> HIDE DEF j, c
    <2>2. \A k \in Jobs : state'[k] = "Retrying" => state[k] = "Retrying"
      BY <2>1 DEF PauseIdle, PauseJob, PauseRunning, PausePausing, PauseAnswered, TypeOK
    <2>3. QED
      BY <2>1, <2>2, TimersLeftAlone
  <1>10. CASE HandleResume
    <2> DEFINE j == Head(cmds).id
               c == Head(cmds).ack
    <2>1. /\ j \in Jobs /\ UNCHANGED <<delayed, attempt>>
          /\ ResumePaused(j, c) \/ ResumeAnswered(j, c)
      BY <1>7, <1>10 DEF HandleResume
    <2> HIDE DEF j, c
    <2>2. \A k \in Jobs : state'[k] = "Retrying" => state[k] = "Retrying"
      BY <2>1 DEF ResumePaused, Requeue, ResumeAnswered, TypeOK
    <2>3. QED
      BY <2>1, <2>2, TimersLeftAlone
  <1>11. CASE HandleCancel
    <2>1. Head(cmds).id \in Jobs /\ CancelJobs({Head(cmds).id}) /\ delayed' = delayed
      BY <1>7, <1>11 DEF HandleCancel
    <2> DEFINE i == Head(cmds).id
    <2> HIDE DEF i
    <2>2. \A k \in Jobs : state'[k] = "Retrying" => state[k] = "Retrying"
      <3>1. i \in Jobs /\ CancelJobs({i})
        BY <2>1 DEF i
      <3>2. TAKE k \in Jobs
      <3>3. \/ state'[k] \in {"None", "Cancelling"}
            \/ state'[k] = state[k]
        <4>1. state[k] \in Idle \cup {"Running", "Pausing", "None", "Cancelling"}
          BY DEF TypeOK, JobState, Idle
        <4>2. QED
          BY <3>1, <4>1, CancelJobsState
      <3>4. QED
        BY <3>3
    <2>3. attempt' = attempt
      BY <2>1 DEF CancelJobs
    <2>4. QED
      BY <2>1, <2>2, <2>3, TimersLeftAlone
  <1>12. CASE DispatchJob
    <2>1. UNCHANGED <<delayed, attempt>>
      BY <1>12 DEF DispatchJob
    <2>2. \A k \in Jobs : state'[k] = "Retrying" => state[k] = "Retrying"
      BY <1>12 DEF DispatchJob, CanDispatch, TypeOK
    <2>3. QED
      BY <2>1, <2>2, TimersLeftAlone
  <1>13. ASSUME NEW w \in workers, UNCHANGED <<attempt, delayed>>,
                \/ UNCHANGED state
                \/ PauseJob(w.id, {})
                \/ \E r \in Result : Finalize(w.id, r)
         PROVE  OneTimerPerRetry'
    <2>1. \A k \in Jobs : state'[k] = "Retrying" => state[k] = "Retrying"
      BY <1>1, <1>13 DEF PauseJob, Finalize, TypeOK
    <2>2. QED
      BY <2>1, <1>13, TimersLeftAlone
  <1>14. ASSUME NEW w \in workers, WorkerFinished(w) \/ WorkerStopped(w) \/ WorkerFatal(w)
         PROVE  OneTimerPerRetry'
    <2>1. UNCHANGED <<attempt, delayed>>
      BY <1>14 DEF WorkerFinished, WorkerStopped, WorkerFatal
    <2>2. \/ UNCHANGED state
          \/ PauseJob(w.id, {})
          \/ \E r \in {"Ok", "Cancelled", "Io", "Unknown", "Fatal"} : Finalize(w.id, r)
      BY <1>14 DEF WorkerFinished, WorkerStopped, WorkerFatal, CancelJob
    <2>3. {"Ok", "Cancelled", "Io", "Unknown", "Fatal"} \subseteq Result
      BY DEF Result, JobError
    <2>4. QED
      BY <2>1, <2>2, <2>3, <1>13
  <1>15. ASSUME NEW w \in workers, WorkerFailed(w) PROVE OneTimerPerRetry'
    <2>1. \/ UNCHANGED <<state, attempt, delayed>>
          \/ UNCHANGED <<attempt, delayed>> /\ \E r \in {"Cancelled", "Io", "Retryable"} : Finalize(w.id, r)
          \/ PauseAfterFailure(w.id)
          \/ Retry(w.id)
      BY <1>15 DEF WorkerFailed, CancelJob
    <2>2. {"Cancelled", "Io", "Retryable"} \subseteq Result
      BY DEF Result, JobError
    <2>3. w.id \in Jobs /\ attempt[w.id] \in Nat
      BY <1>1 DEF TypeOK
    <2>4. CASE PauseAfterFailure(w.id)
      <3>1. /\ delayed' = delayed
            /\ attempt' = [attempt EXCEPT ![w.id] = attempt[w.id] + 1]
            /\ state' = [state EXCEPT ![w.id] = "Paused"]
        BY <2>4 DEF PauseAfterFailure, NextAttempt, PauseJob
      <3>2. \A j \in Jobs : state'[j] = "Retrying" =>
               state[j] = "Retrying" /\ attempt'[j] = attempt[j]
        BY <3>1, <2>3 DEF TypeOK
      <3>3. \A j \in Jobs : attempt[j] <= attempt'[j] /\ attempt[j] \in Nat /\ attempt'[j] \in Nat
        BY <3>1, <2>3 DEF TypeOK
      <3>4. \A t \in delayed : t.attempt <= attempt'[t.id]
        BY <3>3, <1>2 DEF OneTimerPerRetry
      <3>5. QED
        BY <3>1, <3>2, <3>4 DEF OneTimerPerRetry
    <2>5. CASE Retry(w.id)
      <3> DEFINE t == [id |-> w.id, attempt |-> attempt[w.id] + 1,
                       n |-> FreshTimer(w.id, attempt[w.id] + 1)]
      <3>1. /\ delayed' = delayed \cup {t}
            /\ attempt' = [attempt EXCEPT ![w.id] = attempt[w.id] + 1]
            /\ state' = [state EXCEPT ![w.id] = "Retrying"]
        BY <2>5 DEF Retry, NextAttempt
      <3>2. t.id = w.id /\ t.attempt = attempt[w.id] + 1
        OBVIOUS
      <3> HIDE DEF t
      <3>3. \A s \in delayed : s.id = w.id => s.attempt < attempt[w.id] + 1
        BY <2>3, <1>2 DEF OneTimerPerRetry
      <3>4. \A j \in Jobs : state'[j] = "Retrying" =>
               \E s \in delayed' : s.id = j /\ s.attempt = attempt'[j]
        BY <3>1, <3>2, <2>3 DEF OneTimerPerRetry, TypeOK
      <3>5. \A r, s \in delayed' : r.id = s.id /\ r.attempt = s.attempt => r = s
        BY <3>1, <3>2, <3>3, <2>3, <1>2 DEF OneTimerPerRetry
      <3>6. \A s \in delayed' : s.attempt <= attempt'[s.id]
        BY <3>1, <3>2, <2>3, <1>2 DEF OneTimerPerRetry, TypeOK
      <3>7. QED
        BY <3>4, <3>5, <3>6 DEF OneTimerPerRetry
    <2>6. QED
      BY <2>1, <2>2, <2>4, <2>5, <1>13
  <1>16. ASSUME NEW t \in delayed, RetryElapsed(t) PROVE OneTimerPerRetry'
    <2>1. delayed' = delayed \ {t} /\ attempt' = attempt
      BY <1>16 DEF RetryElapsed
    <2>2. \A j \in Jobs : state'[j] = "Retrying" =>
              state[j] = "Retrying" /\ (t.id # j \/ t.attempt # attempt[j])
      BY <1>16, <1>2 DEF RetryElapsed, TimerMatches, Requeue, TypeOK
    <2>3. QED
      BY <2>1, <2>2 DEF OneTimerPerRetry
  <1>17. QED
    BY <1>3, <1>4, <1>5, <1>6, <1>8, <1>9, <1>10, <1>11, <1>12, <1>14, <1>15, <1>16
       DEF Next, ThreadStep, WorkerStep

----------------------------------------------------------------------------
(* Workers *)

\* What the end of a worker does to its job, which is in the map.
LEMMA WorkerOutcome ==
    ASSUME TypeOK, OneWorkerPerLiveJob, NEW w \in workers, WorkerStep(w)
    PROVE  /\ WorkerReturns(w)
           /\ w.id \in Jobs /\ state[w.id] \in Live
           /\ \/ (\E r \in Result : Finalize(w.id, r)) /\ UNCHANGED <<attempt, delayed>>
              \/ state[w.id] = "Pausing" /\ PauseJob(w.id, {}) /\ UNCHANGED <<result, delayed>>
              \/ state[w.id] = "Running" /\ Retry(w.id)
  <1>1. w.id \in Jobs
    BY DEF TypeOK, Worker
  <1>2. state[w.id] \in Live
    BY <1>1 DEF OneWorkerPerLiveJob
  <1>3. {"Ok", "Cancelled", "Io", "Unknown", "Fatal", "Retryable"} \subseteq Result
    BY DEF Result, JobError
  <1>4. CASE WorkerFinished(w)
    BY <1>1, <1>2, <1>3, <1>4 DEF WorkerFinished, Live
  <1>5. CASE WorkerStopped(w)
    <2>1. WorkerReturns(w) /\ UNCHANGED <<attempt, delayed>>
      BY <1>5 DEF WorkerStopped
    <2>2. \/ CancelJob(w.id)
          \/ state[w.id] = "Pausing" /\ PauseJob(w.id, {}) /\ UNCHANGED result
          \/ Finalize(w.id, "Unknown")
      BY <1>5, <1>2 DEF WorkerStopped, Live
    <2>3. QED
      BY <1>1, <1>2, <1>3, <2>1, <2>2 DEF CancelJob
  <1>6. CASE WorkerFailed(w)
    <2>1. WorkerReturns(w)
      BY <1>6 DEF WorkerFailed
    <2>2. \/ CancelJob(w.id) /\ UNCHANGED <<attempt, delayed>>
          \/ Finalize(w.id, "Retryable") /\ UNCHANGED <<attempt, delayed>>
          \/ state[w.id] = "Pausing" /\ PauseAfterFailure(w.id)
          \/ state[w.id] = "Running" /\ Retry(w.id)
      BY <1>6, <1>2 DEF WorkerFailed, Live
    <2>3. QED
      BY <1>1, <1>2, <1>3, <2>1, <2>2 DEF CancelJob, PauseAfterFailure
  <1>7. CASE WorkerFatal(w)
    <2>1. WorkerReturns(w) /\ UNCHANGED <<attempt, delayed>>
      BY <1>7 DEF WorkerFatal
    <2>2. CancelJob(w.id) \/ Finalize(w.id, "Fatal")
      BY <1>7, <1>2 DEF WorkerFatal, Live
    <2>3. QED
      BY <1>1, <1>2, <1>3, <2>1, <2>2 DEF CancelJob
  <1>8. QED
    BY <1>4, <1>5, <1>6, <1>7 DEF WorkerStep

\* What a step does to the state of j, as far as its worker is concerned.
Same(j)      == state'[j] = state[j]
StaysIdle(j) == state[j] \notin Live /\ state'[j] \notin Live
StaysLive(j) == state[j] \in Live /\ state'[j] \in Live

\* A step that neither starts nor ends a worker, nor asks for one to stop.
LEMMA WorkersLeftAlone ==
    ASSUME OneWorkerPerLiveJob, UNCHANGED <<workers, token>>, root => root',
           \A w \in workers : w.id \in Jobs,
           \A j \in Jobs : Same(j) \/ StaysIdle(j)
    PROVE  OneWorkerPerLiveJob'
  <1>1. \A w \in workers : Stopping(w) => Stopping(w)'
    BY Zenon DEF Stopping
  <1>2. \A j \in Jobs : /\ state'[j] \in Live <=> state[j] \in Live
                        /\ state'[j] \in {"Pausing", "Cancelling"} => Same(j)
    BY DEF Same, StaysIdle, Live
  <1>3. \A j \in Jobs : state'[j] \in Live <=> \E w \in workers' : w.id = j
    <2>1. \A j \in Jobs : state[j] \in Live <=> \E w \in workers : w.id = j
      BY DEF OneWorkerPerLiveJob
    <2>2. workers' = workers
      OBVIOUS
    <2>3. QED
      BY Zenon, <1>2, <2>1, <2>2
  <1>4. ASSUME NEW w \in workers'
        PROVE  /\ w.tok = token'[w.id]
               /\ state'[w.id] \in {"Pausing", "Cancelling"} => Stopping(w)'
    <2>1. w \in workers /\ w.id \in Jobs
      OBVIOUS
    <2>2. state'[w.id] \in {"Pausing", "Cancelling"} => Stopping(w)
      <3>1. state'[w.id] \in {"Pausing", "Cancelling"} => state'[w.id] = state[w.id]
        BY <2>1, <1>2 DEF Same
      <3>2. state[w.id] \in {"Pausing", "Cancelling"} => Stopping(w)
        BY <2>1 DEF OneWorkerPerLiveJob
      <3>3. QED
        BY Zenon, <3>1, <3>2
    <2>3. QED
      BY <2>1, <2>2, <1>1 DEF OneWorkerPerLiveJob
  <1>5. QED
    BY <1>3, <1>4 DEF OneWorkerPerLiveJob

\* A step that cancels the stop tokens of the running jobs of S and has them
\* wait for their workers.
LEMMA WorkersStopped ==
    ASSUME TypeOK, OneWorkerPerLiveJob, NEW S \in SUBSET Jobs,
           workers' = StopWorkers({j \in S : state[j] = "Running"}),
           UNCHANGED <<token, root>>,
           \A j \in Jobs : Same(j) \/ StaysIdle(j) \/ (j \in S /\ StaysLive(j))
    PROVE  OneWorkerPerLiveJob'
  <1> DEFINE R == {j \in S : state[j] = "Running"}
  <1>1. /\ \A w \in workers : \E v \in workers' : v.id = w.id
        /\ \A v \in workers' : \E w \in workers :
              /\ v.id = w.id /\ v.tok = w.tok
              /\ w.stop => v.stop
              /\ w.id \in R /\ w.tok = token[w.id] => v.stop
        /\ \A v, w \in workers' : v.id = w.id => v = w
    <2> HIDE DEF R
    <2>1. workers' = StopWorkers(R)
      BY DEF R
    <2>2. \A v, w \in workers : v.id = w.id => v = w
      BY DEF OneWorkerPerLiveJob
    <2>3. /\ \A w \in workers : \E v \in StopWorkers(R) : v.id = w.id
          /\ \A v \in StopWorkers(R) : \E w \in workers :
                /\ v.id = w.id /\ v.tok = w.tok
                /\ w.stop => v.stop
                /\ w.id \in R /\ w.tok = token[w.id] => v.stop
          /\ \A v, w \in StopWorkers(R) : v.id = w.id => v = w
      BY Zenon, <2>2, StopWorkersFacts
    <2>4. QED
      BY Zenon, <2>1, <2>3
  <1>2. \A w \in workers : w.id \in Jobs
    BY DEF TypeOK, Worker
  <1>3. \A j \in Jobs : state'[j] \in Live <=> \E w \in workers' : w.id = j
    <2>1. \A j \in Jobs : state'[j] \in Live <=> state[j] \in Live
      BY DEF Same, StaysIdle, StaysLive
    <2>2. \A j \in Jobs : (\E w \in workers' : w.id = j) <=> (\E w \in workers : w.id = j)
      BY <1>1
    <2>3. QED
      BY <2>1, <2>2 DEF OneWorkerPerLiveJob
  <1>4. ASSUME NEW v \in workers'
        PROVE  /\ v.tok = token'[v.id]
               /\ state'[v.id] \in {"Pausing", "Cancelling"} => v.stop \/ root'
    <2>1. PICK w \in workers : /\ v.id = w.id /\ v.tok = w.tok
                               /\ w.stop => v.stop
                               /\ w.id \in R /\ w.tok = token[w.id] => v.stop
      BY <1>1
    <2>2. w.tok = token[w.id] /\ w.id \in Jobs
      BY <1>2 DEF OneWorkerPerLiveJob
    <2>3. ASSUME state'[w.id] \in {"Pausing", "Cancelling"} PROVE v.stop \/ root'
      <3>1. state[w.id] \in Live
        BY <2>2 DEF OneWorkerPerLiveJob
      <3>2. CASE state[w.id] = "Running"
        <4>1. w.id \in R
          <5>1. w.id \in S
            BY <2>2, <2>3, <3>2 DEF Same, StaysIdle, StaysLive, Live
          <5>2. QED
            BY <3>2, <5>1
        <4>2. QED
          BY Zenon, <2>1, <2>2, <4>1
      <3>3. CASE state[w.id] \in {"Pausing", "Cancelling"}
        <4>1. w.stop \/ root
          BY <3>3 DEF OneWorkerPerLiveJob, Stopping
        <4>2. QED
          BY Zenon, <2>1, <4>1
      <3>4. QED
        BY <3>1, <3>2, <3>3 DEF Live
    <2>4. QED
      BY <2>1, <2>2, <2>3
  <1>5. QED
    BY <1>1, <1>3, <1>4 DEF OneWorkerPerLiveJob, Stopping

\* Every step keeps workers and jobs matched.
LEMMA WorkerStepKeeps ==
    ASSUME IInv, [Next]_vars
    PROVE  OneWorkerPerLiveJob'
  <1> USE DEF IInv
  <1>1. \A w \in workers : w.id \in Jobs
    BY DEF TypeOK, Worker
  <1>2. \A t \in delayed : t.id \in Jobs
    BY DEF TypeOK, Timer
  <1>3. ASSUME UNCHANGED vars PROVE OneWorkerPerLiveJob'
    <2>1. UNCHANGED <<workers, token, state, root>>
      BY <1>3 DEF vars
    <2>2. QED
      BY <1>1, <2>1, WorkersLeftAlone DEF Same
  <1>4. CASE ClientStep
    <2>1. UNCHANGED <<workers, token, state>> /\ (root' = root \/ root' = TRUE)
      BY <1>4 DEF ClientStep, Send, Enqueue, CallPause, CallResume, CallCancel,
                  CallCancelAll, CallSetMaxConcurrent, CallRefused, CancelRoot, clientVars
    <2>2. root => root'
      BY Zenon, <2>1
    <2>3. QED
      BY <1>1, <2>1, <2>2, WorkersLeftAlone DEF Same
  <1>5. CASE PollStop \/ PollNoCmd \/ Wake \/ DispatchAbandoned \/ DispatchOver \/ Finish
             \/ HandleSetMaxConcurrent
    <2>1. UNCHANGED <<workers, token, state, root>>
      BY <1>5 DEF PollStop, PollNoCmd, Wake, DispatchAbandoned, DispatchOver, Finish,
                  HandleSetMaxConcurrent, Receive, clientVars
    <2>2. QED
      BY <1>1, <2>1, WorkersLeftAlone DEF Same
  <1>6. ASSUME NEW S \in SUBSET Jobs, CancelJobs(S), root' = root
        PROVE  OneWorkerPerLiveJob'
    <2>1. /\ workers' = StopWorkers({j \in S : state[j] = "Running"})
          /\ UNCHANGED token
      BY <1>6 DEF CancelJobs
    <2>2. ASSUME NEW j \in Jobs
          PROVE  Same(j) \/ StaysIdle(j) \/ (j \in S /\ StaysLive(j))
      <3>1. state[j] \in Idle \cup {"Running", "Pausing", "None", "Cancelling"}
        BY DEF TypeOK, JobState, Idle
      <3>2. QED
        BY <1>6, <3>1, CancelJobsState DEF Idle, Live, Same, StaysIdle, StaysLive
    <2>3. QED
      BY <1>6, <2>1, <2>2, WorkersStopped
  <1>7. CASE Stop \/ HandleCancelAll
    <2>1. CancelJobs(Jobs) /\ root' = root
      BY <1>7 DEF Stop, HandleCancelAll, CancelAllJobs, Receive
    <2>2. QED
      BY <1>6, <2>1
  <1>8. ASSUME NEW op \in {"Enqueue", "Pause", "Resume", "Cancel"}, Receive(op)
        PROVE  Head(cmds).id \in Jobs /\ root' = root /\ Head(cmds).op = op
    <2>1. Head(cmds) \in Command /\ Head(cmds).op = op
      BY <1>8 DEF Receive, TypeOK
    <2>2. QED
      BY <1>8, <2>1 DEF Command, Receive
  <1>9. CASE HandleEnqueue
    <2> DEFINE k == Head(cmds).id
    <2>1. /\ k \in Jobs /\ UNCHANGED <<workers, token, root>>
          /\ state' = [state EXCEPT ![k] = "Queued"]
      BY <1>8, <1>9 DEF HandleEnqueue, Requeue
    <2>2. 1 \in Submissions(k)
      <3>1. 1 \in DOMAIN cmds /\ cmds[1] = Head(cmds) /\ Head(cmds) \in Command
        BY <1>9 DEF HandleEnqueue, Receive, TypeOK
      <3>2. Head(cmds) = [op |-> "Enqueue", id |-> k]
        BY <3>1, <1>8, <1>9 DEF HandleEnqueue, Command
      <3>3. QED
        BY <3>1, <3>2 DEF Submissions
    <2> HIDE DEF k
    <2>3. state[k] = "None"
      BY <2>1, <2>2 DEF DownloadsAccountedFor
    <2>4. QED
      BY <1>1, <2>1, <2>3, WorkersLeftAlone DEF TypeOK, Live, Same, StaysIdle
  <1>10. CASE HandlePause
    <2> DEFINE j == Head(cmds).id
               c == Head(cmds).ack
    <2>1. /\ j \in Jobs /\ UNCHANGED <<token, root>>
          /\ PauseIdle(j, c) \/ PauseRunning(j, c) \/ PausePausing(j, c) \/ PauseAnswered(j, c)
      BY <1>8, <1>10 DEF HandlePause
    <2> HIDE DEF j, c
    <2>2. CASE PauseRunning(j, c)
      <3>1. /\ state[j] = "Running" /\ workers' = StopWorkers({j})
            /\ state' = [state EXCEPT ![j] = "Pausing"]
        BY <2>2 DEF PauseRunning
      <3>2. {k \in {j} : state[k] = "Running"} = {j}
        BY <3>1
      <3>3. QED
        <4>1. \A k \in Jobs : Same(k) \/ (k \in {j} /\ StaysLive(k))
          BY <2>1, <3>1 DEF TypeOK, Live, Same, StaysLive
        <4>2. QED
          BY <2>1, <3>1, <3>2, <4>1, WorkersStopped
    <2>3. CASE PauseIdle(j, c) \/ PausePausing(j, c) \/ PauseAnswered(j, c)
      <3>1. /\ workers' = workers
            /\ \A k \in Jobs : Same(k) \/ StaysIdle(k)
        BY <2>1, <2>3 DEF PauseIdle, PauseJob, PausePausing, PauseAnswered, TypeOK, Live, Same, StaysIdle
      <3>2. QED
        BY <1>1, <2>1, <3>1, WorkersLeftAlone
    <2>4. QED
      BY <2>1, <2>2, <2>3
  <1>11. CASE HandleResume
    <2> DEFINE j == Head(cmds).id
               c == Head(cmds).ack
    <2>1. /\ j \in Jobs /\ UNCHANGED <<workers, token, root>>
          /\ ResumePaused(j, c) \/ ResumeAnswered(j, c)
      BY <1>8, <1>11 DEF HandleResume
    <2> HIDE DEF j, c
    <2>2. \A k \in Jobs : Same(k) \/ StaysIdle(k)
      BY <2>1 DEF ResumePaused, Requeue, ResumeAnswered, TypeOK, Live, Same, StaysIdle
    <2>3. QED
      BY <1>1, <2>1, <2>2, WorkersLeftAlone
  <1>12. CASE HandleCancel
    <2>1. Head(cmds).id \in Jobs /\ CancelJobs({Head(cmds).id}) /\ root' = root
      BY <1>8, <1>12 DEF HandleCancel
    <2> DEFINE i == Head(cmds).id
    <2> HIDE DEF i
    <2>2. {i} \in SUBSET Jobs /\ CancelJobs({i})
      BY <2>1 DEF i
    <2>3. QED
      BY <1>6, <2>1, <2>2
  <1>13. CASE DispatchJob
    <2> DEFINE j == Head(ready)
               t == FreshToken(j)
               w == [id |-> j, tok |-> t, stop |-> FALSE]
    <2>1. j \in Jobs /\ root' = root
      BY <1>13 DEF DispatchJob, CanDispatch, TypeOK, clientVars
    <2>2. CASE state[j] # "Queued"
      <3>1. UNCHANGED <<workers, token, state>>
        BY <1>13, <2>2 DEF DispatchJob
      <3>2. QED
        BY <1>1, <2>1, <3>1, WorkersLeftAlone DEF Same
    <2>3. CASE state[j] = "Queued"
      <3>1. /\ state' = [state EXCEPT ![j] = "Running"]
            /\ token' = [token EXCEPT ![j] = t]
            /\ workers' = workers \cup {w}
        BY <1>13, <2>3 DEF DispatchJob
      <3>2. w.id = j /\ w.tok = t
        OBVIOUS
      <3> HIDE DEF j, t, w
      <3>3. \A v \in workers : v.id # j
        BY <2>1, <2>3 DEF OneWorkerPerLiveJob, Live
      <3>4. \A k \in Jobs : state'[k] = IF k = j THEN "Running" ELSE state[k]
        BY <2>1, <3>1 DEF TypeOK
      <3>5. \A k \in Jobs : token'[k] = IF k = j THEN t ELSE token[k]
        BY <2>1, <3>1 DEF TypeOK
      <3>6. QED
        <4>1. \A k \in Jobs : state'[k] \in Live <=> \E v \in workers' : v.id = k
          BY <2>3, <3>1, <3>2, <3>4 DEF OneWorkerPerLiveJob, Live
        <4>2. \A u, v \in workers' : u.id = v.id => u = v
          BY <3>1, <3>2, <3>3 DEF OneWorkerPerLiveJob
        <4>3. \A v \in workers' : v.tok = token'[v.id]
          BY <1>1, <2>1, <3>1, <3>2, <3>3, <3>5 DEF OneWorkerPerLiveJob
        <4>4. \A v \in workers' : state'[v.id] \in {"Pausing", "Cancelling"} => Stopping(v)'
          BY <1>1, <2>1, <3>1, <3>2, <3>3, <3>4 DEF OneWorkerPerLiveJob, Stopping
        <4>5. QED
          BY <4>1, <4>2, <4>3, <4>4 DEF OneWorkerPerLiveJob
    <2>4. QED
      BY <2>2, <2>3
  <1>14. ASSUME NEW w \in workers, WorkerStep(w) PROVE OneWorkerPerLiveJob'
    <2>1. /\ workers' = workers \ {w} /\ UNCHANGED <<token, root>>
          /\ w.id \in Jobs
      BY <1>14, WorkerOutcome DEF WorkerReturns, clientVars
    <2>2. \E x \in {"None", "Paused", "Retrying"} : state' = [state EXCEPT ![w.id] = x]
      BY <1>14, WorkerOutcome DEF Finalize, PauseJob, Retry
    <2>3. \A k \in Jobs : IF k = w.id THEN state'[k] \notin Live ELSE state'[k] = state[k]
      BY <2>1, <2>2 DEF TypeOK, Live
    <2>4. QED
      BY <1>1, <2>1, <2>3 DEF OneWorkerPerLiveJob, Stopping
  <1>15. ASSUME NEW t \in delayed, RetryElapsed(t) PROVE OneWorkerPerLiveJob'
    <2>1. UNCHANGED <<workers, token, root>>
      BY <1>15 DEF RetryElapsed, clientVars
    <2>2. \A k \in Jobs : Same(k) \/ StaysIdle(k)
      BY <1>15, <1>2 DEF RetryElapsed, TimerMatches, Requeue, TypeOK, Live,
                          Same, StaysIdle
    <2>3. QED
      BY <1>1, <2>1, <2>2, WorkersLeftAlone
  <1>16. QED
    BY <1>3, <1>4, <1>5, <1>7, <1>9, <1>10, <1>11, <1>12, <1>13, <1>14, <1>15
       DEF Next, ThreadStep

----------------------------------------------------------------------------
(* The queue of jobs that are ready *)

\* The scheduler is about to stop and try_dispatch may have dropped an id.
Abandoned == root /\ pc = "PollStop"

\* ReadyHoldsQueuedJobs in terms of the ids in the queue.
LEMMA ReadyUnfolded ==
    ReadyHoldsQueuedJobs <=>
      /\ Distinct(ready)
      /\ \A j \in Ids(ready) : state[j] = "Queued"
      /\ \A j \in Jobs : state[j] = "Queued" => j \in Ids(ready) \/ Abandoned
  BY DEF ReadyHoldsQueuedJobs, Distinct, Abandoned

\* The same of the next state.
LEMMA ReadyUnfoldedNext ==
    ReadyHoldsQueuedJobs' <=>
      /\ Distinct(ready')
      /\ \A j \in Ids(ready') : state'[j] = "Queued"
      /\ \A j \in Jobs : state'[j] = "Queued" => j \in Ids(ready') \/ Abandoned'
  BY DEF ReadyHoldsQueuedJobs, Distinct, Abandoned, Ids

\* A step that leaves the queue alone, neither queues nor takes a job.
LEMMA ReadyLeftAlone ==
    ASSUME ReadyHoldsQueuedJobs, ready' = ready, Ids(ready) \subseteq Jobs,
           Abandoned => Abandoned',
           \A j \in Jobs : state'[j] = "Queued" <=> state[j] = "Queued"
    PROVE  ReadyHoldsQueuedJobs'
  <1>1. /\ Distinct(ready)
        /\ \A j \in Ids(ready) : state[j] = "Queued"
        /\ \A j \in Jobs : state[j] = "Queued" => j \in Ids(ready) \/ Abandoned
    BY ReadyUnfolded
  <1>2. Distinct(ready') /\ Ids(ready') = Ids(ready)
    BY <1>1
  <1>3. \A j \in Ids(ready') : state'[j] = "Queued"
    BY <1>1, <1>2
  <1>4. \A j \in Jobs : state'[j] = "Queued" => j \in Ids(ready') \/ Abandoned'
    BY <1>1, <1>2
  <1>5. QED
    BY <1>2, <1>3, <1>4, ReadyUnfoldedNext

\* A job that was not queued joins the end of the queue.
LEMMA ReadyJoined ==
    ASSUME TypeOK, ReadyHoldsQueuedJobs, ~Abandoned, NEW k \in Jobs, state[k] # "Queued",
           ready' = Append(ready, k), state' = [state EXCEPT ![k] = "Queued"]
    PROVE  ReadyHoldsQueuedJobs'
  <1>1. /\ Distinct(ready)
        /\ \A j \in Ids(ready) : state[j] = "Queued"
        /\ \A j \in Jobs : state[j] = "Queued" => j \in Ids(ready)
    BY ReadyUnfolded
  <1>2. ready \in Seq(Jobs) /\ Ids(ready) \subseteq Jobs /\ k \notin Ids(ready)
    BY <1>1 DEF TypeOK, Ids
  <1>3. Distinct(Append(ready, k)) /\ Ids(Append(ready, k)) = Ids(ready) \cup {k}
    BY <1>1, <1>2, DistinctAppend
  <1>4. \A j \in Jobs : state'[j] = IF j = k THEN "Queued" ELSE state[j]
    BY DEF TypeOK
  <1>5. \A j \in Ids(ready') : state'[j] = "Queued"
    BY <1>1, <1>2, <1>3, <1>4
  <1>6. \A j \in Jobs : state'[j] = "Queued" => j \in Ids(ready')
    BY <1>1, <1>3, <1>4
  <1>7. QED
    BY <1>3, <1>5, <1>6, ReadyUnfoldedNext

\* A job leaves the queue, wherever it stood.
LEMMA ReadyLeft ==
    ASSUME TypeOK, ReadyHoldsQueuedJobs, NEW k \in Jobs,
           Abandoned => Abandoned',
           ready' = Retain(ready, k), state'[k] # "Queued",
           \A j \in Jobs : j # k => state'[j] = state[j]
    PROVE  ReadyHoldsQueuedJobs'
  <1>1. /\ Distinct(ready)
        /\ \A j \in Ids(ready) : state[j] = "Queued"
        /\ \A j \in Jobs : state[j] = "Queued" => j \in Ids(ready) \/ Abandoned
    BY ReadyUnfolded
  <1>2. ready \in Seq(Jobs) /\ Ids(ready) \subseteq Jobs
    BY DEF TypeOK, Ids
  <1>3. Distinct(ready') /\ Ids(ready') = Ids(ready) \ {k}
    BY <1>1, <1>2, RetainRemoves
  <1>4. \A j \in Ids(ready') : state'[j] = "Queued"
    BY <1>1, <1>2, <1>3
  <1>5. \A j \in Jobs : state'[j] = "Queued" => j \in Ids(ready') \/ Abandoned'
    BY <1>1, <1>3
  <1>6. QED
    BY <1>3, <1>4, <1>5, ReadyUnfoldedNext

\* Every step keeps `ready` and the queued jobs matched.
LEMMA ReadyStep ==
    ASSUME IInv, [Next]_vars
    PROVE  ReadyHoldsQueuedJobs'
  <1> USE DEF IInv
  <1>1. Ids(ready) \subseteq Jobs /\ ready \in Seq(Jobs)
    BY DEF TypeOK, Ids
  <1>2. ASSUME UNCHANGED vars PROVE ReadyHoldsQueuedJobs'
    <2>1. UNCHANGED <<ready, state, root, pc>>
      BY <1>2 DEF vars
    <2>2. QED
      BY <2>1, <1>1, ReadyLeftAlone DEF Abandoned
  <1>3. CASE ClientStep
    <2>1. UNCHANGED <<ready, state, pc>> /\ (root' = root \/ root' = TRUE)
      BY <1>3 DEF ClientStep, Send, Enqueue, CallPause, CallResume, CallCancel,
                  CallCancelAll, CallSetMaxConcurrent, CallRefused, CancelRoot, clientVars
    <2>2. Abandoned => Abandoned'
      BY Zenon, <2>1 DEF Abandoned
    <2>3. QED
      BY <2>1, <2>2, <1>1, ReadyLeftAlone
  <1>4. ASSUME UNCHANGED <<ready, state>>, ~Abandoned
        PROVE  ReadyHoldsQueuedJobs'
    BY <1>1, <1>4, ReadyLeftAlone
  <1>5. CASE PollStop \/ PollNoCmd \/ Wake \/ DispatchOver \/ Finish \/ HandleSetMaxConcurrent
    <2>1. UNCHANGED <<ready, state>>
      BY <1>5 DEF PollStop, PollNoCmd, Wake, DispatchOver, Finish, HandleSetMaxConcurrent
    <2>2. ~Abandoned
      BY <1>5 DEF PollStop, PollNoCmd, Wake, DispatchOver, Finish, HandleSetMaxConcurrent,
                  Receive, Abandoned
    <2>3. QED
      BY <2>1, <2>2, <1>4
  <1>6. CASE Stop \/ HandleCancelAll
    <2>1. CancelJobs(Jobs) /\ ready' = <<>>
      BY <1>6 DEF Stop, HandleCancelAll, CancelAllJobs
    <2>2. \A j \in Jobs : state'[j] # "Queued"
      BY <2>1, CancelJobsState DEF TypeOK, JobState, Idle
    <2>3. Distinct(ready') /\ Ids(ready') = {}
      BY <2>1 DEF Distinct, Ids
    <2>4. QED
      BY <2>2, <2>3, ReadyUnfoldedNext
  <1>7. ASSUME NEW op \in {"Enqueue", "Pause", "Resume", "Cancel"}, Receive(op)
        PROVE  Head(cmds).id \in Jobs /\ Head(cmds).op = op /\ ~Abandoned
    <2>1. Head(cmds) \in Command /\ Head(cmds).op = op
      BY <1>7 DEF Receive, TypeOK
    <2>2. QED
      BY <1>7, <2>1 DEF Command, Receive, Abandoned
  <1>8. CASE HandleEnqueue
    <2> DEFINE k == Head(cmds).id
    <2>1. /\ k \in Jobs /\ ready' = Append(ready, k) /\ ~Abandoned
          /\ state' = [state EXCEPT ![k] = "Queued"]
      BY <1>7, <1>8 DEF HandleEnqueue, Requeue
    <2>2. 1 \in Submissions(k)
      <3>1. 1 \in DOMAIN cmds /\ cmds[1] = Head(cmds) /\ Head(cmds) \in Command
        BY <1>8 DEF HandleEnqueue, Receive, TypeOK
      <3>2. Head(cmds) = [op |-> "Enqueue", id |-> k]
        BY <3>1, <1>7, <1>8 DEF HandleEnqueue, Command
      <3>3. QED
        BY <3>1, <3>2 DEF Submissions
    <2> HIDE DEF k
    <2>3. state[k] = "None"
      BY <2>1, <2>2 DEF DownloadsAccountedFor
    <2>4. QED
      BY <2>1, <2>3, ReadyJoined
  <1>9. CASE HandlePause
    <2> DEFINE j == Head(cmds).id
               c == Head(cmds).ack
    <2>1. /\ j \in Jobs /\ ~Abandoned
          /\ PauseIdle(j, c) \/ PauseRunning(j, c) \/ PausePausing(j, c) \/ PauseAnswered(j, c)
      BY <1>7, <1>9 DEF HandlePause
    <2> HIDE DEF j, c
    <2>2. CASE PauseIdle(j, c) /\ state[j] = "Queued"
      <3>1. ready' = Retain(ready, j) /\ state' = [state EXCEPT ![j] = "Paused"]
        BY <2>2 DEF PauseIdle, PauseJob
      <3>2. state'[j] # "Queued" /\ \A k \in Jobs : k # j => state'[k] = state[k]
        BY <2>1, <3>1 DEF TypeOK
      <3>3. QED
        BY <2>1, <3>1, <3>2, ReadyLeft
    <2>3. CASE \/ PauseIdle(j, c) /\ state[j] # "Queued"
               \/ PauseRunning(j, c) \/ PausePausing(j, c) \/ PauseAnswered(j, c)
      <3>1. /\ ready' = ready
            /\ \A k \in Jobs : state'[k] = "Queued" <=> state[k] = "Queued"
        BY <2>1, <2>3 DEF PauseIdle, PauseJob, PauseRunning, PausePausing, PauseAnswered, TypeOK
      <3>2. QED
        BY <2>1, <3>1, <1>1, ReadyLeftAlone
    <2>4. QED
      BY <2>1, <2>2, <2>3
  <1>10. CASE HandleResume
    <2> DEFINE j == Head(cmds).id
               c == Head(cmds).ack
    <2>1. /\ j \in Jobs /\ ~Abandoned
          /\ ResumePaused(j, c) \/ ResumeAnswered(j, c)
      BY <1>7, <1>10 DEF HandleResume
    <2> HIDE DEF j, c
    <2>2. CASE ResumePaused(j, c)
      BY <2>1, <2>2, ReadyJoined DEF ResumePaused, Requeue
    <2>3. CASE ResumeAnswered(j, c)
      BY <2>1, <2>3, <1>4 DEF ResumeAnswered
    <2>4. QED
      BY <2>1, <2>2, <2>3
  <1>11. CASE HandleCancel
    <2> DEFINE j == Head(cmds).id
    <2>1. /\ j \in Jobs /\ ~Abandoned /\ CancelJobs({j})
          /\ ready' = IF state[j] \in Idle THEN Retain(ready, j) ELSE ready
      BY <1>7, <1>11 DEF HandleCancel
    <2> HIDE DEF j
    <2>2. \A k \in Jobs : k # j => state'[k] = state[k]
      BY <2>1, CancelJobsState
    <2>3. CASE state[j] \in Idle
      <3>1. state'[j] = "None"
        BY <2>1, <2>3, CancelJobsState
      <3>2. QED
        BY <2>1, <2>2, <2>3, <3>1, ReadyLeft
    <2>4. CASE state[j] \notin Idle
      <3>1. state'[j] # "Queued" /\ state[j] # "Queued"
        <4>1. state[j] \in {"Running", "Pausing", "None", "Cancelling"}
          BY <2>1, <2>4 DEF TypeOK, JobState, Idle
        <4>2. QED
          BY <2>1, <4>1, CancelJobsState
      <3>2. ready' = ready /\ \A k \in Jobs : state'[k] = "Queued" <=> state[k] = "Queued"
        BY <2>1, <2>2, <2>4, <3>1
      <3>3. QED
        BY <2>1, <3>2, <1>1, ReadyLeftAlone
    <2>5. QED
      BY <2>3, <2>4
  <1>12. ASSUME CanDispatch, pc = "Dispatch", ready' = Tail(ready)
         PROVE  /\ Head(ready) \in Jobs /\ state[Head(ready)] = "Queued"
                /\ Distinct(ready') /\ Ids(ready') = Ids(ready) \ {Head(ready)}
                /\ \A j \in Jobs : state[j] = "Queued" <=> j \in Ids(ready)
    <2>1. ready # <<>> /\ ~Abandoned
      BY <1>12 DEF CanDispatch, Abandoned
    <2>2. Head(ready) \in Ids(ready)
      BY <1>1, <2>1 DEF Ids
    <2>3. /\ Distinct(ready)
          /\ \A j \in Ids(ready) : state[j] = "Queued"
          /\ \A j \in Jobs : state[j] = "Queued" => j \in Ids(ready)
      BY <2>1, ReadyUnfolded
    <2>4. Distinct(Tail(ready)) /\ Ids(Tail(ready)) = Ids(ready) \ {Head(ready)}
      BY <1>1, <2>1, <2>3, DistinctTail
    <2>5. QED
      BY <1>1, <1>12, <2>2, <2>3, <2>4
  <1>13. CASE DispatchJob
    <2>1. /\ Head(ready) \in Jobs /\ state[Head(ready)] = "Queued"
          /\ Distinct(ready') /\ Ids(ready') = Ids(ready) \ {Head(ready)}
          /\ \A j \in Jobs : state[j] = "Queued" <=> j \in Ids(ready)
      BY <1>12, <1>13 DEF DispatchJob
    <2>2. state' = [state EXCEPT ![Head(ready)] = "Running"]
      BY <1>13, <2>1 DEF DispatchJob
    <2>3. \A j \in Jobs : state'[j] = IF j = Head(ready) THEN "Running" ELSE state[j]
      BY <2>1, <2>2 DEF TypeOK
    <2>4. \A j \in Jobs : state'[j] = "Queued" <=> j \in Ids(ready')
      BY <2>1, <2>3
    <2>5. Ids(ready') \subseteq Jobs
      BY <1>1, <2>1
    <2>6. QED
      BY <2>1, <2>4, <2>5, ReadyUnfoldedNext
  <1>14. CASE DispatchAbandoned
    <2>1. /\ Distinct(ready') /\ Ids(ready') = Ids(ready) \ {Head(ready)}
          /\ \A j \in Jobs : state[j] = "Queued" <=> j \in Ids(ready)
      BY <1>12, <1>14 DEF DispatchAbandoned
    <2>2. state' = state /\ Abandoned'
      BY <1>14 DEF DispatchAbandoned, Abandoned, clientVars
    <2>3. QED
      BY <1>1, <2>1, <2>2, ReadyUnfoldedNext
  <1>15. ASSUME NEW w \in workers, WorkerStep(w) PROVE ReadyHoldsQueuedJobs'
    <2>1. /\ w.id \in Jobs /\ state[w.id] \in Live /\ ready' = ready /\ ~Abandoned
      BY <1>15, WorkerOutcome DEF WorkerReturns, Abandoned
    <2>2. \E x \in {"None", "Paused", "Retrying"} : state' = [state EXCEPT ![w.id] = x]
      BY <1>15, WorkerOutcome DEF Finalize, PauseJob, Retry
    <2>3. \A k \in Jobs : state'[k] = "Queued" <=> state[k] = "Queued"
      BY <2>1, <2>2 DEF TypeOK, Live
    <2>4. QED
      BY <1>1, <2>1, <2>3, ReadyLeftAlone
  <1>16. ASSUME NEW t \in delayed, RetryElapsed(t) PROVE ReadyHoldsQueuedJobs'
    <2>1. t.id \in Jobs /\ ~Abandoned
      BY <1>16 DEF RetryElapsed, TypeOK, Timer, Abandoned
    <2>2. CASE TimerMatches(t)
      BY <1>16, <2>1, <2>2, ReadyJoined DEF RetryElapsed, Requeue, TimerMatches
    <2>3. CASE ~TimerMatches(t)
      BY <1>16, <2>1, <2>3, <1>4 DEF RetryElapsed
    <2>4. QED
      BY <2>2, <2>3
  <1>17. QED
    BY <1>2, <1>3, <1>5, <1>6, <1>8, <1>9, <1>10, <1>11, <1>13, <1>14, <1>15, <1>16
       DEF Next, ThreadStep

----------------------------------------------------------------------------
(* Acks are accounted for *)

\* The commands that carry the ack of c.
AckOf(c) ==
    {m \in [op : {"Pause", "Resume"}, id : Jobs, ack : Calls] : m.ack = c}

\* The ack of c is as often in the channel after the step as before.
AckKept(c) ==
    /\ CommandsOf(c) = {} => CommandsOf(c)' = {}
    /\ (\E i \in DOMAIN cmds : CommandsOf(c) = {i})
           => \E i \in DOMAIN cmds' : CommandsOf(c)' = {i}

\* The step changes which jobs are being paused exactly as said by P.
PausingIs(P) == \A j \in Jobs : state'[j] = "Pausing" <=> j \in P
\* The jobs that are being paused.
PausingNow == {j \in Jobs : state[j] = "Pausing"}

\* CommandsOf as places in the queue, before and after a step.
LEMMA AckPlaces ==
    ASSUME TypeOK, TypeOK', NEW c \in Calls
    PROVE  /\ CommandsOf(c) = Places(cmds, AckOf(c))
           /\ CommandsOf(c)' = Places(cmds', AckOf(c))
  <1>1. ASSUME NEW q \in Seq(Command)
        PROVE  {i \in DOMAIN q : q[i].op \in {"Pause", "Resume"} /\ q[i].ack = c}
                    = Places(q, AckOf(c))
    <2>1. ASSUME NEW m \in Command
          PROVE  m.op \in {"Pause", "Resume"} /\ m.ack = c <=> m \in AckOf(c)
      BY DEF Command, AckOf
    <2>2. \A i \in DOMAIN q : q[i] \in Command
      OBVIOUS
    <2>3. QED
      BY <2>1, <2>2 DEF Places
  <1>2. cmds \in Seq(Command) /\ cmds' \in Seq(Command)
    BY DEF TypeOK
  <1>3. QED
    BY <1>1, <1>2 DEF CommandsOf

\* Appending a command keeps the acks of the callers it is not from.
LEMMA AckAppend ==
    ASSUME TypeOK, TypeOK', NEW m \in Command, cmds' = Append(cmds, m), NEW c \in Calls
    PROVE  /\ m \notin AckOf(c) => AckKept(c)
           /\ m \in AckOf(c) /\ CommandsOf(c) = {}
                => \E i \in DOMAIN cmds' : CommandsOf(c)' = {i}
  <1>1. /\ CommandsOf(c) = Places(cmds, AckOf(c))
        /\ CommandsOf(c)' = Places(Append(cmds, m), AckOf(c))
    BY AckPlaces
  <1>2. cmds \in Seq(Command)
    BY DEF TypeOK
  <1>3. /\ m \notin AckOf(c) => Places(Append(cmds, m), AckOf(c)) = Places(cmds, AckOf(c))
        /\ m \in AckOf(c) =>
              Places(Append(cmds, m), AckOf(c)) = Places(cmds, AckOf(c)) \cup {Len(cmds) + 1}
    BY <1>2, PlacesAppend
  <1>4. DOMAIN cmds \subseteq DOMAIN cmds' /\ Len(cmds) + 1 \in DOMAIN cmds'
    BY <1>2
  <1>5. QED
    BY <1>1, <1>3, <1>4 DEF AckKept

\* Taking the oldest command keeps the acks of the callers it is not from and
\* removes that of the caller it is from.
LEMMA AckTail ==
    ASSUME TypeOK, TypeOK', cmds # <<>>, cmds' = Tail(cmds), NEW c \in Calls
    PROVE  /\ Head(cmds) \notin AckOf(c) => AckKept(c)
           /\ Head(cmds) \in AckOf(c) /\ (\E i \in DOMAIN cmds : CommandsOf(c) = {i})
                => CommandsOf(c)' = {}
           /\ Head(cmds) \in AckOf(c) => CommandsOf(c) # {}
  <1>1. /\ CommandsOf(c) = Places(cmds, AckOf(c))
        /\ CommandsOf(c)' = Places(Tail(cmds), AckOf(c))
    BY AckPlaces
  <1>2. cmds \in Seq(Command) /\ cmds # <<>>
    BY DEF TypeOK
  <1>3. /\ Places(cmds, AckOf(c)) = {} => Places(Tail(cmds), AckOf(c)) = {}
        /\ Head(cmds) \notin AckOf(c) /\ (\E i \in DOMAIN cmds : Places(cmds, AckOf(c)) = {i})
             => \E i \in DOMAIN Tail(cmds) : Places(Tail(cmds), AckOf(c)) = {i}
        /\ Head(cmds) \in AckOf(c) /\ (\E i \in DOMAIN cmds : Places(cmds, AckOf(c)) = {i})
             => Places(Tail(cmds), AckOf(c)) = {}
    BY <1>2, PlacesTail
  <1>4. Head(cmds) \in AckOf(c) => 1 \in Places(cmds, AckOf(c))
    BY <1>2 DEF Places
  <1>5. QED
    BY <1>1, <1>3, <1>4 DEF AckKept

\* A step that answers the waiters of some jobs and lets go of them.
LEMMA AcksReleased ==
    ASSUME TypeOK, AcksAccountedFor, NEW W \in SUBSET Jobs, NEW r \in Reply,
           call' = Answer(UNION {waiters[j] : j \in W}, r),
           waiters' = [j \in Jobs |-> IF j \in W THEN {} ELSE waiters[j]],
           PausingIs(PausingNow \ W), \A c \in Calls : AckKept(c)
    PROVE  AcksAccountedFor'
  <1>1. \A j \in Jobs : waiters'[j] # {} <=> state'[j] = "Pausing"
    BY DEF AcksAccountedFor, PausingIs, PausingNow
  <1>2. ASSUME NEW c \in Calls
        PROVE  IF call'[c] = "Waiting"
               THEN \/ HeldBy(c)' = {} /\ \E i \in DOMAIN cmds' : CommandsOf(c)' = {i}
                    \/ CommandsOf(c)' = {} /\ \E j \in Jobs : HeldBy(c)' = {j}
               ELSE HeldBy(c)' = {} /\ CommandsOf(c)' = {}
    <2>1. HeldBy(c)' = HeldBy(c) \ W
      BY DEF HeldBy
    <2>2. call'[c] = IF HeldBy(c) \cap W # {} THEN r ELSE call[c]
      BY DEF Answer, HeldBy
    <2>3. r # "Waiting"
      BY DEF Reply, Result, JobError
    <2>4. CASE HeldBy(c) = {}
      BY <2>1, <2>2, <2>4 DEF AcksAccountedFor, AckKept
    <2>5. CASE HeldBy(c) # {}
      <3>1. PICK j \in Jobs : HeldBy(c) = {j} /\ CommandsOf(c) = {} /\ call[c] = "Waiting"
        BY <2>5 DEF AcksAccountedFor
      <3>2. CommandsOf(c)' = {}
        BY <3>1 DEF AckKept
      <3>3. QED
        BY <2>1, <2>2, <2>3, <3>1, <3>2
    <2>6. QED
      BY <2>4, <2>5
  <1>3. QED
    BY <1>1, <1>2 DEF AcksAccountedFor

\* A step that changes the ack of one caller, before (queued or not) and
\* after, and leaves the others where they are.
LEMMA AcksOthersKept ==
    ASSUME TypeOK, AcksAccountedFor, NEW c \in Calls,
           \A d \in Calls \ {c} :
               call'[d] = call[d] /\ HeldBy(d)' = HeldBy(d) /\ AckKept(d),
           \A j \in Jobs : waiters'[j] # {} <=> state'[j] = "Pausing",
           IF call'[c] = "Waiting"
           THEN \/ HeldBy(c)' = {} /\ \E i \in DOMAIN cmds' : CommandsOf(c)' = {i}
                \/ CommandsOf(c)' = {} /\ \E j \in Jobs : HeldBy(c)' = {j}
           ELSE HeldBy(c)' = {} /\ CommandsOf(c)' = {}
    PROVE  AcksAccountedFor'
  <1>1. ASSUME NEW d \in Calls \ {c}
        PROVE  IF call'[d] = "Waiting"
               THEN \/ HeldBy(d)' = {} /\ \E i \in DOMAIN cmds' : CommandsOf(d)' = {i}
                    \/ CommandsOf(d)' = {} /\ \E j \in Jobs : HeldBy(d)' = {j}
               ELSE HeldBy(d)' = {} /\ CommandsOf(d)' = {}
    BY DEF AcksAccountedFor, AckKept
  <1>2. QED
    BY <1>1 DEF AcksAccountedFor

\* Every step keeps each awaited ack in one place.
LEMMA AcksStep ==
    ASSUME IInv, TypeOK', [Next]_vars
    PROVE  AcksAccountedFor'
  <1> USE DEF IInv
  <1>1. ASSUME cmds' = cmds, NEW c \in Calls PROVE AckKept(c)
    BY <1>1 DEF AckKept, CommandsOf
  <1>2. ASSUME NEW m \in Command, cmds' = Append(cmds, m), NEW c \in Calls,
               m.op \notin {"Pause", "Resume"}
        PROVE  AckKept(c)
    <2>1. m \notin AckOf(c)
      BY <1>2 DEF AckOf
    <2>2. QED
      BY <1>2, <2>1, AckAppend
  <1>3. ASSUME NEW op \in {"Enqueue", "Cancel", "CancelAll", "SetMaxConcurrent"},
               Receive(op), NEW c \in Calls
        PROVE  AckKept(c)
    <2>1. cmds # <<>> /\ Head(cmds).op = op /\ cmds' = Tail(cmds)
      BY <1>3 DEF Receive
    <2>2. Head(cmds) \notin AckOf(c)
      BY <2>1 DEF AckOf
    <2>3. QED
      BY <2>1, <2>2, AckTail
  \* Steps that touch no ack.
  <1>4. ASSUME UNCHANGED <<call, waiters>>, \A c \in Calls : AckKept(c),
               PausingIs(PausingNow)
        PROVE  AcksAccountedFor'
    <2>1. call' = Answer(UNION {waiters[j] : j \in {}}, "Ok")
      BY <1>4 DEF Answer, TypeOK
    <2>2. waiters' = [j \in Jobs |-> IF j \in {} THEN {} ELSE waiters[j]]
      BY <1>4 DEF TypeOK
    <2>3. PausingIs(PausingNow \ {}) /\ "Ok" \in Reply
      BY <1>4 DEF Reply, Result
    <2>4. QED
      BY <1>4, <2>1, <2>2, <2>3, AcksReleased
  <1>5. ASSUME state' = state PROVE PausingIs(PausingNow)
    BY <1>5 DEF PausingIs, PausingNow
  <1>6. ASSUME UNCHANGED vars PROVE AcksAccountedFor'
    BY <1>1, <1>4, <1>5, <1>6 DEF vars
  \* Client steps.
  <1>7. ASSUME NEW c \in Calls, call[c] = "Idle", NEW r \in {"Sent", "Closed"},
               call' = [call EXCEPT ![c] = r], UNCHANGED <<state, waiters>>,
               \A d \in Calls : AckKept(d)
        PROVE  AcksAccountedFor'
    <2>1. \A d \in Calls : HeldBy(d)' = HeldBy(d)
      BY <1>7 DEF HeldBy
    <2>2. call'[c] # "Waiting" /\ \A d \in Calls \ {c} : call'[d] = call[d]
      BY <1>7 DEF TypeOK
    <2>3. HeldBy(c) = {} /\ CommandsOf(c) = {}
      BY <1>7 DEF AcksAccountedFor
    <2>4. HeldBy(c)' = {} /\ CommandsOf(c)' = {}
      BY <1>7, <2>1, <2>3 DEF AckKept
    <2>5. \A j \in Jobs : waiters'[j] # {} <=> state'[j] = "Pausing"
      BY <1>7 DEF AcksAccountedFor
    <2>6. QED
      BY <1>7, <2>1, <2>2, <2>4, <2>5, AcksOthersKept
  <1>8. ASSUME NEW c \in Calls, NEW j \in Jobs, CallPause(c, j) \/ CallResume(c, j)
        PROVE  AcksAccountedFor'
    <2>1. PICK op \in {"Pause", "Resume"} :
              /\ Send([op |-> op, id |-> j, ack |-> c])
              /\ call[c] = "Idle" /\ call' = [call EXCEPT ![c] = "Waiting"]
      BY <1>8 DEF CallPause, CallResume
    <2> DEFINE m == [op |-> op, id |-> j, ack |-> c]
    <2>2. /\ m \in Command /\ m \in AckOf(c)
          /\ \A d \in Calls \ {c} : m \notin AckOf(d)
      BY DEF Command, AckOf
    <2>3. cmds' = Append(cmds, m) /\ UNCHANGED <<state, waiters>>
      BY <2>1 DEF Send
    <2> HIDE DEF m
    <2>4. HeldBy(c) = {} /\ CommandsOf(c) = {}
      BY <2>1 DEF AcksAccountedFor
    <2>5. /\ \A d \in Calls \ {c} : AckKept(d)
          /\ \E i \in DOMAIN cmds' : CommandsOf(c)' = {i}
      BY <2>2, <2>3, <2>4, AckAppend
    <2>6. \A d \in Calls : HeldBy(d)' = HeldBy(d)
      BY <2>3 DEF HeldBy
    <2>7. call'[c] = "Waiting" /\ \A d \in Calls \ {c} : call'[d] = call[d]
      BY <2>1 DEF TypeOK
    <2>8. \A k \in Jobs : waiters'[k] # {} <=> state'[k] = "Pausing"
      BY <2>3 DEF AcksAccountedFor
    <2>9. QED
      BY <2>4, <2>5, <2>6, <2>7, <2>8, AcksOthersKept
  <1>9. ASSUME NEW j \in Jobs, Enqueue(j) PROVE AcksAccountedFor'
    <2>1. [op |-> "Enqueue", id |-> j] \in Command
      BY DEF Command
    <2>2. QED
      BY <1>2, <1>4, <1>5, <1>9, <2>1 DEF Enqueue, Send
  <1>10. ASSUME NEW c \in Calls, NEW j \in Jobs, CallCancel(c, j) PROVE AcksAccountedFor'
    <2>1. [op |-> "Cancel", id |-> j] \in Command
      BY DEF Command
    <2>2. QED
      BY <1>2, <1>7, <1>10, <2>1 DEF CallCancel, Send
  <1>11. ASSUME NEW c \in Calls, CallCancelAll(c) PROVE AcksAccountedFor'
    <2>1. [op |-> "CancelAll"] \in Command
      BY DEF Command
    <2>2. QED
      BY <1>2, <1>7, <1>11, <2>1 DEF CallCancelAll, Send
  <1>12. ASSUME NEW c \in Calls, NEW n \in Limits, CallSetMaxConcurrent(c, n)
         PROVE  AcksAccountedFor'
    <2>1. [op |-> "SetMaxConcurrent", max |-> n] \in Command
      BY DEF Command
    <2>2. QED
      BY <1>2, <1>7, <1>12, <2>1 DEF CallSetMaxConcurrent, Send
  <1>13. ASSUME NEW c \in Calls, CallRefused(c) PROVE AcksAccountedFor'
    BY <1>1, <1>7, <1>13 DEF CallRefused, clientVars
  <1>14. CASE CancelRoot
    BY <1>1, <1>4, <1>5, <1>14 DEF CancelRoot
  \* Thread steps that touch no ack.
  <1>15. CASE PollStop \/ PollNoCmd \/ Wake \/ DispatchAbandoned \/ DispatchOver \/ Finish
    <2>1. UNCHANGED <<cmds, call, waiters, state>>
      BY <1>15 DEF PollStop, PollNoCmd, Wake, DispatchAbandoned, DispatchOver, Finish, clientVars
    <2>2. QED
      BY <2>1, <1>1, <1>4, <1>5
  <1>16. CASE HandleSetMaxConcurrent
    BY <1>16, <1>3, <1>4, <1>5 DEF HandleSetMaxConcurrent
  <1>17. ASSUME NEW j \in Jobs, state[j] # "Pausing", NEW s \in JobState \ {"Pausing"},
                state' = [state EXCEPT ![j] = s]
         PROVE  PausingIs(PausingNow)
    BY <1>17 DEF PausingIs, PausingNow, TypeOK
  <1>18. CASE HandleEnqueue
    <2> DEFINE k == Head(cmds).id
    <2>1. 1 \in DOMAIN cmds /\ cmds[1] = Head(cmds) /\ Head(cmds) \in Command
          /\ Head(cmds).op = "Enqueue"
      BY <1>18 DEF HandleEnqueue, Receive, TypeOK
    <2>2. k \in Jobs /\ 1 \in Submissions(k)
      BY <2>1 DEF Command, Submissions
    <2>3. UNCHANGED <<call, waiters>> /\ state' = [state EXCEPT ![k] = "Queued"]
      BY <1>18 DEF HandleEnqueue, Requeue
    <2>4. \A c \in Calls : AckKept(c)
      BY <1>18, <1>3 DEF HandleEnqueue
    <2> HIDE DEF k
    <2>5. state[k] = "None" /\ "Queued" \in JobState \ {"Pausing"}
      BY <2>2 DEF DownloadsAccountedFor, JobState
    <2>6. PausingIs(PausingNow)
      BY <1>17, <2>2, <2>3, <2>5
    <2>7. QED
      BY <1>4, <2>3, <2>4, <2>6
  <1>19. CASE DispatchJob
    <2>1. UNCHANGED <<cmds, call, waiters>>
      BY <1>19 DEF DispatchJob, clientVars
    <2>2. \/ state' = state
          \/ state[Head(ready)] = "Queued" /\ state' = [state EXCEPT ![Head(ready)] = "Running"]
      BY <1>19 DEF DispatchJob
    <2>3. Head(ready) \in Jobs
      BY <1>19 DEF DispatchJob, CanDispatch, TypeOK
    <2>4. PausingIs(PausingNow)
      BY <2>2, <2>3, <1>5, <1>17 DEF JobState
    <2>5. QED
      BY <2>1, <2>4, <1>1, <1>4
  <1>20. ASSUME NEW t \in delayed, RetryElapsed(t) PROVE AcksAccountedFor'
    <2>1. UNCHANGED <<cmds, call, waiters>> /\ t.id \in Jobs
      BY <1>20 DEF RetryElapsed, clientVars, TypeOK, Timer
    <2>2. \/ state' = state
          \/ state[t.id] = "Retrying" /\ state' = [state EXCEPT ![t.id] = "Queued"]
      BY <1>20 DEF RetryElapsed, TimerMatches, Requeue
    <2>3. PausingIs(PausingNow)
      BY <2>1, <2>2, <1>5, <1>17 DEF JobState
    <2>4. QED
      BY <2>1, <2>3, <1>1, <1>4
  \* Cancellations answer the waiters of the jobs they stop.
  <1>21. ASSUME NEW S \in SUBSET Jobs, CancelJobs(S), \A c \in Calls : AckKept(c)
         PROVE  AcksAccountedFor'
    <2> DEFINE idle == {j \in S : state[j] \in Idle}
               live == {j \in S : state[j] \in {"Running", "Pausing"}}
    <2>1. /\ state' = [j \in Jobs |-> IF j \in idle THEN "None"
                                      ELSE IF j \in live THEN "Cancelling"
                                      ELSE state[j]]
          /\ call' = Answer(UNION {waiters[j] : j \in live}, "Cancelled")
          /\ waiters' = [j \in Jobs |-> IF j \in live THEN {} ELSE waiters[j]]
      BY <1>21 DEF CancelJobs
    <2>2. PausingIs(PausingNow \ live)
      BY <2>1 DEF PausingIs, PausingNow, Idle
    <2>3. "Cancelled" \in Reply /\ live \in SUBSET Jobs
      BY DEF Reply, Result, JobError
    <2> HIDE DEF idle, live
    <2>4. QED
      BY <1>21, <2>1, <2>2, <2>3, AcksReleased
  <1>22. CASE Stop
    BY <1>1, <1>21, <1>22 DEF Stop, CancelAllJobs
  <1>23. CASE HandleCancelAll
    BY <1>3, <1>21, <1>23 DEF HandleCancelAll, CancelAllJobs
  <1>24. CASE HandleCancel
    <2>1. /\ Head(cmds) \in Command /\ Head(cmds).op = "Cancel"
          /\ CancelJobs({Head(cmds).id})
      BY <1>24 DEF HandleCancel, Receive, TypeOK
    <2>2. Head(cmds).id \in Jobs
      BY <2>1 DEF Command
    <2>3. \A c \in Calls : AckKept(c)
      BY <1>3, <1>24 DEF HandleCancel
    <2>4. QED
      BY <2>1, <2>2, <2>3, <1>21
  \* The end of a worker answers the waiters of its job.
  <1>25. ASSUME NEW j \in Jobs, NEW r \in Reply, NEW s \in {"None", "Paused"},
                cmds' = cmds, call' = Answer(waiters[j], r),
                waiters' = [waiters EXCEPT ![j] = {}], state' = [state EXCEPT ![j] = s]
         PROVE  AcksAccountedFor'
    <2>1. call' = Answer(UNION {waiters[k] : k \in {j}}, r)
      BY <1>25
    <2>2. waiters' = [k \in Jobs |-> IF k \in {j} THEN {} ELSE waiters[k]]
      BY <1>25 DEF TypeOK
    <2>3. PausingIs(PausingNow \ {j})
      BY <1>25 DEF PausingIs, PausingNow, TypeOK
    <2>4. \A c \in Calls : AckKept(c)
      BY <1>1, <1>25
    <2>5. QED
      BY <2>1, <2>2, <2>3, <2>4, AcksReleased
  <1>26. ASSUME NEW w \in workers, WorkerStep(w) PROVE AcksAccountedFor'
    <2>1. /\ w.id \in Jobs /\ cmds' = cmds
          /\ \/ \E r \in Result : Finalize(w.id, r)
             \/ PauseJob(w.id, {})
             \/ state[w.id] = "Running" /\ Retry(w.id)
      BY <1>26, WorkerOutcome DEF WorkerReturns, clientVars
    <2>2. Result \subseteq Reply /\ "Ok" \in Reply
      BY DEF Reply, Result
    <2>3. CASE \E r \in Result : Finalize(w.id, r)
      BY <2>1, <2>2, <2>3, <1>25 DEF Finalize
    <2>4. CASE PauseJob(w.id, {})
      <3>1. waiters[w.id] \cup {} = waiters[w.id]
        OBVIOUS
      <3>2. QED
        BY <2>1, <2>2, <2>4, <3>1, <1>25 DEF PauseJob
    <2>5. CASE state[w.id] = "Running" /\ Retry(w.id)
      <3>1. UNCHANGED <<call, waiters>> /\ state' = [state EXCEPT ![w.id] = "Retrying"]
        BY <2>5 DEF Retry
      <3>2. PausingIs(PausingNow)
        BY <2>1, <2>5, <3>1, <1>17 DEF JobState
      <3>3. QED
        BY <2>1, <3>1, <3>2, <1>1, <1>4
    <2>6. QED
      BY <2>1, <2>3, <2>4, <2>5
  \* Pause and resume take one ack out of the channel.
  <1>27. ASSUME NEW op \in {"Pause", "Resume"}, Receive(op)
          PROVE  Head(cmds).id \in Jobs /\ \E c \in Calls : c = Head(cmds).ack
    <2>1. Head(cmds) \in Command /\ Head(cmds).op = op
      BY <1>27 DEF Receive, TypeOK
    <2>2. QED
      BY <2>1 DEF Command
  <1>28. ASSUME NEW op \in {"Pause", "Resume"}, Receive(op),
                NEW c \in Calls, c = Head(cmds).ack
         PROVE  /\ \A d \in Calls \ {c} : AckKept(d)
                /\ CommandsOf(c)' = {}
                /\ call[c] = "Waiting" /\ HeldBy(c) = {}
    <2>1. /\ cmds # <<>> /\ cmds' = Tail(cmds)
          /\ Head(cmds) \in Command /\ Head(cmds).op = op
      BY <1>28 DEF Receive, TypeOK
    <2>2. /\ Head(cmds) \in AckOf(c)
          /\ \A d \in Calls \ {c} : Head(cmds) \notin AckOf(d)
      BY <1>28, <2>1 DEF Command, AckOf
    <2>3. CommandsOf(c) # {}
      BY <2>1, <2>2, AckTail
    <2>4. /\ call[c] = "Waiting" /\ HeldBy(c) = {}
          /\ \E i \in DOMAIN cmds : CommandsOf(c) = {i}
      BY <2>3 DEF AcksAccountedFor
    <2>5. CommandsOf(c)' = {}
      BY <2>1, <2>2, <2>4, AckTail
    <2>6. \A d \in Calls \ {c} : AckKept(d)
      BY <2>1, <2>2, AckTail
    <2>7. QED
      BY <2>4, <2>5, <2>6
  <1>29. ASSUME NEW op \in {"Pause", "Resume"}, Receive(op),
                NEW c \in Calls, c = Head(cmds).ack, NEW r \in Reply,
                call' = Answer({c}, r), waiters' = waiters, PausingIs(PausingNow)
         PROVE  AcksAccountedFor'
    <2>1. /\ CommandsOf(c)' = {} /\ HeldBy(c) = {}
          /\ \A d \in Calls \ {c} : AckKept(d)
      BY <1>28, <1>29
    <2>2. call'[c] # "Waiting" /\ \A d \in Calls \ {c} : call'[d] = call[d]
      BY <1>29 DEF Answer, Reply, Result, JobError
    <2>3. \A d \in Calls : HeldBy(d)' = HeldBy(d)
      BY <1>29 DEF HeldBy
    <2>4. \A j \in Jobs : waiters'[j] # {} <=> state'[j] = "Pausing"
      BY <1>29 DEF AcksAccountedFor, PausingIs, PausingNow
    <2>5. QED
      BY <2>1, <2>2, <2>3, <2>4, AcksOthersKept
  <1>30. ASSUME Receive("Pause"), NEW c \in Calls, c = Head(cmds).ack,
                NEW j \in Jobs, call' = call,
                waiters' = [waiters EXCEPT ![j] = @ \cup {c}],
                PausingIs(PausingNow \cup {j})
         PROVE  AcksAccountedFor'
    <2>1. /\ CommandsOf(c)' = {} /\ HeldBy(c) = {} /\ call[c] = "Waiting"
          /\ \A d \in Calls \ {c} : AckKept(d)
      BY <1>28, <1>30
    <2>2. \A k \in Jobs : waiters'[k] = IF k = j THEN waiters[k] \cup {c} ELSE waiters[k]
      BY <1>30 DEF TypeOK
    <2>3. /\ \A d \in Calls \ {c} : HeldBy(d)' = HeldBy(d)
          /\ HeldBy(c)' = {j}
      BY <2>1, <2>2 DEF HeldBy
    <2>4. \A k \in Jobs : waiters'[k] # {} <=> state'[k] = "Pausing"
      <3>1. \A k \in Jobs : waiters[k] # {} <=> state[k] = "Pausing"
        BY DEF AcksAccountedFor
      <3>2. \A k \in Jobs : state'[k] = "Pausing" <=> state[k] = "Pausing" \/ k = j
        BY <1>30 DEF PausingIs, PausingNow
      <3>3. QED
        BY <2>2, <3>1, <3>2
    <2>5. QED
      BY <1>30, <2>1, <2>3, <2>4, AcksOthersKept
  <1>31. ASSUME NEW j \in Jobs, state[j] # "Pausing" PROVE waiters[j] = {}
    BY <1>31 DEF AcksAccountedFor
  <1>32. {"Ok", "Unknown", "Invalid"} \subseteq Reply
    BY DEF Reply, Result, JobError
  <1>33. CASE HandlePause
    <2>0. PICK j \in Jobs, c \in Calls : j = Head(cmds).id /\ c = Head(cmds).ack
      BY <1>27, <1>33 DEF HandlePause
    <2>1. /\ Receive("Pause") /\ c = Head(cmds).ack
          /\ PauseIdle(j, c) \/ PauseRunning(j, c) \/ PausePausing(j, c) \/ PauseAnswered(j, c)
      BY <2>0, <1>33 DEF HandlePause
    <2>2. CASE PauseIdle(j, c)
      <3>1. waiters[j] = {} /\ state[j] # "Pausing"
        BY <1>31, <2>1, <2>2 DEF PauseIdle
      <3>2. call' = Answer({c}, "Ok") /\ waiters' = waiters
            /\ state' = [state EXCEPT ![j] = "Paused"]
        <4>1. waiters[j] \cup {c} = {c} /\ waiters' = [waiters EXCEPT ![j] = {}]
              /\ call' = Answer(waiters[j] \cup {c}, "Ok")
              /\ state' = [state EXCEPT ![j] = "Paused"]
          BY <3>1, <2>2 DEF PauseIdle, PauseJob
        <4>2. [waiters EXCEPT ![j] = {}] = waiters
          BY <3>1, <2>1 DEF TypeOK
        <4>3. QED
          BY <4>1, <4>2
      <3>3. PausingIs(PausingNow)
        BY <2>1, <3>1, <3>2, <1>17 DEF JobState
      <3>4. QED
        BY <2>1, <3>2, <3>3, <1>29, <1>32
    <2>3. CASE PauseRunning(j, c)
      <3>1. waiters[j] = {} /\ call' = call /\ waiters' = [waiters EXCEPT ![j] = {c}]
            /\ state' = [state EXCEPT ![j] = "Pausing"]
        BY <1>31, <2>1, <2>3 DEF PauseRunning
      <3>2. waiters' = [waiters EXCEPT ![j] = @ \cup {c}]
        BY <3>1
      <3>3. PausingIs(PausingNow \cup {j})
        BY <2>1, <3>1 DEF PausingIs, PausingNow, TypeOK
      <3>4. QED
        BY <2>1, <3>1, <3>2, <3>3, <1>30
    <2>4. CASE PausePausing(j, c)
      <3>1. PausingIs(PausingNow \cup {j})
        BY <2>1, <2>4 DEF PausePausing, PausingIs, PausingNow
      <3>2. QED
        BY <2>1, <2>4, <3>1, <1>30 DEF PausePausing
    <2>5. CASE PauseAnswered(j, c)
      <3>1. UNCHANGED <<waiters, state>>
            /\ \E r \in {"Ok", "Unknown", "Invalid"} : call' = Answer({c}, r)
        BY <2>5 DEF PauseAnswered
      <3>2. QED
        BY <2>1, <3>1, <1>5, <1>29, <1>32
    <2>6. QED
      BY <2>1, <2>2, <2>3, <2>4, <2>5
  <1>34. CASE HandleResume
    <2>0. PICK j \in Jobs, c \in Calls : j = Head(cmds).id /\ c = Head(cmds).ack
      BY <1>27, <1>34 DEF HandleResume
    <2>1. /\ Receive("Resume") /\ c = Head(cmds).ack /\ waiters' = waiters
          /\ ResumePaused(j, c) \/ ResumeAnswered(j, c)
      BY <2>0, <1>34 DEF HandleResume
    <2>2. \E r \in {"Ok", "Unknown", "Invalid"} : call' = Answer({c}, r)
      BY <2>1 DEF ResumePaused, ResumeAnswered
    <2>3. PausingIs(PausingNow)
      <3>1. CASE ResumePaused(j, c)
        BY <2>1, <3>1, <1>17 DEF ResumePaused, Requeue, JobState
      <3>2. CASE ResumeAnswered(j, c)
        BY <3>2, <1>5 DEF ResumeAnswered
      <3>3. QED
        BY <2>1, <3>1, <3>2
    <2>4. QED
      BY <2>1, <2>2, <2>3, <1>29, <1>32
  <1>35. QED
    BY <1>6, <1>8, <1>9, <1>10, <1>11, <1>12, <1>13, <1>14, <1>15, <1>16, <1>18, <1>19,
       <1>20, <1>22, <1>23, <1>24, <1>26, <1>33, <1>34
       DEF Next, ClientStep, ThreadStep

----------------------------------------------------------------------------
(* The theorems *)

\* Every step keeps the inductive invariant.
LEMMA StepIInv ==
    ASSUME IInv, [Next]_vars
    PROVE  IInv'
  <1>1. TypeOK'
    BY TypeStep
  <1>2. OneWorkerPerLiveJob'
    BY WorkerStepKeeps
  <1>3. ReadyHoldsQueuedJobs'
    BY ReadyStep
  <1>4. OneTimerPerRetry' /\ TimersOfSeenJobs'
    BY TimerStep, TimersSeenStep DEF IInv
  <1>5. AcksAccountedFor'
    BY <1>1, AcksStep
  <1>6. DownloadsAccountedFor'
    BY DownloadsStep DEF IInv
  <1>7. QED
    BY <1>1, <1>2, <1>3, <1>4, <1>5, <1>6 DEF IInv

\* The inductive invariant holds in every state the scheduler and its clients
\* can reach.
THEOREM Invariance == Spec => []IInv
  BY InitIInv, StepIInv, PTL DEF Spec

\* Every variable keeps its type; no download is tried again more often than
\* its request allows.
THEOREM TypeCorrect == Spec => []TypeOK
  <1>1. IInv => TypeOK
    BY DEF IInv
  <1>2. QED
    BY <1>1, Invariance, PTL

\* A download has one worker exactly while its job waits for one, and a pause
\* or a cancellation under way has reached the stop token of that worker.
THEOREM WorkersMatchJobs == Spec => []OneWorkerPerLiveJob
  <1>1. IInv => OneWorkerPerLiveJob
    BY DEF IInv
  <1>2. QED
    BY <1>1, Invariance, PTL

\* The ready queue of try_dispatch holds each queued job once and no other.
THEOREM QueueMatchesJobs == Spec => []ReadyHoldsQueuedJobs
  <1>1. IInv => ReadyHoldsQueuedJobs
    BY DEF IInv
  <1>2. QED
    BY <1>1, Invariance, PTL

\* A job in back-off has exactly one timer that can end it.
THEOREM TimersMatchRetries == Spec => []OneTimerPerRetry
  <1>1. IInv => OneTimerPerRetry
    BY DEF IInv
  <1>2. QED
    BY <1>1, Invariance, PTL

\* No ack of pause or resume is lost by a handler or answered twice.
THEOREM NoAckLost == Spec => []AcksAccountedFor
  <1>1. IInv => AcksAccountedFor
    BY DEF IInv
  <1>2. QED
    BY <1>1, Invariance, PTL

\* No download is lost by a handler: it is in the channel, in the map of the
\* scheduler, or has its result.
THEOREM NoDownloadLost == Spec => []DownloadsAccountedFor
  <1>1. IInv => DownloadsAccountedFor
    BY DEF IInv
  <1>2. QED
    BY <1>1, Invariance, PTL

=============================================================================
