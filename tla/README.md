# Verification of the download manager

TLA+ specifications of the `download-manager` crate, the TLC runs that check them
on small instances, and proofs of their main invariants for all instances, checked
by TLAPS. Paths below are relative to the repository root (`src/scheduler.rs` is
the file `src/src/scheduler.rs` of `PROJECT.json`).

## 1. The system

A client creates a `DownloadManager`, enqueues `Request`s and gets a `Download`
handle for each. One thread runs `Scheduler::run`; the transfers are futures that
this thread polls. Everything goes through a bounded command channel, one-shot
channels for acks and results, a tree of cancellation tokens, and a broadcast of
events.

| Component | State | Operations | Interacts with |
|---|---|---|---|
| Scheduler loop (`scheduler.rs`) | map of jobs, `ready` queue, worker futures, retry timers, `max_concurrent` | poll of token, channel, workers, timers in this order; `handle_cmd`; `transition_job`; `try_dispatch`; drain | commands in; events, acks, results out; stop tokens to workers; `discard_partial` |
| Job (`scheduler/job.rs`) | `JobState`, attempt, pause waiters, result sender | `finalize`, `pause`, `retry`, `resolve_pause_waiters` | called by `transition_job` |
| Manager (`manager.rs`, `context.rs`) | root token, command sender | `enqueue`, `cancel_all`, `set_max_concurrent`, `shutdown`, drop | command channel, root token |
| Download (`download.rs`) | id, command sender, shared result future | `pause`, `resume`, `cancel`, await | command channel, result channel |
| Worker (`worker.rs`) | the locals of `run` | look for a partial file, request, restart on 416, read loop, finalize | HTTP client, part file, stop token |
| Part file (`storage/file.rs`) | file position, `dirty`, manifest in memory | `open`, `write`, `checkpoint`, `finalize` | file system, manifest |
| Manifest (`storage/manifest.rs`) | URL, validators, completed ranges, on disk | `load`, `save`, `resume_offset`, `is_resumable_for` | file system |
| Sidecar helpers (`storage/mod.rs`) | - | `part_len`, `discard_partial` | file system |
| Back-off (`scheduler.rs`) | - | `next_delay` | retry timers |
| Progress (`events.rs`) | bytes counted, bytes at the last sample, rates | `add`, `force_update` | called by the worker, broadcast to clients |
| Request builder, errors (`request.rs`, `error.rs`) | values | builders, `is_retryable` | all |

What is hard here, and what makes each part correct:

- *Scheduler.* Any command can reach a job in any of its six states, between any
  two of its worker, timer and dispatch steps. Each job must stay in exactly one
  place, with a worker exactly while its state waits for one, with one live timer
  exactly while it backs off; each ack and each result is given once; no slot
  stays idle; shutdown, cancellation and pauses come to an end; a cancellation
  beats a retry or a failure that races with it.
- *Worker and storage.* A run may end at any file operation by a crash, an error
  or a stop, and the server may replace the file between two runs. No sequence of
  runs may complete a file made of two contents, a crash may lose only what was
  received since the last checkpoint, and a stop must end a run although the
  server is silent.
- *Both together.* What the scheduler tells a client must be true of the files: a
  cancelled download has left no part file and no manifest, a paused one is not
  touched, a finished one is at its destination and no other is. And what a run
  returns must be what `transition_job` expects of it.
- *Manifest.* The search for the contiguous prefix must end, skip no gap and stop at
  the first, for whatever ranges a manifest on the disk holds.
- *Several downloads.* They share one thread, and may share a destination.

The full list of hazards, with the line where each bites and the properties that
cover it, is in `PROJECT.json`.

## 2. The modules

| Module | What it is |
|---|---|
| `Lifecycle` | Abstract: what a reader of events and results may rely on |
| `Scheduler` | The scheduler thread, the client handles and the channels between them |
| `SchedulerProofs` | The inductive invariant of `Scheduler`, proved |
| `SchedulerPromises` | Further invariants and action properties, proved from it |
| `SchedulerRefinement` | `Scheduler` implements `Lifecycle`, proved |
| `Transfer` | Worker, part file, manifest, clean-up and progress on one destination, over many runs |
| `TransferProofs` | Its invariants and its action property, proved |
| `Managed` | `Scheduler` and `Transfer` composed, for one download |
| `ManagedProofs` | What the two promise together, proved |
| `SharedDestination` | Several runs at once on one destination |
| `ResumeOffset` | The search of `Manifest::resume_offset` over any ranges |
| `ResumeOffsetProofs` | Its correctness, proved |
| `Backoff` | The delays between retries and the one thread that computes them |
| `BackoffProofs` | Why 64 retries are safe, proved |
| `MCScheduler`, `MCTransfer`, `MCManaged` | Constants of the TLC instances |

### Scheduler

Variables are the code's: `cmds` is the channel, `state`, `attempt`, `waiters` and
`token` are the fields of the jobs in the map (`"None"` for a job that is not in
it), `ready`, `delayed`, `workers` and `limit` are fields of `Scheduler`, `root`
and `closed` are the root token and the state of the channel, `call` and `result`
hold what client calls and result futures have received. `event` (the last event
of each download), `enqueued`, `asked` and `swept` record history for the
properties; the code never reads them.

`Scheduler::run` is cut at each point where it reads something that a client
thread may change: `pc` is `PollStop` before the root token is polled, `PollCmd`
before the channel, `PollWork` before workers and timers (and while the thread is
parked), `Dispatch` at each turn of `try_dispatch`, which reads the root token
after it has popped an id, `Drain` in the loop after `Next::Stop`, and `Done`. The
handling of a command, a result or a timer is one step, since it touches nothing
that others share except channels it only sends to. `HandleEnqueue` to
`HandleSetMaxConcurrent` are `handle_cmd`, `WorkerFinished`, `WorkerStopped`,
`WorkerFailed` and `WorkerFatal` the four groups of results in
`JobEvent::Worker`, `RetryElapsed` is `JobEvent::RetryElapsed`.

Abstractions: errors are reduced to the classes that the code tells apart
(`is_retryable`, I/O of a clean-up, `Cancelled`, `Unknown`); a worker may return
any result, but `Stopped` only if its token is cancelled; a timer may fire at any
time, so the length of a delay does not matter; `CallRefused` is every send that fails
on the closed channel, and a send that meets a full channel is a step not taken;
ids are never reused; an awaiting client never drops its call.

`Lifecycle` sees of this only the last event, the result, the retries used, the
downloads with a worker and the limit. `Scheduler` maps its variables to these and
`KeepsContract` says that each of its steps is a step of `Lifecycle` or none.

### Transfer

One destination and any number of runs, one at a time. A byte carries its origin:
URL, revision of the file on the server, and position. The disk is the part file,
how much of it is durable (`synced`), the manifest as it would be loaded (`saved`)
and the one that a loss of power could bring back (`older`), the temporary manifest
(`temp`), and the destination.
Each file operation that a crash can separate from the next is a step: `Open`
(`set_len`), `Read` (a chunk reaches the file), `Sync`, `WriteTemp` and `Save` (the
sync of `checkpoint`, the write and the rename of `Manifest::save`), `FinSync`, `Rename` and `Unlink` (`finalize`), `DiscardPart` and
`DiscardManifest` (`discard_partial`). `Begin` is the look at the destination, the
manifest and the length of the part file, which nobody else changes meanwhile; a
manifest that cannot be read counts as none and stays on the disk. A save that fails
after `WriteTemp` leaves `temp` behind, and no clean-up removes it; of one that fails
within the write, what it leaves is not told from what was there, since no step reads
a temporary manifest but the `Save` after its own `WriteTemp`.
`RespondWhole`, `RespondRest` and `RespondOutOfRange` are a 200, a 206 and a 416.

`First` is where a `Range` header of the user's own starts, 0 without one; `Asked`
is the range that a request carries (a resume replaces the user's, a first request
and a restart after a 416 keep it), and the run takes any 206 to start at `offset`. `shown` is the byte count last broadcast as
progress (`last_sample_bytes`): `Add` must broadcast after `Sample` bytes and may
earlier, since enough time may have passed.

Outside the crate, and assumed:

- the server answers 206 only if the validator of `If-Range` is that of what it
  serves; distinct revisions have distinct validators, or none, and a server does
  not return to an old revision; it may ignore ranges and send a 200;
- the HTTP client reports a body cut short as an error;
- the request's own headers hold no `If-Range`;
- the end of a process loses nothing that was written; a loss of power may lose or
  spoil what was not synced, and may take the last rename of the manifest back or
  leave it unreadable. The rename of the finished file and truncations are taken
  to be durable;
- one download at a time uses a destination (`SharedDestination` is about more).

`powerLost` records whether the machine ever lost power: `DestWhole` and
`ResumeSafe` are promised only without that, since a rename that is not synced may
be taken back.

### Managed

`Managed` extends `Scheduler` and instantiates `Transfer` with its `pc` and `result`
renamed, for one download and one lifetime of the process. The worker future of
`Scheduler` is the run of `Transfer`: `Dispatches` conjoins `DispatchJob` with the
begin of a run, `Collects` hands the run's result to the handler for it,
`TokenSeen` makes the run's stop token the one the job holds, and `Discards` lets
`cancel_job` remove the files, or fail before or after it has removed the first.
All other steps of the two modules interleave, since file operations complete on
other threads, and the server may replace the file at any time (`Publishes`). No
worker panics.

Limits of the composition: the destination and both sidecars are absent at first and
no representation is empty. So a run that fails because the destination exists, one
that overwrites an older file, and an empty body do not occur under the scheduler;
`Transfer`, which may find a finished file of an earlier run at the destination, has
the first two. What is shown of `Managed` is shown under these conditions.

### SharedDestination

Files have an identity apart from their names: a run writes through the file it has
opened, wherever it has been renamed to. Stops, checkpoints and manifests are left
out (the files are shorter than a checkpoint interval).

### ResumeOffset and Backoff

One step of `ResumeOffset` is one turn of the `while let`, where `find` takes the
first range that passes the test. `Backoff` keeps of the scheduler the attempts of
each download and the thread: `RetryPanics` is the call of `next_delay` from
attempt 64 on, where `mul_f64` has no value, and drops all jobs.

## 3. The runs

| Run | Instance | What it shows |
|---|---|---|
| `safety` | two downloads with two retries, three calls and a shutdown, one slot that may become two, channel of two; symmetric | all invariants and action properties of `Scheduler`, and `KeepsContract` |
| `liveness` | two downloads, one retry, two calls; no symmetry | the four liveness properties under `FairSpec` |
| `cancel_hang` | one download, one call | violated: a `cancel` that was still in the channel at shutdown never returns |
| `cancel_err` | the same | violated: `cancel` returns a failure that is neither a clean-up error nor a shutdown |
| `transfer` | one URL, three revisions of 3, 2 and 3 bytes, the last without a validator; buffer, checkpoint interval and sample of 2 bytes; crashes and losses of power | all invariants of `Transfer` and `CheckpointDurable` |
| `managed` | one download of 2 bytes that is replaced once by a file of 1, one retry, two calls and a shutdown; the user asks for a range | `StoppedOnlyIfTold`, `CleanedUp`, `DeliveredOnlyIfOk`, `PausedKeepsMost`, `PausedFileUntouched`, and `ImplementsScheduler` under `ManagedFairSpec` |
| `resume_offset` | all lists of up to three ranges over bytes 0 to 4 | `Covered`, `WholePrefix`, `RoundTrip`, `Terminates` |
| `mixed_file` | two URLs, one destination | violated: a finished file is made of two contents |
| `user_range` | one URL, a file of 4 bytes that never changes, asked for from its second byte on | violated: a finished file has a byte twice |
| `pause_lost` | as `managed`, without a range | violated: a pause is answered Ok and part of the file is not preserved |
| `shared_destination` | two downloads of 2 bytes, `overwrite` off | violated: the file at the destination is written |
| `backoff_panic` | two downloads with 65 retries | violated: a download ends before its retries are used |

Why the bounds are enough. In `safety`, two downloads compete for one slot and two
calls can race on one of them while a third raises the limit; two retries let a
stale timer of a first back-off meet a second one; a channel of two is full as
soon as two commands wait. Calls are the only unbounded input, and each is one
element of `Calls`; three are needed for pause, resume, pause, and for two waiters
and a cancellation. `liveness` uses fewer constants because it needs a graph
without symmetry. In `Transfer` a file of three bytes with an interval of two has
a checkpoint in its middle, one exactly at a length of 2 (so that a resume meets
416), and bytes beyond the last one; three revisions allow an old manifest to
outlive two replacements, one of them by a shorter file. The number of runs, of
crashes and of failures is not bounded. In `managed` a file of two bytes can be
paused before and at its only checkpoint, and be left at a length of 1, from which
a resume goes on, or of 2, which a 416 answers; two calls make a pause and a
resume, two pauses, or a pause and a cancellation, and a shutdown is always
possible; one retry is enough for a run after a failed one. Three ranges are the
fewest with which two of them can lead past a third; the proofs cover any number.
`CHECK_DEADLOCK FALSE` stands where the system really stops: in the runs of
`Scheduler` and `Managed`, where a finished thread and clients without calls end
it, in `ResumeOffset`, which returns, and in the two violated runs on modules whose
runs all end.

Fairness. `Scheduler`: the thread keeps running while it has a step to take; a
timer elapses; a worker *whose token is cancelled* returns. Nothing is assumed of
clients, nor of a worker that nobody stops, which may wait for a silent server for
ever: the code sets no timeout. `ImplementsScheduler` discharges the assumption on
stopped workers: `Managed` assumes that the thread runs, that timers elapse, that
file operations end and that a cancelled token is seen at the next `select_biased!`
(`WF` of a run's own steps, none of the server's), and TLC finds that it implements
`Scheduler` with its fairness. In each wait of `worker::run` the token is
polled first. The command channel is polled before workers and timers, so clients
that send for ever could starve them; the calls of the model are finitely many,
and the liveness results hold under that condition only.

The mutants in `PROJECT.json` are small changes of the code, such as a
retain that removes nothing or a checkpoint that does not sync; each property has
one that breaks it.

## 4. What disagrees with the documentation

1. *`cancel_hang`.* `Download::cancel` "resolves only once the download has reached
   a terminal state" and returns an error if the manager was shut down. `run`
   closes the channel on shutdown but does not empty it, and the messages in it
   live as long as any sender, of which the waiting `Download` holds one. Pauses
   and resumes in the channel hang alike; `AcksResolve` and `CancelResolves` name
   the case (`Unread`, `Stranded`) and hold outside it.
2. *`cancel_err`.* `cancel` returns every error but `Cancelled`, so cancelling a
   download that has failed, or fails first, returns that failure.
3. *`mixed_file`.* `PartFile::open` truncates the part file and leaves the manifest of
   the longer one in place until the next checkpoint. A download of u1 stops with a
   checkpoint; a download of u2 to the same destination truncates the part file and
   writes over it, and ends before its first checkpoint by a crash or a failed
   write; a later download of u1 finds its manifest, resumes after bytes of u2, and
   finishes. Removing the manifest before the truncation would exclude it. With one
   URL and no loss of power the old manifest is harmless (`ResumeSafe`): either the
   validator is outdated or the bytes are the same.
4. *`user_range`.* `RequestBuilder::header` names `Range` as a header to set. The rest
   of the file after `First` is stored from position 0 on, and a resume asks for the
   bytes after the length of the part file as positions of the whole resource, which
   are `First` too early: the file has passed them already, they are written a second
   time, and the result is reported as finished. In the run, positions 2 and 3 are
   kept, the resume asks for `bytes=2-`, and the file is 2, 3, 3, 4. The code never
   reads the `Content-Range` of a response.
5. *`pause_lost`.* `Download::pause` waits "until its partial state has been
   preserved". When the connection breaks while the pause is under way and the last
   checkpoint fails, the failure is only logged, and the pause is answered Ok.
   What holds is `PausedKeepsMost`: less than a checkpoint interval is lost.
6. *`shared_destination`.* "Writes always target the `.part`": of two downloads to one
   destination the first to finish renames the file that both have open. It may be
   empty, since the second has truncated it, and the second then writes the file at
   the destination, also with `overwrite` off.
7. *`backoff_panic`.* `retries` is any `u32`, but `next_delay` multiplies by
   2^attempt before it takes the minimum with 10 s and panics from attempt 64 on.
   The scheduler thread ends, and every download of the manager with it.

## 5. The proofs

*Scheduler.* Its theorems are about `Spec` for arbitrary finite or infinite `Jobs`
and `Calls`, any `Limits` and `QueueCap`, under `ConfigAssumption` only (at most 64
retries, positive limits and capacity).

`SchedulerProofs` proves `Spec => []IInv`. `IInv` conjoins the six invariants
`TypeOK`, `OneWorkerPerLiveJob`, `ReadyHoldsQueuedJobs`, `OneTimerPerRetry`,
`AcksAccountedFor` and `DownloadsAccountedFor` with `TimersOfSeenJobs` (timers
belong to downloads that have left the channel). They need one another:

- a newly enqueued job must have no worker, no timer and no place in the queue.
  `DownloadsAccountedFor` makes it unknown to the map, `OneWorkerPerLiveJob` and
  `ReadyHoldsQueuedJobs` exclude the worker and the place, and `TimersOfSeenJobs`
  an old timer of the same attempt number;
- that a worker's result meets a live job is `OneWorkerPerLiveJob`, and so are the
  uniqueness of the worker removed and the agreement of token and state;
- a result releases the waiters of a pause, and `AcksAccountedFor` says that these
  exist exactly in `Pausing`;
- one step, the dispatch that sees the root token cancelled, loses an id from
  `ready`; the invariant says this is the only exception, and that the final
  `CancelAll` is the next thing that happens.

The proof has one lemma per conjunct (`TypeStep`, `CmdsStep`, `DownloadsStep`,
`TimersSeenStep`, `TimerStep`, `WorkerStepKeeps`, `ReadyStep`, `AcksStep`), each a
case split over the actions of `Next`, on lemmas about queues (`PlacesTail`,
`RetainRemoves`, ...) and helpers (`FreshTokenType`, `StopWorkersFacts`, ...).
`StepIInv` puts them together.

`SchedulerPromises` proves from it `RetriesUsedUp` and `NoIdleSlot` (with
`SlotsInUse` as strengthening), and the action properties `RetryWaitsForItsTimer`,
`CancellationWins` and `PauseAckAfterWorker`.

*ResumeOffset.* For any number of ranges over any bytes. The invariant is that the
bytes before `offset` are covered, that `offset` is 0 or the end of a range that
starts before it (`EndsARange`), and that a finished search found nothing more.
`EndsARange` is what `WholePrefix` needs: were the byte at `offset` in some range,
that range and the one ending there would be different ones and overlap.

*Backoff.* With `Retries \in 0..64` a retry left means an attempt below 64, so
`RetryPanics` is never enabled and `RetriesHonoured` holds: this is the reason for
the bound in `ConfigAssumption`, and `backoff_panic` shows that 65 is too many.

`CancelledOnlyIfAsked` needs a strengthening of its own: `CancelsAsked` says that
each `Cancel` and `CancelAll` in the channel was asked for, the latter of all that was
enqueued before it, and `StopsAsked` that each job in `Cancelling` was to be
cancelled and that no job is `Running` whose own stop token is cancelled. The last is
the point: a pause that cancels the token leaves its job in `Pausing`, so a worker
that returns stopped to a `Running` job was stopped by the root token.

*Life cycle.* `SchedulerRefinement` proves `Spec => KeepsContract`: the first state
maps to a first state of `Lifecycle`, and each step to a step or a stutter. The
mapping is the identity but for `active`, and what has to be shown is that
`Lifecycle`'s guards, which are about the last event, follow from the code's, which
are about `JobState`. `EventMatches` ties the two: the last event of a download is
the one of its state, or of its result. Each kind of step then has a lemma that
gives its abstract step (`QueueView`, `StartView`, `RetryView`, `PauseView`,
`FinishView`, `CancelView`, ...).

*Transfer.* `TransferProofs` is about any sizes, buffers, checkpoint intervals and
samples, any number of revisions, runs, crashes and losses of power, under
`TransferAssumption`. `Steps` reduces `Next` to its kinds of steps. The inductive
invariants build on one another:

- `TypeFits`: types, with the part file as a sequence of bytes, and that a run keeps
  no more bytes than there are. It gives `TypeOK` and `NeverExtends`.
- `ProgressInv` gives `ProgressTrue`.
- `LossInv` gives `BoundedLoss` and `CheckpointDurable`: the manifest that guided the
  run is still on the disk (`GuideInv`), the file is the response from `start` on
  (`ReceivedInv`), and the manifest in memory claims what the one on the disk does
  but for a checkpoint under way (`AheadInv`). Hypothesis `First = 0`: with a `Range`
  header of the user's own, the request that follows a 416 asks for that range while
  the run takes its answer to start at the old `offset`, and TLC finds `BoundedLoss`
  and `CheckpointDurable` violated.
- `SafeInv` gives `ResumeSafe` and `DestWhole`: the validator on the disk is one that
  was published, not after the response under way (`KnownInv`), and all of the file
  that is kept or written is the response's (`ContentInv`). Hypotheses `First = 0`
  and a single URL, without which both properties are violated by the code, as
  `user_range` and `mixed_file` show.

*Managed.* `ManagedProofs` is about one download, with any calls, retries, sizes,
buffers, intervals, revisions and any range of the user's own. `SchedulerStep` says
that each step of the composition is one of `Scheduler` or leaves it alone. That is so
by the way the two are joined and says nothing of the worker; it carries `IInv` over.
What the worker owes the scheduler is `StoppedOnlyIfTold`: had a run returned anything
else, the composition would have no step for it. `ToldInv` strengthens it: the token
that a run sees is cancelled only if that of its worker is (`TokenSeen`), a run that
remembers a stop across its last checkpoint was stopped, and the scheduler takes no
cancellation back (`StoppingStays`). `RunInv` adds the
relation of the two parts: a run is under way only for a worker, and ends in a way
the scheduler goes on from if it does go on (`HeldInv`); the destination is there
between the rename and the answer Ok, and after it (`DeliveredInv`), which needs
that what is renamed is not empty (`FilledInv`); a run asks for what follows the
bytes it could keep (`StartInv`); and at each point where a run can be left so that
the download goes on, the manifest on the disk is less than an interval behind
(`KeptInv`, if all revisions have validators). The lemmas up to `CollectStep` say
what the scheduler's steps are to the download, those from `RunEnds` to `FailSteps`
what a run's are, and the rest joins them. This gives `StoppedOnlyIfTold`,
`CleanedUp`, `DeliveredOnlyIfOk`, `PausedKeepsMost` and `PausedFileUntouched`. That
`PausedKeepsMost` needs no `First = 0`, unlike `BoundedLoss`, is because it counts
what a run would keep whatever its validator.

Each of these invariants was checked by TLC on the instance of the run before it was
proved.

Model-checked only: liveness (the properties of `liveness`, `Terminates`, and the
fairness half of `ImplementsScheduler`), which is beyond the prover.

## 6. Not modelled

- A property of the temporary manifest (`<dest>.part.manifest.json.tmp`). The model has
  it (`temp`), and as in the code a save that fails before its rename leaves it, and
  neither `discard_partial` nor `finalize` removes it. So `CleanedUp` is stated of the
  part file, the manifest and the destination, which is less than the comment of
  `Download::cancel` says ("any partial file/manifest has been removed",
  `download.rs:91`): a download that is cancelled after such a save leaves that file
  behind. It is never read, and the next save to the same destination replaces it.
- The rates, averages and estimates of `Progress`: floating-point values for display.
- Delivery of events: the overflow of the broadcast, late subscribers.
- `Request` building, wording of errors, logging, path names.
- A body cut short that the HTTP client does not report, and an `If-Range` header of
  the user's own.
- Fairness among clients: a client that sends commands without pause keeps workers and
  timers waiting.
- A crash of the process and a panic of the worker while a scheduler is watching:
  `Transfer` has the first, without the scheduler, and `Scheduler` the second, as a
  result `Fatal`.

## 7. Plan

Done: all modules of section 2. Left:

1. A worker that panics under its scheduler, in `Managed`.
2. The event stream as clients receive it, with overflow and late subscribers.
3. Under `ManagedSpec`, `DestWhole` for a file that is replaced meanwhile: it is proved
   of `Transfer`, whose clean-up takes two steps where that of `Managed` takes one.
