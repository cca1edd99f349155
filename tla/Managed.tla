------------------------------ MODULE Managed ------------------------------
(***************************************************************************)
(* A download under its scheduler: Scheduler and Transfer together, for    *)
(* one download, its one destination and one lifetime of the process.      *)
(*                                                                         *)
(* The worker future of Scheduler is here the run of Transfer: it begins   *)
(* when the job is dispatched (scheduler.rs:240), sees the stop token that *)
(* the job holds, and what it returns is the result that transition_job    *)
(* handles.  cancel_job discards the files on the disk of Transfer.        *)
(*                                                                         *)
(* A file operation may complete while the scheduler thread does something *)
(* else, so the two modules take their steps in any order; they meet in    *)
(* the dispatch, the result, the stop token and the discarding of files.   *)
(* The destination is absent at first, and no file is empty: a run under   *)
(* the scheduler meets no file that was there before it.                   *)
(***************************************************************************)
EXTENDS Scheduler

CONSTANTS Urls, Revisions, Size, Tag, NoTag, NoUrl, Chunk, Checkpoint, Sample,
          First

VARIABLES revision, part, synced, saved, older, temp, dest, at, url, offset, body,
          pos, start, mem, dirty, after, stop, shown, ended, powerLost

\* `at` is where the run stands, `ended` what it has returned.
T == INSTANCE Transfer WITH pc <- at, result <- ended

\* There is one download, of one URL.
ASSUME OneDownload ==
    /\ \E j \in Jobs : Jobs = {j}
    /\ \E u \in Urls : Urls = {u}
\* What Transfer assumes of its constants.
ASSUME RunAssumption == T!TransferAssumption

job    == CHOOSE j \in Jobs : TRUE
jobUrl == CHOOSE u \in Urls : TRUE

manifest == <<saved, older, temp>>
files    == <<part, synced, manifest, dest>>
runVars  == <<url, offset, body, pos, start, mem, dirty, after, shown, ended>>
outside  == <<revision, powerLost>>
allVars  == <<vars, files, runVars, outside, at, stop>>

ManagedInit == Init /\ T!Init

----------------------------------------------------------------------------
(* The scheduler's own steps *)

\* A run sees the token of its job, a child of the root token, cancelled as
\* soon as either is.
TokenSeen ==
    stop' = (at # "Idle" /\ (root' \/ \E w \in workers' : w.stop))

Apart == TokenSeen /\ UNCHANGED <<outside, files, at, runVars>>

Clients == ClientStep /\ Apart

\* Steps of the scheduler thread that touch no file.
Loops ==
    /\ \/ PollStop \/ PollNoCmd \/ Wake \/ Finish
       \/ HandleEnqueue \/ HandlePause \/ HandleResume \/ HandleSetMaxConcurrent
       \/ DispatchAbandoned \/ DispatchOver
    /\ Apart

Elapses == (\E t \in delayed : RetryElapsed(t)) /\ Apart

\* The worker future is made, and looks at the disk when first polled.
Dispatches == DispatchJob /\ (T!Begin(jobUrl) \/ T!BeginFails)

----------------------------------------------------------------------------
(* Steps of the scheduler that may discard the files of the download *)

\* cancel_job answers Cancelled after discard_partial has removed both files,
\* and the error of discard_partial when it failed before or after it has
\* removed the .part.  A temporary manifest stays.
Answers(r) == result[job] = "None" /\ result'[job] = r

Discards ==
    \/ /\ Answers("Cancelled")
       /\ part' = <<>> /\ synced' = 0
       /\ saved' = T!NoManifest /\ older' = saved /\ UNCHANGED temp
    \/ /\ Answers("Io")
       /\ part' \in {part, <<>>} /\ synced' = T!Least(synced, Len(part'))
       /\ UNCHANGED manifest
    \/ /\ ~Answers("Cancelled") /\ ~Answers("Io")
       /\ UNCHANGED <<part, synced, manifest>>

Cancels ==
    /\ HandleCancel \/ HandleCancelAll \/ Stop
    /\ Discards
    /\ TokenSeen
    /\ UNCHANGED <<outside, dest, at, runVars>>

\* The run has returned and the scheduler takes its result.
Collects ==
    /\ at = "Idle"
    /\ \E w \in workers :
          \/ ended = "Finished" /\ WorkerFinished(w)
          \/ ended = "Stopped" /\ WorkerStopped(w)
          \/ ended = "Retryable" /\ WorkerFailed(w)
          \/ ended \in {"Fatal", "Io", "FileExists"} /\ WorkerFatal(w)
    /\ Discards
    /\ UNCHANGED <<outside, dest, at, runVars, stop>>

----------------------------------------------------------------------------
(* Steps of the run: its own, and those that wait for the server *)

Runs     == T!Own /\ UNCHANGED vars
Receives == T!Awaited /\ UNCHANGED vars

\* Meanwhile the server publishes another content.
Publishes == T!Publish(jobUrl) /\ UNCHANGED vars

----------------------------------------------------------------------------

Thread == Loops \/ Dispatches \/ Cancels \/ Collects

ManagedNext == Clients \/ Thread \/ Elapses \/ Runs \/ Receives \/ Publishes

ManagedSpec == ManagedInit /\ [][ManagedNext]_allVars

\* The thread keeps running while it has a step to take, timers elapse, file
\* operations end, and a cancelled stop token is seen at the next wait.  Of
\* the server, and of a run that nobody stops, nothing is assumed.
ManagedFairSpec ==
    /\ ManagedSpec
    /\ WF_allVars(Thread)
    /\ WF_allVars(Elapses)
    /\ WF_allVars(Runs)

----------------------------------------------------------------------------
(* Properties *)

\* The two together implement Scheduler, which takes the worker for a future
\* that returns once it is stopped: a run does return then, from every wait of
\* worker::run, although the server owes it no answer.  (The steps are those of
\* Scheduler by the way the two are joined; the fairness is what is checked.)
ImplementsScheduler == FairSpec

\* What a run has returned is a result that transition_job expects: Stopped
\* only if its own token or the root token is cancelled.  A broken connection
\* or a failed checkpoint reported as Stopped would cancel a Running download
\* that nobody wants cancelled (scheduler.rs:381), or answer its pause.
StoppedOnlyIfTold ==
    at = "Idle" =>
        \A w \in workers :
            \/ ended \in {"Finished", "Retryable", "Fatal", "Io", "FileExists"}
            \/ ended = "Stopped" /\ Stopping(w)

\* A download that is reported as cancelled has neither a .part nor a manifest
\* nor a destination, and none of them comes back (download.rs:91, "any partial
\* file/manifest has been removed"), whether it ran, was being paused, waited
\* or had finished part of its way when the cancellation arrived.  A temporary
\* manifest that a failed checkpoint has left behind is not removed.
CleanedUp ==
    result[job] = "Cancelled" =>
        part = <<>> /\ saved = T!NoManifest /\ dest = <<>>

\* The destination appears for the downloads that are answered Ok and for no
\* other: not for one that was cancelled, paused or shut down while its last
\* bytes were renamed.
DeliveredOnlyIfOk == result[job] # "None" => (result[job] = "Ok" <=> dest # <<>>)

\* From a pause to the next resume or cancellation nothing touches the files.
PausedFileUntouched ==
    [][state[job] = "Paused" /\ state'[job] = "Paused" => UNCHANGED files]_allVars

\* A paused download would lose less than a checkpoint interval on a resume,
\* also when the pause met a broken connection or a failed checkpoint, if the
\* server gives validators.
PausedKeepsMost ==
    state[job] = "Paused" /\ (\A r \in 1..Revisions : Tag[r] # NoTag) =>
        Len(part) - T!ResumeOffset(jobUrl) < Checkpoint

\* download.rs:71: a pause waits until the "partial state has been preserved":
\* a resume would go on where the run that was stopped for it had arrived.
PausePreserves ==
    [][state[job] = "Pausing" /\ state'[job] = "Paused" =>
          T!ResumeOffset(jobUrl) = Len(part)]_allVars

=============================================================================
