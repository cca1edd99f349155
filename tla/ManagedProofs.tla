--------------------------- MODULE ManagedProofs ---------------------------
(***************************************************************************)
(* Proofs about Managed for any number of calls, retries and revisions,    *)
(* any chunks and checkpoint intervals and any range of the user's own.    *)
(***************************************************************************)
EXTENDS Managed, SchedulerProofs, SequenceTheorems

----------------------------------------------------------------------------
(* The parts of the inductive invariant, beside that of the scheduler *)

Bytes == [url : Urls \cup {NoUrl}, rev : Nat, at : Nat]

RunTypes ==
    /\ revision \in [Urls -> 1..Revisions]
    /\ part \in Seq(Bytes)
    /\ saved.n \in Nat
    /\ at \in {"Idle", "Request", "Restart", "Open", "Read", "Sync", "Temp", "Save",
               "FinSync", "Rename", "Unlink"}
    /\ at # "Idle" => url = jobUrl
    /\ body \in 1..Revisions
    /\ pos \in Nat /\ offset \in Nat /\ start \in Nat /\ mem \in Nat
    /\ at \notin {"Sync", "Temp", "Save"} => after = "Read"
    /\ after \in {"Read", "Stopped", "Retryable"}
    /\ at = "Save" => temp = T!Manifest(url, Tag[body], mem)

\* A run is under way only for a worker of the scheduler, and the scheduler
\* has answered the download if its last run ended in a way that ends it.
HeldInv ==
    /\ workers = {} => at = "Idle"
    /\ at # "Idle" => ended = "None"
    /\ workers = {} /\ result[job] = "None" =>
          ended \in {"None", "Stopped", "Retryable"}

\* The destination is there from the rename on, which only "Ok" can follow.
DeliveredInv ==
    /\ dest # <<>> <=> at = "Unlink" \/ ended = "Finished"
    /\ result[job] = "Ok" => ended = "Finished"
    /\ ended = "Finished" /\ workers = {} => result[job] = "Ok"

\* What is renamed is not empty: a response has at least one byte.
FilledInv ==
    /\ at = "Open" => pos < Size[body]
    /\ at \in {"Read", "Sync", "Temp", "Save"} => part # <<>> \/ pos < Size[body]
    /\ at \in {"FinSync", "Rename"} => part # <<>>

CleanInv ==
    result[job] = "Cancelled" => part = <<>> /\ saved = T!NoManifest

\* Less than a checkpoint interval of the file would be lost on a resume,
\* wherever a run can be left so that the download goes on.
Resumed == T!ResumeOffset(jobUrl)
Little  == Len(part) - Resumed < Checkpoint

\* A run asks for what follows the bytes it could keep, or cannot read the
\* manifest; it then keeps all of them or none.
StartInv ==
    /\ at \in {"Request", "Restart"} => offset \in {0, Resumed}
    /\ at = "Open" => start \in {0, Resumed}

KeptInv ==
    /\ at = "Idle" /\ ended \in {"None", "Stopped", "Retryable"} => Little
    /\ at \in {"Request", "Restart", "Open"} => Little
    /\ at = "Read" => mem <= Resumed /\ Len(part) - mem < Checkpoint
    /\ at \in {"Sync", "Temp", "Save"} /\ after # "Read" => Little
    /\ at \in {"Temp", "Save"} => mem = Len(part)

Tagged == \A r \in 1..Revisions : Tag[r] # NoTag

RunInv ==
    /\ RunTypes
    /\ HeldInv
    /\ DeliveredInv
    /\ FilledInv
    /\ StartInv
    /\ CleanInv
    /\ Tagged => KeptInv

----------------------------------------------------------------------------
(* What the steps of the scheduler are to the one download *)

\* There is one download, of one URL.
LEMMA One ==
    /\ job \in Jobs /\ \A j \in Jobs : j = job
    /\ jobUrl \in Urls /\ \A u \in Urls : u = jobUrl
<1>1. job \in Jobs /\ jobUrl \in Urls
  BY OneDownload DEF job, jobUrl
<1> QED BY <1>1, OneDownload

\* What the assumptions say of the constants.
LEMMA Numbers ==
    /\ 1 \in 1..Revisions
    /\ \A r \in 1..Revisions : Size[r] \in Nat /\ Size[r] > 0
    /\ Checkpoint \in Nat /\ Checkpoint > 0
    /\ Chunk \in Nat /\ First \in Nat
  BY RunAssumption DEF T!TransferAssumption

\* The download has a worker while its job is live, and no other worker is
\* there.
LEMMA WorkerOfJob ==
    ASSUME IInv
    PROVE  /\ \A w \in workers : w.id = job
           /\ \A v, w \in workers : v = w
           /\ workers # {} <=> state[job] \in Live
<1>1. \A w \in workers : w.id = job
  BY One DEF IInv, TypeOK, Worker
<1> QED BY <1>1, One DEF IInv, OneWorkerPerLiveJob

\* A download with a result has left the scheduler.
LEMMA NoneWhileKnown ==
    ASSUME IInv, result[job] # "None"
    PROVE  state[job] = "None" /\ workers = {}
<1>1. state[job] = "None"
  BY One DEF IInv, DownloadsAccountedFor
<1> QED BY <1>1, WorkerOfJob DEF Live

\* These steps give no result and neither begin nor end a worker.
LEMMA QuietStep ==
    ASSUME IInv, Clients \/ Loops \/ Elapses
    PROVE  /\ result' = result
           /\ workers' = {} <=> workers = {}
           /\ UNCHANGED <<outside, files, runVars, at>>
<1>1. UNCHANGED <<outside, files, runVars, at>>
  BY DEF Clients, Loops, Elapses, Apart
<1>2. CASE Clients
  BY <1>1, <1>2
     DEF Clients, ClientStep, Enqueue, CallPause, CallResume, CallCancel, CallCancelAll,
         CallSetMaxConcurrent, CallRefused, CancelRoot, Send, clientVars
<1>3. CASE Elapses
  BY <1>1, <1>3 DEF Elapses, RetryElapsed
<1>4. CASE Loops /\ ~HandlePause
  BY <1>1, <1>4
     DEF Loops, PollStop, PollNoCmd, Wake, Finish, HandleEnqueue, HandleResume,
         HandleSetMaxConcurrent, DispatchAbandoned, DispatchOver
<1>5. CASE HandlePause
  <2>1. result' = result
    BY <1>5 DEF HandlePause
  <2>2. workers' = workers \/ \E S : workers' = StopWorkers(S)
    BY <1>5 DEF HandlePause, PauseIdle, PauseRunning, PausePausing, PauseAnswered
  <2>3. \A S : StopWorkers(S) = {} <=> workers = {}
    BY DEF StopWorkers
  <2> QED BY <1>1, <2>1, <2>2, <2>3
<1> QED BY <1>2, <1>3, <1>4, <1>5

\* A cancellation answers the download if it has no worker, with Cancelled or
\* with the error of the clean-up, and leaves none paused.
LEMMA CancelStep ==
    ASSUME IInv, HandleCancel \/ HandleCancelAll \/ Stop
    PROVE  /\ workers' = {} <=> workers = {}
           /\ \/ result'[job] = result[job]
              \/ /\ result[job] = "None" /\ workers = {}
                 /\ result'[job] \in {"Cancelled", "Io"}
           /\ state[job] = "Paused" => state'[job] # "Paused"
<1>1. CancelJobs({job})
  <2>1. ASSUME HandleCancel PROVE CancelJobs({job})
    <3>1. CancelJobs({Head(cmds).id}) /\ Head(cmds) \in Command /\ Head(cmds).op = "Cancel"
      BY <2>1 DEF HandleCancel, Receive, IInv, TypeOK
    <3> QED BY <3>1, One DEF Command
  <2>2. ASSUME HandleCancelAll \/ Stop PROVE CancelJobs({job})
    <3>1. Jobs = {job}
      BY One
    <3> QED BY <2>2, <3>1 DEF HandleCancelAll, Stop, CancelAllJobs
  <2> QED BY <2>1, <2>2
<1>2. \E S : workers' = StopWorkers(S)
  BY <1>1 DEF CancelJobs
<1>3. \A S : StopWorkers(S) = {} <=> workers = {}
  BY DEF StopWorkers
<1>4. \/ result'[job] = result[job]
      \/ state[job] \in Idle /\ result'[job] \in {"Cancelled", "Io"}
  BY <1>1, One DEF CancelJobs
<1>5. state[job] \in Idle => result[job] = "None" /\ workers = {}
  BY WorkerOfJob, NoneWhileKnown DEF Idle, Live
<1>6. state[job] = "Paused" => state'[job] = "None"
  BY <1>1, One, CancelJobsState DEF IInv, Idle
<1> QED BY <1>2, <1>3, <1>4, <1>5, <1>6

\* A job is dispatched while it has neither a worker nor a result.
LEMMA DispatchStep ==
    ASSUME IInv, DispatchJob
    PROVE  /\ workers = {} /\ workers' # {}
           /\ result[job] = "None" /\ result' = result
           /\ state[job] = "Queued"
<1>1. ready # <<>> /\ ready \in Seq(Jobs) /\ result' = result
  BY DEF DispatchJob, CanDispatch, IInv, TypeOK
<1>2. Head(ready) = job /\ Head(ready) \in Ids(ready)
  <2>1. 1 \in DOMAIN ready /\ ready[1] = Head(ready) /\ Head(ready) \in Jobs
    BY <1>1
  <2> QED BY <2>1, One DEF Ids
<1>3. state[job] = "Queued"
  BY <1>2 DEF IInv, ReadyHoldsQueuedJobs
<1>4. workers' # {}
  BY <1>2, <1>3 DEF DispatchJob
<1>5. workers = {} /\ result[job] = "None"
  BY <1>3, WorkerOfJob, NoneWhileKnown DEF Live
<1> QED BY <1>1, <1>3, <1>4, <1>5

\* What the scheduler makes of the result of the worker.
LEMMA CollectStep ==
    ASSUME IInv, NEW w \in workers, WorkerStep(w)
    PROVE  /\ workers' = {} /\ result[job] = "None" /\ state[job] \in Live
           /\ WorkerFinished(w) => result'[job] = "Ok"
           /\ WorkerStopped(w) => result'[job] \in {"None", "Cancelled", "Io"}
           /\ WorkerFailed(w) => result'[job] \in {"None", "Cancelled", "Io", "Retryable"}
           /\ WorkerFatal(w) => result'[job] \in {"Cancelled", "Io", "Fatal"}
<1>1. w.id = job /\ state[job] \in Live /\ result[job] = "None"
  BY WorkerOfJob, NoneWhileKnown DEF Live
<1>2. workers' = {}
  <2>1. workers' = workers \ {w}
    BY DEF WorkerStep, WorkerFinished, WorkerStopped, WorkerFailed, WorkerFatal, WorkerReturns
  <2> QED BY <2>1, WorkerOfJob
<1>3. \A r : Finalize(job, r) => result'[job] = r
  BY One DEF Finalize, IInv, TypeOK
<1>4. CancelJob(job) => result'[job] \in {"Cancelled", "Io"}
  BY <1>3 DEF CancelJob
<1>5. WorkerFinished(w) => Finalize(job, "Ok")
  BY <1>1 DEF WorkerFinished, Live
<1>6. WorkerStopped(w) => CancelJob(job) \/ result' = result
  BY <1>1 DEF WorkerStopped, Live
<1>7. WorkerFailed(w) => CancelJob(job) \/ Finalize(job, "Retryable") \/ result' = result
  BY <1>1 DEF WorkerFailed, PauseAfterFailure, Retry, Live
<1>8. WorkerFatal(w) => CancelJob(job) \/ Finalize(job, "Fatal")
  BY <1>1 DEF WorkerFatal, Live
<1> QED BY <1>1, <1>2, <1>3, <1>4, <1>5, <1>6, <1>7, <1>8

----------------------------------------------------------------------------
(* The steps of a run *)

\* What the invariant says of a run that is under way.
RunGoes ==
    /\ RunTypes
    /\ at # "Idle" => ended = "None"
    /\ dest # <<>> <=> at = "Unlink" \/ ended = "Finished"
    /\ FilledInv
    /\ StartInv
    /\ Tagged => KeptInv

\* A resume goes on within the file and within what the manifest claims.
LEMMA ResumedWithin ==
    ASSUME RunTypes
    PROVE  Resumed \in 0..Len(part) /\ Resumed <= saved.n /\ Len(part) \in Nat
BY DEF RunTypes, Resumed, T!ResumeOffset, T!Least

\* It is a matter of the two sidecars alone.
LEMMA SameResumed ==
    ASSUME UNCHANGED <<part, saved>>
    PROVE  Resumed' = Resumed /\ (Little <=> Little')
BY DEF Resumed, Little, T!ResumeOffset, T!Resumable

\* The k elements of c that follow position i.
LEMMA Slice ==
    ASSUME NEW S, NEW c, NEW i \in Nat, NEW k \in Nat, \A j \in i + 1..i + k : c[j] \in S
    PROVE  SubSeq(c, i + 1, i + k) \in Seq(S) /\ Len(SubSeq(c, i + 1, i + k)) = k
<1> SUFFICES ASSUME NEW a \in Int, NEW b \in Int, a = i + 1, b = i + k
             PROVE  SubSeq(c, a, b) \in Seq(S) /\ Len(SubSeq(c, a, b)) = k
  OBVIOUS
<1>1. /\ SubSeq(c, a, b) \in Seq(S)
      /\ Len(SubSeq(c, a, b)) = IF a <= b THEN b - a + 1 ELSE 0
  BY SubSeqProperties
<1>2. a > b => k = 0
  OBVIOUS
<1> QED BY <1>1, <1>2

\* A write makes the file longer by what has been read.
LEMMA Written ==
    ASSUME RunTypes, at # "Idle", NEW k \in 0..Chunk, T!Write(k)
    PROVE  part' \in Seq(Bytes) /\ Len(part') = Len(part) + k
<1>1. /\ k \in Nat /\ pos \in Nat /\ part \in Seq(Bytes) /\ body \in 1..Revisions
      /\ pos + k <= Size[body] /\ Size[body] \in Nat /\ url \in Urls
  BY Numbers, One DEF RunTypes, T!Write
<1>2. PICK c : c = T!Content(url, body)
  OBVIOUS
<1>3. part' = part \o SubSeq(c, pos + 1, pos + k)
  BY <1>2 DEF T!Write
<1>4. \A i \in pos + 1..pos + k : c[i] \in Bytes
  BY <1>1, <1>2 DEF T!Content, T!Byte, Bytes
<1>5. /\ SubSeq(c, pos + 1, pos + k) \in Seq(Bytes)
      /\ Len(SubSeq(c, pos + 1, pos + k)) = k
  BY <1>1, <1>4, Slice
<1> QED BY <1>1, <1>3, <1>5, ConcatProperties

\* Opening cuts the file where the response is taken to start.
LEMMA Opened ==
    ASSUME RunTypes, start <= Len(part)
    PROVE  T!Cut \in Seq(Bytes) /\ Len(T!Cut) = start
<1>1. start \in Nat /\ \A i \in 1..start : part[i] \in Bytes
  BY DEF RunTypes
<1>2. /\ SubSeq(part, 1, start) \in Seq(Bytes)
      /\ Len(SubSeq(part, 1, start)) = IF 1 <= start THEN start - 1 + 1 ELSE 0
  BY <1>1, SubSeqProperties
<1> QED BY <1>1, <1>2 DEF T!Cut

\* A run that ends before the rename can be gone on with if what it leaves on
\* the disk is little behind.
LEMMA RunEnds ==
    ASSUME RunGoes, ended # "Finished", at # "Unlink",
           NEW r \in {"Io", "FileExists", "Retryable", "Fatal", "Stopped"}, T!Ends(r),
           part' \in Seq(Bytes), UNCHANGED <<revision, saved, dest>>,
           r \in {"Stopped", "Retryable"} => part' = part /\ (Tagged => Little)
    PROVE  RunGoes'
<1>1. /\ at' = "Idle" /\ ended' = r /\ after' = "Read"
      /\ body' = 1 /\ pos' = 0 /\ offset' = 0 /\ start' = 0 /\ mem' = 0
  BY DEF T!Ends
<1>2. RunTypes'
  BY <1>1, Numbers DEF RunGoes, RunTypes
<1>3. dest' # <<>> <=> at' = "Unlink" \/ ended' = "Finished"
  BY <1>1 DEF RunGoes
<1>4. FilledInv' /\ StartInv'
  BY <1>1 DEF FilledInv, StartInv
<1>5. ASSUME Tagged PROVE KeptInv'
  BY <1>1, <1>5, SameResumed DEF KeptInv
<1> QED BY <1>1, <1>2, <1>3, <1>4, <1>5 DEF RunGoes, Tagged

\* The run waits for the head of the response.
LEMMA HeadStep ==
    ASSUME RunGoes, T!RespondWhole \/ T!RespondRest \/ T!RespondOutOfRange
    PROVE  RunGoes'
<1>1. /\ at \in {"Request", "Restart"} /\ ended = "None"
      /\ UNCHANGED <<part, saved, dest, url, offset, mem, after, ended>>
  BY DEF RunGoes, T!RespondWhole, T!RespondRest, T!RespondOutOfRange, T!Respond, T!Goes,
         T!disk, T!manifest, T!locals, T!response
<1>2. /\ \/ at' = "Restart" /\ UNCHANGED <<body, pos, start>>
         \/ /\ at' = "Open" /\ start' \in {0, offset}
            /\ body' = revision[url] /\ pos' \in Nat /\ pos' < Size[body']
      /\ revision' = revision
  BY <1>1, Numbers
     DEF RunGoes, RunTypes, T!RespondWhole, T!RespondRest, T!RespondOutOfRange, T!Respond,
         T!Start, T!Asked, T!Goes, T!disk, T!manifest, T!locals, T!response,
         T!outside
<1>3. RunTypes'
  BY <1>1, <1>2, One DEF RunGoes, RunTypes
<1>4. dest' # <<>> <=> at' = "Unlink" \/ ended' = "Finished"
  BY <1>1, <1>2 DEF RunGoes
<1>5. FilledInv' /\ StartInv'
  BY <1>1, <1>2, SameResumed DEF RunGoes, FilledInv, StartInv
<1>6. ASSUME Tagged PROVE KeptInv'
  BY <1>1, <1>2, <1>6, SameResumed DEF RunGoes, KeptInv
<1> QED BY <1>1, <1>3, <1>4, <1>5, <1>6 DEF RunGoes, Tagged

\* What the run keeps of the file reaches as far as what it takes for saved.
LEMMA OpenStep ==
    ASSUME RunGoes, T!Open
    PROVE  RunGoes'
<1>1. /\ at = "Open" /\ at' = "Read" /\ mem' = start /\ part' = T!Cut
      /\ UNCHANGED <<revision, saved, dest, url, offset, body, pos, start, after, ended>>
  BY DEF T!Open, T!Goes, T!manifest, T!response, T!outside
<1>2. start \in 0..Len(part)
  BY <1>1, ResumedWithin DEF RunGoes, StartInv
<1>3. part' \in Seq(Bytes) /\ Len(part') = start
  BY <1>1, <1>2, Opened DEF RunGoes
<1>4. RunTypes' /\ FilledInv' /\ StartInv'
  BY <1>1, <1>3 DEF RunGoes, RunTypes, FilledInv, StartInv
<1>5. ASSUME Tagged PROVE KeptInv'
  <2>1. start \in {0, Resumed}
    BY <1>1 DEF RunGoes, StartInv
  <2>2. Resumed' = IF T!Resumable(jobUrl) THEN T!Least(saved.n, start) ELSE 0
    BY <1>1, <1>3 DEF Resumed, T!ResumeOffset, T!Resumable
  <2>3. Resumed' = start
    BY <1>2, <2>1, <2>2, ResumedWithin DEF RunGoes, RunTypes, Resumed, T!ResumeOffset, T!Least
  <2> QED BY <1>1, <1>3, <2>3, Numbers, <1>4 DEF KeptInv, RunTypes
<1> QED BY <1>1, <1>4, <1>5 DEF RunGoes, Tagged

\* A read is followed by a checkpoint before it leaves an interval behind.
LEMMA ReadStep ==
    ASSUME RunGoes, NEW k \in 1..Chunk, T!Read(k)
    PROVE  RunGoes'
<1>1. /\ at = "Read" /\ after = "Read" /\ ended = "None"
      /\ at' \in {"Read", "Sync"} /\ pos' = pos + k
      /\ UNCHANGED <<revision, saved, dest, url, offset, body, start, mem, after, ended>>
  BY DEF RunGoes, RunTypes, T!Read, T!Goes, T!outside, T!manifest
<1>2. part' \in Seq(Bytes) /\ Len(part') = Len(part) + k /\ k \in Nat /\ k > 0
  BY <1>1, Numbers, Written DEF RunGoes, T!Read
<1>3. RunTypes'
  BY <1>1, <1>2 DEF RunGoes, RunTypes
<1>4. FilledInv' /\ StartInv'
  BY <1>1, <1>2, <1>3 DEF FilledInv, RunTypes, StartInv
<1>5. ASSUME Tagged PROVE KeptInv'
  <2>1. mem <= Resumed /\ mem \in Nat /\ mem <= Resumed'
    <3>1. Resumed' = IF T!Resumable(jobUrl) THEN T!Least(saved.n, Len(part')) ELSE 0
      BY <1>1 DEF Resumed, T!ResumeOffset, T!Resumable
    <3> QED BY <1>1, <1>2, <1>5, <3>1
            DEF RunGoes, RunTypes, KeptInv, Resumed, T!ResumeOffset, T!Least
  <2>2. at' = "Read" => Len(part') - mem < Checkpoint
    BY <1>1, <1>2, <2>1, Numbers DEF T!Read, T!Goes, T!CheckpointDue
  <2> QED BY <1>1, <2>1, <2>2 DEF KeptInv
<1> QED BY <1>1, <1>3, <1>4, <1>5 DEF RunGoes, Tagged

\* The run leaves the read loop, by a last checkpoint if it has written.
LEMMA LeaveStep ==
    ASSUME RunGoes, NEW r \in {"Stopped", "Retryable"}, T!Leave(r)
    PROVE  RunGoes'
<1>1. at = "Read" /\ ended = "None" /\ UNCHANGED <<revision, part, saved, dest>>
  BY DEF RunGoes, T!Leave, T!disk, T!manifest, T!Goes, T!outside
<1>2. ASSUME Tagged PROVE Little
  <2>1. mem <= Resumed /\ Len(part) - mem < Checkpoint /\ mem \in Nat
    BY <1>1, <1>2 DEF RunGoes, RunTypes, KeptInv
  <2> QED BY <2>1, ResumedWithin, Numbers DEF RunGoes, Little
<1>3. CASE T!Ends(r)
  BY <1>1, <1>2, <1>3, RunEnds DEF RunGoes, RunTypes
<1>4. CASE T!Goes("Read", "Sync") /\ after' = r /\ UNCHANGED <<T!response, mem, dirty>>
  <2>1. /\ at' = "Sync" /\ after' = r
        /\ UNCHANGED <<url, offset, body, pos, start, mem, ended>>
    BY <1>4 DEF T!Goes, T!response
  <2>2. RunTypes' /\ FilledInv' /\ StartInv'
    BY <1>1, <2>1 DEF RunGoes, RunTypes, FilledInv, StartInv
  <2>3. ASSUME Tagged PROVE KeptInv'
    BY <1>1, <1>2, <2>1, <2>3, SameResumed DEF KeptInv
  <2> QED BY <1>1, <2>1, <2>2, <2>3 DEF RunGoes, Tagged
<1> QED BY <1>3, <1>4 DEF T!Leave

\* A checkpoint syncs the data first.
LEMMA SyncStep ==
    ASSUME RunGoes, T!Sync
    PROVE  RunGoes'
<1>1. /\ at = "Sync" /\ at' = "Temp" /\ mem' = Len(part)
      /\ UNCHANGED <<revision, part, saved, dest, url, offset, body, pos, start, after, ended>>
  BY DEF T!Sync, T!Goes, T!manifest, T!response, T!outside
<1>2. RunTypes' /\ FilledInv' /\ StartInv'
  BY <1>1 DEF RunGoes, RunTypes, FilledInv, StartInv
<1>3. ASSUME Tagged PROVE KeptInv'
  BY <1>1, <1>3, SameResumed DEF RunGoes, KeptInv
<1> QED BY <1>1, <1>2, <1>3 DEF RunGoes, Tagged

\* It writes a temporary manifest.
LEMMA WriteTempStep ==
    ASSUME RunGoes, T!WriteTemp
    PROVE  RunGoes'
<1>1. /\ at = "Temp" /\ at' = "Save" /\ temp' = T!Manifest(url, Tag[body], mem)
      /\ UNCHANGED <<revision, part, saved, dest, url, offset, body, pos, start, mem, after,
                     ended>>
  BY DEF T!WriteTemp, T!Goes, T!locals, T!response, T!outside
<1>2. RunTypes' /\ FilledInv' /\ StartInv'
  BY <1>1 DEF RunGoes, RunTypes, FilledInv, StartInv, T!Manifest
<1>3. ASSUME Tagged PROVE KeptInv'
  BY <1>1, <1>3, SameResumed DEF RunGoes, KeptInv
<1> QED BY <1>1, <1>2, <1>3 DEF RunGoes, Tagged

\* Its rename then claims all that has been written.
LEMMA SaveStep ==
    ASSUME RunGoes, T!Save
    PROVE  RunGoes'
<1>1. /\ at = "Save" /\ ended = "None" /\ url = jobUrl
      /\ saved' = T!Manifest(jobUrl, Tag[body], mem)
      /\ UNCHANGED <<revision, part, dest>>
      /\ IF after = "Read"
         THEN at' = "Read" /\ UNCHANGED <<url, offset, body, pos, start, mem, after, ended>>
         ELSE T!Ends(after)
  BY DEF RunGoes, RunTypes, T!Save, T!Goes, T!response, T!outside
<1>2. ASSUME Tagged PROVE Resumed' = mem /\ mem = Len(part) /\ Little'
  <2>1. mem = Len(part) /\ mem \in Nat /\ Tag[body] # NoTag
    BY <1>1, <1>2 DEF RunGoes, RunTypes, KeptInv, Tagged
  <2>2. saved'.n = mem /\ saved'.tag = Tag[body] /\ saved'.url = jobUrl
    BY <1>1 DEF T!Manifest
  <2>3. Resumed' = mem
    BY <1>1, <2>1, <2>2 DEF Resumed, T!ResumeOffset, T!Resumable, T!Least
  <2> QED BY <1>1, <2>1, <2>3, Numbers DEF Little
<1>3. saved'.n \in Nat
  BY <1>1 DEF T!Manifest, RunGoes, RunTypes
<1>4. CASE after = "Read"
  <2>1. RunTypes' /\ FilledInv' /\ StartInv'
    BY <1>1, <1>3, <1>4 DEF RunGoes, RunTypes, FilledInv, StartInv
  <2>2. ASSUME Tagged PROVE KeptInv'
    BY <1>1, <1>2, <1>4, <2>1, <2>2, Numbers DEF KeptInv, RunTypes
  <2> QED BY <1>1, <1>4, <2>1, <2>2 DEF RunGoes, Tagged
<1>5. CASE after # "Read"
  <2>1. /\ at' = "Idle" /\ ended' = after /\ after \in {"Stopped", "Retryable"}
        /\ after' = "Read"
        /\ body' = 1 /\ pos' = 0 /\ offset' = 0 /\ start' = 0 /\ mem' = 0
    BY <1>1, <1>5 DEF T!Ends, RunGoes, RunTypes
  <2>2. RunTypes' /\ FilledInv' /\ StartInv'
    BY <1>1, <1>3, <2>1, Numbers DEF RunGoes, RunTypes, FilledInv, StartInv
  <2>3. ASSUME Tagged PROVE KeptInv'
    BY <1>2, <2>1, <2>3 DEF KeptInv
  <2> QED BY <1>1, <2>1, <2>2, <2>3 DEF RunGoes, Tagged
<1> QED BY <1>4, <1>5

\* The end of the body, the last sync, the rename and the removal of the
\* manifest.
LEMMA EndSteps ==
    ASSUME RunGoes, T!ReadEnds \/ T!FinSync \/ T!Rename \/ T!Unlink
    PROVE  RunGoes'
<1>1. CASE T!ReadEnds
  <2>1. /\ at = "Read" /\ at' = "FinSync" /\ pos = Size[body]
        /\ UNCHANGED <<revision, part, saved, dest, url, offset, body, pos, start, mem, after,
                       ended>>
    BY <1>1 DEF T!ReadEnds, T!Goes, T!disk, T!manifest, T!locals, T!response, T!outside
  <2>2. RunTypes'
    BY <2>1 DEF RunGoes, RunTypes
  <2>3. FilledInv' /\ StartInv'
    BY <2>1, Numbers DEF RunGoes, RunTypes, FilledInv, StartInv
  <2> QED BY <2>1, <2>2, <2>3 DEF RunGoes, KeptInv, Tagged
<1>2. CASE T!FinSync
  <2>1. /\ at = "FinSync" /\ at' = "Rename"
        /\ UNCHANGED <<revision, part, saved, dest, url, offset, body, pos, start, mem, after,
                       ended>>
    BY <1>2 DEF T!FinSync, T!Goes, T!manifest, T!locals, T!response, T!outside
  <2> QED BY <2>1 DEF RunGoes, RunTypes, FilledInv, StartInv, KeptInv, Tagged
<1>3. CASE T!Rename
  <2>1. /\ at = "Rename" /\ at' = "Unlink" /\ dest' = part /\ part' = <<>>
        /\ UNCHANGED <<revision, saved, url, offset, body, pos, start, mem, after, ended>>
    BY <1>3 DEF T!Rename, T!Goes, T!manifest, T!locals, T!response, T!outside
  <2> QED BY <2>1 DEF RunGoes, RunTypes, FilledInv, StartInv, KeptInv, Tagged
<1>4. CASE T!Unlink
  <2>1. /\ at = "Unlink" /\ at' = "Idle" /\ ended' = "Finished" /\ after' = "Read"
        /\ body' = 1 /\ pos' = 0 /\ offset' = 0 /\ start' = 0 /\ mem' = 0
        /\ UNCHANGED <<revision, part, dest>> /\ saved' \in {saved, T!NoManifest}
    BY <1>4 DEF T!Unlink, T!Ends, T!manifest, T!outside
  <2>2. saved'.n \in Nat
    BY <2>1 DEF RunGoes, RunTypes, T!NoManifest, T!Manifest
  <2> QED BY <2>1, <2>2, Numbers DEF RunGoes, RunTypes, FilledInv, StartInv, KeptInv, Tagged
<1> QED BY <1>1, <1>2, <1>3, <1>4

\* The failures of a run, and a stop before it has its response.
LEMMA FailSteps ==
    ASSUME RunGoes,
           \/ T!RequestFails \/ T!RequestStopped \/ T!CheckpointFails \/ T!FileFails
           \/ \E k \in 0..Chunk : T!WriteFails(k)
    PROVE  RunGoes'
<1>1. /\ at \in {"Request", "Restart", "Read", "Sync", "Temp", "Save", "Open", "FinSync",
                 "Rename"}
      /\ UNCHANGED <<revision, saved, dest>> /\ ended = "None"
  BY DEF RunGoes, T!RequestFails, T!RequestStopped, T!CheckpointFails, T!FileFails,
         T!WriteFails, T!Write, T!WaitsForHead, T!disk, T!manifest, T!outside
<1>2. CASE T!RequestFails \/ T!RequestStopped
  <2>1. \E r \in {"Retryable", "Fatal", "Stopped"} : T!Ends(r)
    BY <1>2 DEF T!RequestFails, T!RequestStopped
  <2>2. part' = part /\ (Tagged => Little)
    BY <1>2 DEF T!RequestFails, T!RequestStopped, T!WaitsForHead, T!disk, RunGoes, KeptInv
  <2> QED BY <1>1, <2>1, <2>2, RunEnds DEF RunGoes, RunTypes
<1>3. CASE T!CheckpointFails
  <2>1. part' = part /\ T!Ends(IF after = "Retryable" THEN "Retryable" ELSE "Io")
    BY <1>3 DEF T!CheckpointFails, T!disk
  <2>2. after = "Retryable" => (Tagged => Little)
    BY <1>3 DEF T!CheckpointFails, RunGoes, KeptInv
  <2> QED BY <1>1, <2>1, <2>2, RunEnds DEF RunGoes, RunTypes
<1>4. CASE T!FileFails
  <2>1. part' = part /\ T!Ends("Io")
    BY <1>4 DEF T!FileFails, T!disk
  <2> QED BY <1>1, <2>1, RunEnds DEF RunGoes, RunTypes
<1>5. ASSUME NEW k \in 0..Chunk, T!WriteFails(k) PROVE RunGoes'
  <2>1. part' \in Seq(Bytes) /\ T!Ends("Io")
    BY <1>1, <1>5, Written DEF T!WriteFails, RunGoes
  <2> QED BY <1>1, <2>1, RunEnds
<1> QED BY <1>2, <1>3, <1>4, <1>5

\* A run takes its steps between its begin and its end.
LEMMA RunBusy ==
    ASSUME T!Own \/ T!Awaited
    PROVE  at # "Idle"
BY DEF T!Own, T!Awaited, T!RequestStopped, T!WaitsForHead, T!Open,
       T!ReadStopped, T!Leave, T!Sync, T!WriteTemp, T!Save, T!CheckpointFails, T!FinSync, T!Rename,
       T!Unlink, T!FileFails, T!RespondWhole, T!RespondRest, T!RespondOutOfRange,
       T!Respond, T!RequestFails, T!Read, T!WriteFails, T!Write, T!ReadFails, T!ReadEnds,
       T!Goes

\* A step of the run leaves the download with its worker and without a result.
LEMMA RunStep ==
    ASSUME IInv, RunInv, Runs \/ Receives
    PROVE  RunInv'
<1>1. at # "Idle" /\ UNCHANGED <<workers, result>>
  BY RunBusy DEF Runs, Receives, vars
<1>2. workers # {} /\ result[job] = "None" /\ RunGoes
  BY <1>1, NoneWhileKnown DEF RunInv, HeldInv, DeliveredInv, RunGoes
<1>3. RunGoes'
  <2>1. CASE T!Own
    BY <1>2, <2>1, OpenStep, LeaveStep, SyncStep, WriteTempStep, SaveStep, EndSteps, FailSteps
       DEF T!Own, T!ReadStopped
  <2>2. CASE T!Awaited
    BY <1>2, <2>2, HeadStep, ReadStep, LeaveStep, EndSteps, FailSteps
       DEF T!Awaited, T!ReadFails
  <2> QED BY <2>1, <2>2 DEF Runs, Receives
<1> QED BY <1>1, <1>2, <1>3 DEF RunInv, RunGoes, HeldInv, DeliveredInv, CleanInv

----------------------------------------------------------------------------
(* The steps that the run and the scheduler take together *)

\* Nothing that the invariant is about changes.
LEMMA NothingStep ==
    ASSUME RunInv, UNCHANGED <<revision, files, runVars, at>>,
           workers' = {} <=> workers = {}, result'[job] = result[job]
    PROVE  RunInv'
BY SameResumed
   DEF files, manifest, runVars, RunInv, RunTypes, HeldInv, DeliveredInv, FilledInv, StartInv,
       CleanInv, KeptInv, Tagged

\* The server replaces the file.
LEMMA PublishStep ==
    ASSUME RunInv, Publishes
    PROVE  RunInv'
<1>1. UNCHANGED <<part, saved, temp, dest, at, url, offset, body, pos, start, mem, after, ended,
                  workers, result>>
  BY DEF Publishes, T!Publish, T!disk, T!manifest, T!locals, T!response, vars
<1>2. revision' \in [Urls -> 1..Revisions]
  <2>1. /\ revision \in [Urls -> 1..Revisions] /\ jobUrl \in Urls /\ Revisions \in Nat
        /\ revision[jobUrl] < Revisions
        /\ revision' = [revision EXCEPT ![jobUrl] = revision[jobUrl] + 1]
    BY RunAssumption, One DEF Publishes, T!Publish, RunInv, RunTypes, T!TransferAssumption
  <2>2. revision[jobUrl] \in 1..Revisions
    BY <2>1
  <2>3. revision[jobUrl] + 1 \in 1..Revisions
    BY <2>1, <2>2
  <2> QED BY <2>1, <2>3
<1> QED
  BY <1>1, <1>2, SameResumed
     DEF RunInv, RunTypes, HeldInv, DeliveredInv, FilledInv, StartInv, CleanInv, KeptInv, Tagged

\* A run begins where the one before it has left the disk.
LEMMA DispatchesStep ==
    ASSUME IInv, RunInv, Dispatches
    PROVE  RunInv'
<1>1. /\ workers = {} /\ workers' # {}
      /\ result[job] = "None" /\ result' = result
  BY DispatchStep DEF Dispatches
<1>2. /\ at = "Idle" /\ ended \in {"None", "Stopped", "Retryable"} /\ RunGoes
  BY <1>1 DEF RunInv, HeldInv, DeliveredInv, RunGoes
<1>3. RunGoes'
  <2>1. CASE T!Begin(jobUrl)
    <3>1. /\ at' = "Request" /\ url' = jobUrl /\ ended' = "None" /\ offset' \in {0, Resumed}
          /\ UNCHANGED <<revision, part, saved, dest, body, pos, start, mem, after>>
      BY <2>1 DEF T!Begin, T!disk, T!manifest, T!outside, Resumed
    <3>2. RunTypes' /\ FilledInv'
      BY <1>2, <3>1, ResumedWithin DEF RunGoes, RunTypes, FilledInv
    <3>3. StartInv'
      BY <3>1, SameResumed DEF StartInv
    <3>4. dest' # <<>> <=> at' = "Unlink" \/ ended' = "Finished"
      BY <1>2, <3>1 DEF RunGoes
    <3>5. ASSUME Tagged PROVE KeptInv'
      BY <1>2, <3>1, <3>5, SameResumed DEF RunGoes, KeptInv
    <3> QED BY <3>1, <3>2, <3>3, <3>4, <3>5 DEF RunGoes, Tagged
  <2>2. CASE T!BeginFails
    <3>1. /\ \E r \in {"FileExists", "Io"} : T!Ends(r)
          /\ UNCHANGED <<revision, part, saved, dest>>
      BY <2>2 DEF T!BeginFails, T!disk, T!manifest, T!outside
    <3> QED BY <1>2, <3>1, RunEnds DEF RunGoes, RunTypes
  <2> QED BY <2>1, <2>2 DEF Dispatches
<1> QED BY <1>1, <1>3 DEF RunInv, RunGoes, HeldInv, DeliveredInv, CleanInv

\* The files are discarded while no run is under way.
LEMMA DiscardsStep ==
    ASSUME RunGoes, at = "Idle", Discards, UNCHANGED <<revision, dest, at, runVars>>
    PROVE  RunGoes'
<1>1. UNCHANGED <<url, offset, body, pos, start, mem, after, ended>>
  BY DEF runVars
<1>2. T!NoManifest.n = 0
  BY DEF T!NoManifest, T!Manifest
<1>3. CASE UNCHANGED <<part, saved>>
  BY <1>1, <1>3, SameResumed
     DEF RunGoes, RunTypes, FilledInv, StartInv, KeptInv, Tagged
<1>4. CASE part' = <<>> /\ saved' \in {saved, T!NoManifest}
  <2>1. RunTypes' /\ FilledInv' /\ StartInv'
    BY <1>1, <1>2, <1>4 DEF RunGoes, RunTypes, FilledInv, StartInv
  <2>2. Little'
    <3>1. Resumed' = IF T!Resumable(jobUrl)' THEN T!Least(saved'.n, Len(part')) ELSE 0
      BY DEF Resumed, T!ResumeOffset
    <3>2. Len(part') = 0 /\ saved'.n \in Nat
      BY <1>4, <2>1 DEF RunTypes
    <3>3. Resumed' = 0
      BY <3>1, <3>2 DEF T!Least
    <3> QED BY <3>2, <3>3, Numbers DEF Little
  <2>3. KeptInv'
    BY <1>1, <2>2 DEF KeptInv
  <2> QED BY <1>1, <2>1, <2>3 DEF RunGoes
<1> QED BY <1>3, <1>4 DEF Discards, manifest

\* A cancellation discards the files of a download without a worker.
LEMMA CancelsStep ==
    ASSUME IInv, RunInv, Cancels
    PROVE  RunInv'
<1>1. /\ HandleCancel \/ HandleCancelAll \/ Stop
      /\ Discards /\ UNCHANGED <<revision, dest, at, runVars>>
  BY DEF Cancels, outside
<1>2. workers' = {} <=> workers = {}
  BY <1>1, CancelStep
<1>3. CASE result'[job] = result[job]
  <2>1. UNCHANGED <<revision, files, runVars, at>>
    BY <1>1, <1>3 DEF Discards, Answers, files
  <2> QED BY <1>2, <1>3, <2>1, NothingStep
<1>4. CASE result'[job] # result[job]
  <2>1. /\ workers = {} /\ result[job] = "None" /\ result'[job] \in {"Cancelled", "Io"}
    BY <1>1, <1>4, CancelStep
  <2>2. at = "Idle" /\ ended \in {"None", "Stopped", "Retryable"} /\ RunGoes
    BY <2>1 DEF RunInv, HeldInv, DeliveredInv, RunGoes
  <2>3. RunGoes' /\ at' = "Idle" /\ ended' = ended
    BY <1>1, <2>2, DiscardsStep DEF runVars
  <2>4. CleanInv'
    BY <1>1, <2>1 DEF CleanInv, Discards, Answers, T!NoManifest, T!Manifest
  <2> QED BY <1>2, <2>1, <2>2, <2>3, <2>4 DEF RunInv, RunGoes, HeldInv, DeliveredInv
<1> QED BY <1>3, <1>4

\* So does the result of a run that a cancellation has stopped; what remains
\* of one that goes on is as the run has left it.
LEMMA CollectsStep ==
    ASSUME IInv, RunInv, Collects
    PROVE  RunInv'
<1>1. PICK w \in workers :
         \/ ended = "Finished" /\ WorkerFinished(w)
         \/ ended = "Stopped" /\ WorkerStopped(w)
         \/ ended = "Retryable" /\ WorkerFailed(w)
         \/ ended \in {"Fatal", "Io", "FileExists"} /\ WorkerFatal(w)
  BY DEF Collects
<1>2. /\ at = "Idle" /\ Discards /\ UNCHANGED <<revision, dest, at, runVars>>
      /\ RunGoes
  BY DEF Collects, outside, RunInv, RunGoes, HeldInv, DeliveredInv
<1>3. /\ workers' = {} /\ result[job] = "None"
      /\ result'[job] = "Ok" <=> ended = "Finished"
      /\ result'[job] = "None" => ended \in {"Stopped", "Retryable"}
  BY <1>1, CollectStep DEF WorkerStep
<1>4. RunGoes' /\ at' = "Idle" /\ ended' = ended
  BY <1>2, DiscardsStep DEF runVars
<1>5. CleanInv'
  BY <1>2, <1>3 DEF CleanInv, Discards, Answers, T!NoManifest, T!Manifest
<1> QED BY <1>3, <1>4, <1>5 DEF RunInv, RunGoes, HeldInv, DeliveredInv

----------------------------------------------------------------------------
(* What a run returns *)

\* A run that knows of a stop has been told by its own token or by the root
\* token, and so has one that has returned Stopped.
ToldInv ==
    /\ at = "Idle" => ~stop
    /\ stop => \A w \in workers : Stopping(w)
    /\ after = "Stopped" => stop
    /\ StoppedOnlyIfTold

Expected == {"Finished", "Retryable", "Fatal", "Io", "FileExists"}

\* The scheduler takes no cancellation back.
LEMMA StoppingStays ==
    ASSUME IInv, Clients \/ Loops \/ Elapses \/ HandleCancel \/ HandleCancelAll \/ Stop,
           NEW w \in workers, Stopping(w)
    PROVE  root' \/ \E v \in workers' : v.stop
<1>1. root => root'
  BY DEF Clients, Loops, Elapses, ClientStep, Enqueue, CallPause, CallResume, CallCancel,
         CallCancelAll, CallSetMaxConcurrent, CallRefused, CancelRoot, Send, clientVars,
         PollStop, PollNoCmd, Wake, Finish, HandleEnqueue, HandlePause, HandleResume,
         HandleSetMaxConcurrent, DispatchAbandoned, DispatchOver, RetryElapsed, HandleCancel,
         HandleCancelAll, Stop, Receive
<1>2. workers' = workers \/ \E S : workers' = StopWorkers(S)
  BY DEF Clients, Loops, Elapses, ClientStep, Enqueue, CallPause, CallResume, CallCancel,
         CallCancelAll, CallSetMaxConcurrent, CallRefused, CancelRoot, Send, clientVars,
         PollStop, PollNoCmd, Wake, Finish, HandleEnqueue, HandlePause, PauseIdle, PauseRunning,
         PausePausing, PauseAnswered, HandleResume, HandleSetMaxConcurrent,
         DispatchAbandoned, DispatchOver, RetryElapsed, HandleCancel, HandleCancelAll, Stop,
         CancelAllJobs, CancelJobs
<1>3. ASSUME NEW S, w.stop PROVE \E v \in StopWorkers(S) : v.stop
  <2>1. (IF w.id \in S /\ w.tok = token[w.id] THEN [w EXCEPT !.stop = TRUE] ELSE w)
           \in StopWorkers(S)
    BY DEF StopWorkers
  <2>2. CASE ~(w.id \in S /\ w.tok = token[w.id])
    BY <1>3, <2>1, <2>2
  <2>3. CASE w.id \in S /\ w.tok = token[w.id]
    BY <2>1, <2>3 DEF IInv, TypeOK, Worker
  <2> QED BY <2>2, <2>3
<1> QED BY <1>1, <1>2, <1>3 DEF Stopping

\* A step of the run goes on, remembering a stop only if there is one, or ends
\* with a result of these.
LEMMA RunReturns ==
    ASSUME RunTypes, ToldInv, T!Own \/ T!Awaited
    PROVE  \/ /\ at' # "Idle" /\ stop' = stop
              /\ after' \in {after, "Retryable"} \/ stop
           \/ \E r \in Expected \cup {"Stopped"} : T!Ends(r) /\ (r = "Stopped" => stop)
<1> USE DEF T!Goes, T!locals, T!response, Expected
<1>1. CASE T!RespondWhole \/ T!RespondRest \/ T!RespondOutOfRange \/ T!Open
  BY <1>1 DEF T!RespondWhole, T!RespondRest, T!Respond, T!RespondOutOfRange, T!Open
<1>2. CASE T!RequestFails \/ T!RequestStopped
  BY <1>2 DEF T!RequestFails, T!RequestStopped
<1>3. CASE \/ \E k \in 1..Chunk : T!Read(k)
           \/ \E k \in 0..Chunk : T!WriteFails(k)
  BY <1>3 DEF T!Read, T!WriteFails
<1>4. CASE T!ReadFails \/ T!ReadStopped
  BY <1>4 DEF T!ReadFails, T!ReadStopped, T!Leave
<1>5. CASE T!Sync \/ T!WriteTemp \/ T!CheckpointFails
  BY <1>5 DEF T!Sync, T!WriteTemp, T!CheckpointFails
<1>6. CASE T!Save
  BY <1>6 DEF T!Save, RunTypes, ToldInv
<1>7. CASE T!ReadEnds \/ T!FinSync \/ T!Rename \/ T!Unlink \/ T!FileFails
  BY <1>7 DEF T!ReadEnds, T!FinSync, T!Rename, T!Unlink, T!FileFails
<1> QED BY <1>1, <1>2, <1>3, <1>4, <1>5, <1>6, <1>7 DEF T!Own, T!Awaited

\* The token that a run sees is that of its worker in every step, and is
\* cancelled for good.
LEMMA ToldStep ==
    ASSUME IInv, IInv', RunInv, ToldInv, [ManagedNext]_allVars
    PROVE  ToldInv'
<1>1. CASE \/ Clients \/ Loops \/ Elapses
           \/ Cancels
  <2>1. /\ TokenSeen /\ UNCHANGED <<at, after, ended>>
        /\ Clients \/ Loops \/ Elapses \/ HandleCancel \/ HandleCancelAll \/ Stop
    BY <1>1 DEF Clients, Loops, Elapses, Apart, Cancels, runVars
  <2>2. workers' = {} <=> workers = {}
    BY <2>1, <1>1, QuietStep, CancelStep DEF Cancels
  <2>3. \A v, w \in workers' : v = w
    <3>1. \A w \in workers' : w.id = job
      BY One DEF IInv, TypeOK, Worker
    <3> QED BY <3>1, One DEF IInv, OneWorkerPerLiveJob
  <2>4. ASSUME NEW w \in workers, Stopping(w) PROVE \A v \in workers' : Stopping(v)'
    BY <2>1, <2>3, <2>4, StoppingStays DEF Stopping
  <2>5. stop' => \A w \in workers' : Stopping(w)'
    BY <2>1, <2>3 DEF TokenSeen, Stopping
  <2>6. after' = "Stopped" => stop'
    <3> SUFFICES ASSUME after = "Stopped" PROVE stop'
      BY <2>1
    <3>1. stop /\ at # "Idle" /\ workers # {}
      BY DEF ToldInv, RunInv, HeldInv
    <3>2. \E v \in workers : Stopping(v)
      BY <3>1 DEF ToldInv
    <3> QED BY <2>1, <3>1, <3>2, StoppingStays DEF TokenSeen
  <2>7. StoppedOnlyIfTold'
    BY <2>1, <2>2, <2>4 DEF ToldInv, StoppedOnlyIfTold
  <2> QED BY <2>1, <2>5, <2>6, <2>7 DEF ToldInv, TokenSeen
<1>2. CASE Dispatches
  <2>1. workers = {} /\ at = "Idle" /\ ~stop /\ after # "Stopped"
    BY <1>2, DispatchStep DEF Dispatches, RunInv, HeldInv, ToldInv
  <2>2. CASE T!Begin(jobUrl)
    BY <2>1, <2>2 DEF T!Begin, ToldInv, StoppedOnlyIfTold
  <2>3. CASE T!BeginFails
    BY <2>3 DEF T!BeginFails, T!Ends, ToldInv, StoppedOnlyIfTold
  <2> QED BY <1>2, <2>2, <2>3 DEF Dispatches
<1>3. CASE Collects
  <2>1. workers' = {} /\ UNCHANGED <<at, after, stop>>
    BY <1>3, CollectStep DEF Collects, WorkerStep, runVars
  <2> QED BY <2>1 DEF ToldInv, StoppedOnlyIfTold
<1>4. CASE Runs \/ Receives
  <2>1. UNCHANGED <<workers, root>> /\ \A w : Stopping(w)' = Stopping(w)
    BY <1>4 DEF Runs, Receives, vars, Stopping
  <2>2. CASE /\ at' # "Idle" /\ stop' = stop
             /\ after' \in {after, "Retryable"} \/ stop
    BY <2>1, <2>2 DEF ToldInv, StoppedOnlyIfTold
  <2>3. ASSUME NEW r \in Expected \cup {"Stopped"}, T!Ends(r), r = "Stopped" => stop
        PROVE  ToldInv'
    BY <2>1, <2>3 DEF ToldInv, StoppedOnlyIfTold, T!Ends, Expected
  <2> QED BY <1>4, <2>2, <2>3, RunReturns DEF Runs, Receives, RunInv
<1>5. CASE Publishes \/ UNCHANGED allVars
  <2>1. UNCHANGED <<workers, root, at, after, stop, ended>>
    BY <1>5 DEF Publishes, T!Publish, T!locals, vars, allVars, runVars
  <2> QED BY <2>1 DEF ToldInv, StoppedOnlyIfTold, Stopping
<1> QED BY <1>1, <1>2, <1>3, <1>4, <1>5 DEF ManagedNext, Thread

----------------------------------------------------------------------------
(* The theorems *)

\* Every step of the two is a step of the scheduler or leaves it alone: each
\* is stated as one.  Hence what is proved of Scheduler holds of it.
LEMMA SchedulerStep ==
    ASSUME [ManagedNext]_allVars
    PROVE  [Next]_vars
<1>1. CASE Clients
  BY <1>1 DEF Clients, Next
<1>2. CASE Loops
  BY <1>2 DEF Loops, Next, ThreadStep
<1>3. CASE Elapses
  BY <1>3 DEF Elapses, Next
<1>4. CASE Dispatches
  BY <1>4 DEF Dispatches, Next, ThreadStep
<1>5. CASE Cancels
  BY <1>5 DEF Cancels, Next, ThreadStep
<1>6. CASE Collects
  BY <1>6 DEF Collects, Next, WorkerStep
<1>7. CASE Runs \/ Receives \/ Publishes
  BY <1>7 DEF Runs, Receives, Publishes
<1>8. CASE UNCHANGED allVars
  BY <1>8 DEF allVars
<1> QED BY <1>1, <1>2, <1>3, <1>4, <1>5, <1>6, <1>7, <1>8 DEF ManagedNext, Thread

\* It holds before the first step.
LEMMA InitRunInv ==
    ASSUME ManagedInit
    PROVE  RunInv
<1>1. /\ at = "Idle" /\ ended = "None" /\ part = <<>> /\ dest = <<>>
      /\ saved = T!NoManifest /\ after = "Read" /\ body = 1
      /\ pos = 0 /\ offset = 0 /\ start = 0 /\ mem = 0
      /\ revision = [u \in Urls |-> 1]
  BY DEF ManagedInit, T!Init
<1>2. workers = {} /\ result[job] = "None"
  BY One DEF ManagedInit, Init
<1>3. saved.n = 0
  BY <1>1 DEF T!NoManifest, T!Manifest
<1>4. RunTypes
  BY <1>1, <1>3, Numbers DEF RunTypes
<1>5. Little
  <2>1. Len(part) = 0 /\ Resumed \in 0..Len(part)
    BY <1>1, <1>4, ResumedWithin
  <2> QED BY <2>1, Numbers DEF Little
<1> QED
  BY <1>1, <1>2, <1>4, <1>5
     DEF RunInv, HeldInv, DeliveredInv, FilledInv, StartInv, CleanInv, KeptInv

\* And after every step.
LEMMA StepRunInv ==
    ASSUME IInv, RunInv, [ManagedNext]_allVars
    PROVE  RunInv'
<1>1. CASE Clients \/ Loops \/ Elapses
  <2>1. /\ UNCHANGED <<revision, files, runVars, at>>
        /\ workers' = {} <=> workers = {}
        /\ result'[job] = result[job]
    BY <1>1, QuietStep DEF outside
  <2> QED BY <2>1, NothingStep
<1>2. CASE UNCHANGED allVars
  <2>1. UNCHANGED <<revision, files, runVars, at, workers, result>>
    BY <1>2 DEF allVars, outside, vars
  <2> QED BY <2>1, NothingStep
<1> QED
  BY <1>1, <1>2, RunStep, PublishStep, DispatchesStep, CancelsStep, CollectsStep
     DEF ManagedNext, Thread

\* The inductive invariants of the scheduler and of the run hold together.
LEMMA ManagedInvariant == ManagedSpec => [](IInv /\ RunInv)
<1>1. ManagedInit => IInv /\ RunInv
  BY InitIInv, InitRunInv DEF ManagedInit
<1>2. IInv /\ RunInv /\ [ManagedNext]_allVars => IInv' /\ RunInv'
  BY SchedulerStep, StepIInv, StepRunInv
<1> QED BY <1>1, <1>2, PTL DEF ManagedSpec

\* What a run has returned is a result that transition_job expects of it, and
\* Stopped only if its token or the root token is cancelled: so the worker that
\* Scheduler assumes, and its handlers of WorkerStopped and the others, leave
\* out nothing that worker::run does.
THEOREM RunsReturnAsExpected == ManagedSpec => []StoppedOnlyIfTold
<1>1. ManagedInit => ToldInv
  BY DEF ManagedInit, Init, T!Init, ToldInv, StoppedOnlyIfTold
<1>2. IInv /\ IInv' /\ RunInv /\ ToldInv /\ [ManagedNext]_allVars => ToldInv'
  BY ToldStep
<1>3. ToldInv => StoppedOnlyIfTold
  BY DEF ToldInv
<1> QED BY <1>1, <1>2, <1>3, ManagedInvariant, PTL DEF ManagedSpec

\* A download that is reported as cancelled has neither a .part nor a manifest
\* nor a destination: discard_partial comes after the last step of its run.
THEOREM CancelledIsCleanedUp == ManagedSpec => []CleanedUp
<1>1. IInv /\ RunInv => CleanedUp
  <2> SUFFICES ASSUME IInv, RunInv, result[job] = "Cancelled"
               PROVE  part = <<>> /\ saved = T!NoManifest /\ dest = <<>>
    BY DEF CleanedUp
  <2>1. workers = {} /\ at = "Idle"
    BY NoneWhileKnown DEF RunInv, HeldInv
  <2> QED BY <2>1 DEF RunInv, CleanInv, DeliveredInv
<1> QED BY <1>1, ManagedInvariant, PTL

\* The destination appears for the downloads that are answered Ok alone.
THEOREM OkMeansDelivered == ManagedSpec => []DeliveredOnlyIfOk
<1>1. IInv /\ RunInv => DeliveredOnlyIfOk
  <2> SUFFICES ASSUME IInv, RunInv, result[job] # "None"
               PROVE  result[job] = "Ok" <=> dest # <<>>
    BY DEF DeliveredOnlyIfOk
  <2>1. workers = {} /\ at = "Idle"
    BY NoneWhileKnown DEF RunInv, HeldInv
  <2> QED BY <2>1 DEF RunInv, DeliveredInv
<1> QED BY <1>1, ManagedInvariant, PTL

\* A resume of a paused download loses less than a checkpoint interval, if
\* the server gives validators.
THEOREM PauseLosesLittle == ManagedSpec => []PausedKeepsMost
<1>1. IInv /\ RunInv => PausedKeepsMost
  <2> SUFFICES ASSUME IInv, RunInv, state[job] = "Paused", Tagged
               PROVE  Little
    BY DEF PausedKeepsMost, Tagged, Little, Resumed
  <2>1. workers = {} /\ at = "Idle" /\ result[job] = "None"
    BY WorkerOfJob, NoneWhileKnown DEF Live, RunInv, HeldInv
  <2> QED BY <2>1 DEF RunInv, HeldInv, KeptInv
<1> QED BY <1>1, ManagedInvariant, PTL

\* Nothing touches the files of a paused download.
THEOREM PauseIsQuiet == ManagedSpec => PausedFileUntouched
<1>1. ASSUME IInv, RunInv, [ManagedNext]_allVars, state[job] = "Paused", state'[job] = "Paused"
      PROVE  UNCHANGED files
  <2>1. workers = {} /\ at = "Idle"
    BY <1>1, WorkerOfJob DEF Live, RunInv, HeldInv
  <2>2. CASE Clients \/ Loops \/ Elapses
    BY <1>1, <2>2, QuietStep
  <2>3. ~Dispatches
    BY <1>1, DispatchStep DEF Dispatches
  <2>4. ~Cancels
    BY <1>1, CancelStep DEF Cancels
  <2>5. ~Collects
    BY <2>1 DEF Collects
  <2>6. ~Runs /\ ~Receives
    BY <2>1, RunBusy DEF Runs, Receives
  <2>7. CASE Publishes
    BY <2>7 DEF Publishes, T!Publish, T!disk, T!manifest, files, manifest
  <2>8. CASE UNCHANGED allVars
    BY <2>8 DEF allVars
  <2> QED BY <1>1, <2>2, <2>3, <2>4, <2>5, <2>6, <2>7, <2>8 DEF ManagedNext, Thread
<1> QED BY <1>1, ManagedInvariant, PTL DEF ManagedSpec, PausedFileUntouched

=============================================================================
