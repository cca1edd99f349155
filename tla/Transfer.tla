------------------------------ MODULE Transfer ------------------------------
(***************************************************************************)
(* The transfer of downloads to one destination path, over any number of   *)
(* worker runs: src/src/worker.rs, src/src/storage and the sampling of     *)
(* progress in src/src/events.rs.                                          *)
(*                                                                         *)
(* A run of `worker::run` reads what earlier runs left on the disk, asks   *)
(* the server for the rest, writes the `.part` file, checkpoints it in the *)
(* manifest and in the end renames it to the destination.  Between two     *)
(* runs the scheduler may discard both sidecars.  The process may end and  *)
(* the machine may lose power at any moment.                               *)
(*                                                                         *)
(* The server and the file system are external.  A byte is a record of     *)
(* where it came from: the URL, the revision the server had of it, and the *)
(* position there.                                                         *)
(***************************************************************************)
EXTENDS Integers, Sequences

CONSTANTS
    Urls,           \* URLs downloaded to this destination, one after another
    Revisions,      \* how often the server may publish each of them
    Size,           \* Size[r]: length of revision r
    Tag,            \* Tag[r]: its ETag, else its Last-Modified, else NoTag
    NoTag, NoUrl,
    Chunk,          \* size of the read buffer
    Checkpoint,     \* PartFile::CHECKPOINT_BYTES
    Sample,         \* Progress::MIN_SAMPLE_BYTES
    First           \* a Range header of the user starts here, 0 without one

\* Two revisions of a resource share no validator, and the server does not
\* go back to an old one.
ASSUME TransferAssumption ==
    /\ Revisions \in Nat \ {0}
    /\ Size \in [1..Revisions -> Nat \ {0}]
    /\ DOMAIN Tag = 1..Revisions
    /\ \A r, s \in 1..Revisions : r # s => Tag[r] # Tag[s] \/ Tag[r] = NoTag
    /\ NoUrl \notin Urls
    /\ Chunk \in Nat \ {0}
    /\ Checkpoint \in Nat \ {0}
    /\ Sample \in Nat \ {0}
    /\ First \in Nat

VARIABLES
    \* the server
    revision,   \* revision of each URL that it serves
    \* the disk
    part,       \* content of <dest>.part, <<>> also when there is none
    synced,     \* how many bytes of it a power loss cannot take
    saved,      \* the manifest, NoManifest when there is none
    older,      \* what a power loss can bring back in its place
    temp,       \* the temporary manifest, NoManifest when there is none
    dest,       \* content of the destination, <<>> when there is none
    \* the worker
    pc,         \* where `run` stands, "Idle" between two runs
    url,        \* Request::url
    offset,     \* byte the run asks to resume at
    body,       \* revision that the response carries
    pos,        \* position in it of the next byte to be read
    start,      \* byte of the file the response is taken to start at
    mem,        \* PartFile::manifest.resume_offset()
    dirty,      \* PartFile::dirty
    after,      \* what follows the checkpoint under way
    stop,       \* the stop token is cancelled
    shown,      \* bytes in the progress last broadcast (last_sample_bytes)
    result,     \* result of the last run
    powerLost   \* history: the machine has lost power

manifest == <<saved, older, temp>>
disk     == <<part, synced, manifest, dest>>
response == <<url, offset, body, pos, start>>
locals   == <<response, mem, dirty, after>>
outside  == <<revision, powerLost>>
vars     == <<outside, disk, pc, locals, stop, shown, result>>

----------------------------------------------------------------------------
(* Values *)

Byte(u, r, i) == [url |-> u, rev |-> r, at |-> i]
Junk          == Byte(NoUrl, 0, 0)
Content(u, r) == [i \in 1..Size[r] |-> Byte(u, r, i)]

Manifest(u, t, n) == [url |-> u, tag |-> t, n |-> n]
NoManifest        == Manifest(NoUrl, NoTag, 0)

Least(a, b) == IF a <= b THEN a ELSE b

Init ==
    /\ revision = [u \in Urls |-> 1] /\ powerLost = FALSE
    /\ part = <<>> /\ synced = 0
    /\ saved = NoManifest /\ older = NoManifest /\ temp = NoManifest
    /\ dest = <<>>
    /\ pc = "Idle" /\ url = NoUrl
    /\ offset = 0 /\ body = 1 /\ pos = 0 /\ start = 0 /\ mem = 0
    /\ dirty = FALSE /\ after = "Read" /\ stop = FALSE
    /\ shown = 0
    /\ result = "None"

\* The run ends and its locals are gone.
Ends(r) ==
    /\ pc' = "Idle" /\ url' = NoUrl
    /\ offset' = 0 /\ body' = 1 /\ pos' = 0 /\ start' = 0 /\ mem' = 0
    /\ dirty' = FALSE /\ after' = "Read" /\ stop' = FALSE
    /\ result' = r

\* The run goes from one of its steps to the next.
Goes(from, to) ==
    /\ pc = from /\ pc' = to
    /\ UNCHANGED <<outside, stop, result>>

----------------------------------------------------------------------------
(* The environment *)

\* The server publishes another content under the URL.
Publish(u) ==
    /\ revision[u] < Revisions
    /\ revision' = [revision EXCEPT ![u] = @ + 1]
    /\ UNCHANGED <<powerLost, disk, pc, locals, stop, shown, result>>

\* The scheduler, or the root token, cancels the stop token of the run.
RequestStop ==
    /\ pc \notin {"Idle", "Discard"} /\ ~stop
    /\ stop' = TRUE
    /\ UNCHANGED <<outside, disk, pc, locals, shown, result>>

\* The process ends, or the worker panics.
ProcessEnds ==
    /\ pc # "Idle"
    /\ Ends("Crashed")
    /\ UNCHANGED <<outside, disk, shown>>

\* The machine goes down: of the bytes not yet synced some are gone, others
\* are garbage.  The manifest, renamed but never synced, is the last one, the
\* one before, or unreadable; so is the temporary one.
PowerLoss ==
    /\ Ends("Crashed")
    /\ powerLost' = TRUE
    /\ \E n \in synced..Len(part) : \E good \in synced..n :
          part' = [i \in 1..n |-> IF i <= good THEN part[i] ELSE Junk]
    /\ saved' \in {saved, older, NoManifest}
    /\ older' = saved'
    /\ temp' \in {temp, NoManifest}
    /\ UNCHANGED <<revision, synced, dest, shown>>

----------------------------------------------------------------------------
(* Between two runs: storage::discard_partial, first the data, then the    *)
(* manifest.  It leaves a temporary manifest alone.                        *)

DiscardPart ==
    /\ Goes("Idle", "Discard")
    /\ part' = <<>> /\ synced' = 0
    /\ UNCHANGED <<manifest, dest, locals, shown>>

DiscardManifest ==
    /\ Goes("Discard", "Idle")
    /\ saved' = NoManifest /\ older' = saved
    /\ UNCHANGED <<part, synced, temp, dest, locals, shown>>

\* The second removal fails.  (When the first does, nothing has changed.)
DiscardFails ==
    /\ pc = "Discard"
    /\ Ends("Io")
    /\ UNCHANGED <<outside, disk, shown>>

----------------------------------------------------------------------------
(* worker::run, up to the response *)

\* Manifest::load and is_resumable_for.
Resumable(u) == saved.n > 0 /\ saved.tag # NoTag /\ saved.url = u

\* resume_offset().min(part_len(dest))
ResumeOffsetNotCut(u) == IF Resumable(u) THEN saved.n ELSE 0
ResumeOffset(u)       == IF Resumable(u) THEN Least(saved.n, Len(part)) ELSE 0

\* Looks at the destination, then for a transfer to resume.  A manifest that
\* cannot be read counts as none, and stays.
Begin(u) ==
    /\ pc = "Idle" /\ pc' = "Request"
    /\ url' = u
    /\ offset' \in {ResumeOffset(u), 0}
    /\ result' = "None"
    /\ UNCHANGED <<outside, disk, body, pos, start, mem, dirty, after, stop, shown>>

\* overwrite is off and the destination exists, or it cannot be looked at.
BeginFails ==
    /\ pc = "Idle"
    /\ \/ dest # <<>> /\ Ends("FileExists")
       \/ Ends("Io")
    /\ UNCHANGED <<outside, disk, shown>>

Resumes == pc = "Request" /\ offset > 0

\* Where the Range header of the request starts, 0 when it has none: a resume
\* replaces the one of the user, a first request and a restart keep it.
Asked == IF Resumes THEN offset ELSE First

\* What the status of the response makes of `offset`.
StartAlwaysAtOffset(resumed) == offset
Start(resumed)               == IF resumed THEN offset ELSE 0

\* The head of a response with the bytes of the resource after position i.
Respond(i, resumed) ==
    /\ pc \in {"Request", "Restart"} /\ ~stop
    /\ i < Size[revision[url]]
    /\ body' = revision[url]
    /\ pos' = i
    /\ start' = Start(resumed)
    /\ pc' = "Open"
    /\ UNCHANGED <<outside, disk, url, offset, mem, dirty, after, stop, shown, result>>

\* 200: nothing to resume, a validator that If-Range found outdated, or a
\* server without ranges.
RespondWhole == Respond(0, FALSE)

\* 206: the range asked for, of whatever the server has for the user's own, and
\* in a resume only of what the manifest was written for.
RespondRest ==
    /\ Asked > 0
    /\ Resumes => saved.tag = Tag[revision[url]]
    /\ Respond(Asked, TRUE)

\* 416: ask again, without the range of the resume.
RespondOutOfRange ==
    /\ Goes("Request", "Restart") /\ ~stop
    /\ Asked > 0 /\ Asked >= Size[revision[url]]
    /\ UNCHANGED <<disk, locals, shown>>

\* A transport error or a 5xx ("Retryable"), or another status ("Fatal").
RequestFails ==
    /\ pc \in {"Request", "Restart"} /\ ~stop
    /\ \E r \in {"Retryable", "Fatal"} : Ends(r)
    /\ UNCHANGED <<outside, disk, shown>>

WaitsForHeadOnce == pc = "Request"
WaitsForHead     == pc \in {"Request", "Restart"}

RequestStopped ==
    /\ WaitsForHead /\ stop
    /\ Ends("Stopped")
    /\ UNCHANGED <<outside, disk, shown>>

\* PartFile::open cuts the file at `start`; the manifest on the disk stays.
\* The transfer broadcasts its starting point.
CutAll == <<>>
NotCut == part
Cut    == SubSeq(part, 1, start)

Open ==
    /\ Goes("Open", "Read")
    /\ part' = Cut
    /\ synced' = Least(synced, start)
    /\ mem' = start /\ dirty' = FALSE
    /\ shown' = start
    /\ UNCHANGED <<manifest, dest, response, after>>

----------------------------------------------------------------------------
(* The read loop *)

CheckpointDueLate(n) == n - mem > Checkpoint
CheckpointDue(n)     == n - mem >= Checkpoint

\* Progress::add with n bytes so far: a sample is due after enough bytes, and
\* may be due after fewer because enough time has passed.
AddByTimeOnly(n) == shown' \in {shown, n}
Add(n)           == shown' \in (IF n - shown >= Sample THEN {n} ELSE {shown, n})

\* The next k bytes of the response reach the file.
Write(k) ==
    /\ pc = "Read" /\ ~stop
    /\ pos + k <= Size[body]
    /\ part' = part \o SubSeq(Content(url, body), pos + 1, pos + k)

\* PartFile::write; progress is counted when the checkpoint, if one is due,
\* has been made.
Read(k) ==
    /\ Write(k)
    /\ pos' = pos + k
    /\ dirty' = TRUE
    /\ IF CheckpointDue(Len(part')) THEN Goes("Read", "Sync") /\ UNCHANGED shown
                                    ELSE Goes("Read", "Read") /\ Add(Len(part'))
    /\ UNCHANGED <<synced, manifest, dest, url, offset, body, start, mem, after>>

\* write_all fails after some of the bytes: no checkpoint.
WriteFails(k) ==
    /\ Write(k)
    /\ Ends("Io")
    /\ UNCHANGED <<outside, synced, manifest, dest, shown>>

\* The connection breaks, or the stop token is cancelled: a last checkpoint.
Leave(r) ==
    /\ pc = "Read"
    /\ IF dirty THEN /\ Goes("Read", "Sync") /\ after' = r
                     /\ UNCHANGED <<response, mem, dirty>>
                ELSE Ends(r) /\ UNCHANGED outside
    /\ UNCHANGED <<disk, shown>>

ReadFailsAsStopped == ~stop /\ Leave("Stopped")
ReadFails          == ~stop /\ Leave("Retryable")
ReadStopped        == stop /\ Leave("Stopped")

----------------------------------------------------------------------------
(* PartFile::checkpoint: the data, then Manifest::save, which writes a      *)
(* temporary file and renames it.                                          *)

SyncDataNot == synced
SyncData    == Len(part)

Sync ==
    /\ Goes("Sync", "Temp")
    /\ synced' = SyncData
    /\ mem' = Len(part)
    /\ UNCHANGED <<part, manifest, dest, response, dirty, after, shown>>

WriteTemp ==
    /\ Goes("Temp", "Save")
    /\ temp' = Manifest(url, Tag[body], mem)
    /\ UNCHANGED <<part, synced, saved, older, dest, locals, shown>>

Save ==
    /\ pc = "Save"
    /\ saved' = temp /\ older' = saved
    /\ temp' = NoManifest
    /\ IF after = "Read"
       THEN /\ Goes("Save", "Read") /\ dirty' = FALSE /\ Add(Len(part))
            /\ UNCHANGED <<response, mem, after>>
       ELSE Ends(after) /\ UNCHANGED <<outside, shown>>
    /\ UNCHANGED <<part, synced, dest>>

\* A failure is an error of the run, except after a broken connection, where
\* it is only logged.  The temporary manifest, once written, stays behind.
CheckpointFails ==
    /\ pc \in {"Sync", "Temp", "Save"}
    /\ Ends(IF after = "Retryable" THEN "Retryable" ELSE "Io")
    /\ UNCHANGED <<outside, disk, shown>>

----------------------------------------------------------------------------
(* The end of the body: Progress::force_update and PartFile::finalize *)

ForceUpdateNot == shown
ForceUpdate    == Len(part)

ReadEnds ==
    /\ Goes("Read", "FinSync") /\ ~stop
    /\ pos = Size[body]
    /\ shown' = ForceUpdate
    /\ UNCHANGED <<disk, locals>>

FinSync ==
    /\ Goes("FinSync", "Rename")
    /\ synced' = Len(part)
    /\ UNCHANGED <<part, manifest, dest, locals, shown>>

Rename ==
    /\ Goes("Rename", "Unlink")
    /\ dest' = part
    /\ part' = <<>> /\ synced' = 0
    /\ UNCHANGED <<manifest, locals, shown>>

\* A failure to remove the manifest is only logged.
Unlink ==
    /\ pc = "Unlink"
    /\ Ends("Finished")
    /\ \/ saved' = NoManifest /\ older' = saved
       \/ UNCHANGED <<saved, older>>
    /\ UNCHANGED <<outside, part, synced, temp, dest, shown>>

\* An I/O error of open, sync_all or rename ends the run.
FileFails ==
    /\ pc \in {"Open", "FinSync", "Rename"}
    /\ Ends("Io")
    /\ UNCHANGED <<outside, disk, shown>>

----------------------------------------------------------------------------

Environment ==
    \/ \E u \in Urls : Publish(u)
    \/ RequestStop
    \/ ProcessEnds
    \/ PowerLoss

\* Between two runs, by the scheduler.
Between ==
    \/ \E u \in Urls : Begin(u)
    \/ BeginFails
    \/ DiscardPart
    \/ DiscardManifest
    \/ DiscardFails

\* Steps of a run that depend on the server.
Awaited ==
    \/ RespondWhole
    \/ RespondRest
    \/ RespondOutOfRange
    \/ RequestFails
    \/ \E k \in 1..Chunk : Read(k)
    \/ \E k \in 0..Chunk : WriteFails(k)
    \/ ReadFails
    \/ ReadEnds

\* Steps a run takes by itself.
Own ==
    \/ RequestStopped
    \/ Open
    \/ ReadStopped
    \/ Sync
    \/ WriteTemp
    \/ Save
    \/ CheckpointFails
    \/ FinSync
    \/ Rename
    \/ Unlink
    \/ FileFails

Next == Environment \/ Between \/ Awaited \/ Own

Spec == Init /\ [][Next]_vars

----------------------------------------------------------------------------
(* Properties *)

TypeOK ==
    /\ revision \in [Urls -> 1..Revisions]
    /\ \A i \in 1..Len(part) : part[i].url \in Urls \cup {NoUrl}
    /\ synced \in 0..Len(part)
    /\ saved.url \in Urls \cup {NoUrl} /\ older.url \in Urls \cup {NoUrl}
    /\ temp.url \in Urls \cup {NoUrl}
    /\ saved.n \in Nat /\ older.n \in Nat /\ temp.n \in Nat
    /\ pc \in {"Idle", "Discard", "Request", "Restart", "Open", "Read", "Sync",
               "Temp", "Save", "FinSync", "Rename", "Unlink"}
    /\ url = NoUrl <=> pc \in {"Idle", "Discard"}
    /\ pc \notin {"Idle", "Discard"} => url \in Urls
    /\ body \in 1..Revisions /\ pos \in 0..Size[body]
    /\ offset \in Nat /\ start \in Nat /\ mem \in Nat /\ shown \in Nat
    /\ dirty \in BOOLEAN /\ stop \in BOOLEAN /\ powerLost \in BOOLEAN
    /\ after \in {"Read", "Stopped", "Retryable"}
    /\ result \in {"None", "Crashed", "Io", "FileExists", "Retryable", "Fatal",
                   "Stopped", "Finished"}

\* Whatever runs, stops, failures, process crashes and replacements on the
\* server came before it, the file that appears at the destination is one
\* revision of one URL from its first byte to its last (worker.rs, file.rs
\* finalize).
DestWhole ==
    dest # <<>> /\ ~powerLost =>
        \E u \in Urls, r \in 1..Revisions : dest = Content(u, r)

\* The bytes that a manifest would let the next run of its URL keep, should
\* the server confirm its validator.
Kept == Least(saved.n, Len(part))

\* Such bytes are those the server would send: a resumed download cannot be
\* stitched together from two contents (manifest.rs is_resumable_for,
\* worker.rs If-Range).
ResumeSafe ==
    \A u \in Urls :
        Resumable(u) /\ saved.tag = Tag[revision[u]] /\ ~powerLost =>
            \A i \in 1..Kept : part[i] = Byte(u, revision[u], i)

\* While a run waits for bytes, all it has received is at most a checkpoint
\* interval ahead of what a run after a crash would resume at, if the response
\* has a validator (file.rs CHECKPOINT_BYTES).
BoundedLoss ==
    pc = "Read" /\ Tag[body] # NoTag =>
        LET kept == IF Resumable(url) /\ saved.tag = Tag[body] THEN Kept ELSE 0
        IN  Len(part) - kept < Checkpoint

\* PartFile::open never extends the file: its caller passes an offset within
\* it, whatever a crash took from the file that the manifest still claims
\* (file.rs open).
NeverExtends == pc = "Open" => start <= Len(part)

\* The manifest that a checkpoint renames into place is of this response, not
\* one that a failed checkpoint has left in the temporary file; it claims only
\* bytes that a power loss can no longer take, and those that this run received
\* are where the server has them (file.rs checkpoint, manifest.rs save).
CheckpointDurable ==
    [][Save =>
          /\ saved'.url = url /\ saved'.tag = Tag[body]
          /\ saved'.n <= synced
          /\ \A i \in start + 1..saved'.n : part[i] = Byte(url, body, i)]_vars

\* The progress a client reads is never a sample or more behind the file
\* while the run waits for bytes, is never ahead of it, and is the length of
\* the finished file when the run has finished, resumes, restarts and
\* checkpoints in between notwithstanding (events.rs add, force_update).
ProgressTrue ==
    /\ pc = "Read" => Len(part) - shown \in 0..Sample - 1
    /\ pc \in {"FinSync", "Rename"} => shown = Len(part)
    /\ result = "Finished" => shown = Len(dest)

\* A request with a range of the user's own, which request.rs:102 names as a
\* header to set, completes with that range, or with the whole file if the
\* server ignores ranges.
RangeKept ==
    dest # <<>> /\ ~powerLost =>
        \E u \in Urls, r \in 1..Revisions :
            dest \in {Content(u, r), SubSeq(Content(u, r), First + 1, Size[r])}

=============================================================================
