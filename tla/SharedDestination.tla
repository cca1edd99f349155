------------------------- MODULE SharedDestination -------------------------
(***************************************************************************)
(* Several downloads to one destination, transferred at the same time: the *)
(* parts of src/src/worker.rs and src/src/storage/file.rs that touch the   *)
(* file system.  Nothing in the manager keeps two such downloads apart.    *)
(*                                                                         *)
(* Each run writes through the file it has opened, wherever that file has  *)
(* been renamed to meanwhile.  Files are shorter than a checkpoint         *)
(* interval and no run is stopped, so no manifest is ever written and all  *)
(* runs start at byte 0.                                                   *)
(***************************************************************************)
EXTENDS Integers, Sequences

CONSTANTS
    Runs,       \* worker runs, one for each download
    Size,       \* length of the file they download
    Overwrite,  \* DownloadConfig::overwrite of all of them
    None        \* no file

VARIABLES
    content,    \* content[f]: bytes of file f, each the run that wrote it
    part,       \* the file named <dest>.part, None when there is none
    dest,       \* the file at the destination
    file,       \* PartFile::file of each run
    pos,        \* stream position of each run
    pc          \* where each run stands, or what it has returned

vars == <<content, part, dest, file, pos, pc>>

Zero == None    \* a byte nobody wrote, in a hole of a file

Init ==
    /\ content = [f \in Runs |-> <<>>]
    /\ part = None /\ dest = None
    /\ file = [r \in Runs |-> None]
    /\ pos = [r \in Runs |-> 0]
    /\ pc = [r \in Runs |-> "Look"]

Goes(r, from, to) == pc[r] = from /\ pc' = [pc EXCEPT ![r] = to]

\* The only look at the destination, before the request.
Look(r) ==
    /\ Goes(r, "Look", IF dest # None /\ ~Overwrite THEN "FileExists" ELSE "Open")
    /\ UNCHANGED <<content, part, dest, file, pos>>

\* PartFile::open: creates the .part or takes the one there is, and cuts it.
Open(r) ==
    LET f == IF part = None THEN r ELSE part
    IN  /\ Goes(r, "Open", "Read")
        /\ part' = f
        /\ file' = [file EXCEPT ![r] = f]
        /\ content' = [content EXCEPT ![f] = <<>>]
        /\ UNCHANGED <<dest, pos>>

\* PartFile::write of the next byte.
WriteAt(bytes, p, r) ==
    [i \in 1..(IF p < Len(bytes) THEN Len(bytes) ELSE p + 1) |->
        IF i = p + 1 THEN r ELSE IF i <= Len(bytes) THEN bytes[i] ELSE Zero]

Write(r) ==
    /\ Goes(r, "Read", "Read") /\ pos[r] < Size
    /\ content' = [content EXCEPT ![file[r]] = WriteAt(@, pos[r], r)]
    /\ pos' = [pos EXCEPT ![r] = @ + 1]
    /\ UNCHANGED <<part, dest, file>>

\* PartFile::finalize: renames what has the name, or finds nothing there.
Rename(r) ==
    /\ pos[r] = Size
    /\ IF part = None
       THEN Goes(r, "Read", "Io") /\ UNCHANGED <<part, dest>>
       ELSE Goes(r, "Read", "Finished") /\ dest' = part /\ part' = None
    /\ UNCHANGED <<content, file, pos>>

\* The request or a write fails, which leaves no manifest.
Fails(r) ==
    /\ \E from \in {"Open", "Read"} : Goes(r, from, "Failed")
    /\ UNCHANGED <<content, part, dest, file, pos>>

Next == \E r \in Runs : Look(r) \/ Open(r) \/ Write(r) \/ Rename(r) \/ Fails(r)

Spec == Init /\ [][Next]_vars

\* file.rs:11-12, "Writes always target the `.part`; the final destination
\* only appears via an atomic rename": a file that is at the destination is
\* never written or cut there.
WritesTargetPart ==
    [][dest # None /\ dest' = dest => content'[dest] = content[dest]]_vars

=============================================================================
