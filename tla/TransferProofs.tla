--------------------------- MODULE TransferProofs ---------------------------
(***************************************************************************)
(* Proofs about Transfer for any files, chunks and checkpoint intervals,   *)
(* any number of revisions, runs, crashes and losses of power.             *)
(***************************************************************************)
EXTENDS Transfer, SequenceTheorems, TLAPS

----------------------------------------------------------------------------
(* The parts of the inductive invariant *)

Bytes == [url : Urls \cup {NoUrl}, rev : Nat, at : Nat]
Tags  == {Tag[r] : r \in 1..Revisions} \cup {NoTag}

Outside == {"Idle", "Discard"}
Reading == {"Read", "Sync", "Temp", "Save"}
Ending  == {"FinSync", "Rename"}

Failures == {"Crashed", "Io", "FileExists", "Retryable", "Fatal", "Stopped"}
Results  == Failures \cup {"None", "Finished"}

Manifests == [url : Urls \cup {NoUrl}, tag : Tags, n : Nat]

DiskTypes ==
    /\ revision \in [Urls -> 1..Revisions]
    /\ part \in Seq(Bytes) /\ dest \in Seq(Bytes)
    /\ synced \in 0..Len(part)
    /\ saved \in Manifests /\ older \in Manifests /\ temp \in Manifests
    /\ shown \in Nat /\ powerLost \in BOOLEAN

RunTypes ==
    /\ pc \in Outside \cup {"Request", "Restart", "Open", "Unlink"}
                      \cup Reading \cup Ending
    /\ url \in Urls \cup {NoUrl}
    /\ url = NoUrl <=> pc \in Outside
    /\ body \in 1..Revisions /\ pos \in 0..Size[body]
    /\ offset \in Nat /\ start \in Nat /\ mem \in Nat
    /\ dirty \in BOOLEAN /\ stop \in BOOLEAN
    /\ after \in {"Read", "Stopped", "Retryable"}
    /\ result \in Results

TypeInv == DiskTypes /\ RunTypes

\* The bytes a run decides to keep are there.
FitsInv ==
    /\ pc \in {"Request", "Restart"} => offset <= Len(part)
    /\ pc = "Open" => start <= Len(part)

----------------------------------------------------------------------------
(* Steps *)

\* The run is over and has left the disk alone.
Quits ==
    /\ \E r \in Failures : Ends(r)
    /\ UNCHANGED <<outside, disk, shown>>

\* The run leaves the read loop by a last checkpoint.
LastCheckpoint(r) ==
    /\ Goes("Read", "Sync") /\ after' = r
    /\ UNCHANGED <<disk, response, mem, dirty, shown>>

\* Every step is one of these.
LEMMA Steps ==
    ASSUME [Next]_vars, TypeInv
    PROVE  \/ UNCHANGED vars
           \/ \E u \in Urls : Publish(u)
           \/ RequestStop
           \/ PowerLoss
           \/ Quits
           \/ \E u \in Urls : Begin(u)
           \/ DiscardPart
           \/ DiscardManifest
           \/ RespondWhole
           \/ RespondRest
           \/ RespondOutOfRange
           \/ Open
           \/ \E k \in 1..Chunk : Read(k)
           \/ \E k \in 0..Chunk : WriteFails(k)
           \/ \E r \in {"Stopped", "Retryable"} : LastCheckpoint(r)
           \/ Sync
           \/ WriteTemp
           \/ Save
           \/ ReadEnds
           \/ FinSync
           \/ Rename
           \/ Unlink
<1>1. ProcessEnds => Quits
  BY DEF Failures, ProcessEnds, Quits
<1>2. BeginFails => Quits
  BY DEF Failures, BeginFails, Quits
<1>3. DiscardFails => Quits
  BY DEF Failures, DiscardFails, Quits
<1>4. RequestFails \/ RequestStopped => Quits
  BY DEF Failures, RequestFails, RequestStopped, Quits
<1>5. ReadFails \/ ReadStopped =>
          Quits \/ \E r \in {"Stopped", "Retryable"} : LastCheckpoint(r)
  BY DEF Failures, ReadFails, ReadStopped, Leave, Quits, LastCheckpoint
<1>6. CheckpointFails => Quits
  BY DEF Failures, CheckpointFails, Quits
<1>7. FileFails => Quits
  BY DEF Failures, FileFails, Quits
<1> QED
  BY <1>1, <1>2, <1>3, <1>4, <1>5, <1>6, <1>7
     DEF Next, Environment, Between, Awaited, Own

----------------------------------------------------------------------------
(* Operators *)

\* What the assumption says of each revision.
LEMMA Sizes ==
    /\ Revisions \in Nat /\ 1 \in 1..Revisions
    /\ \A r \in 1..Revisions : Size[r] \in Nat /\ Size[r] > 0 /\ Tag[r] \in Tags
    /\ Checkpoint \in Nat /\ Checkpoint > 0
    /\ Sample \in Nat /\ Sample > 0
    /\ Chunk \in Nat /\ First \in Nat
    /\ NoUrl \notin Urls
  BY TransferAssumption DEF Tags

\* Manifest, Byte and Junk are what they are taken for.
LEMMA ValueTypes ==
    /\ NoManifest \in Manifests
    /\ Junk \in Bytes
    /\ \A u \in Urls, r \in 1..Revisions, n \in Nat :
          /\ Manifest(u, Tag[r], n) \in Manifests
          /\ Byte(u, r, n) \in Bytes
  BY DEF NoManifest, Manifest, Manifests, Tags, Junk, Byte, Bytes

\* Cutting the file at `start` keeps that many bytes, each as it was.
LEMMA CutKeeps ==
    ASSUME part \in Seq(Bytes), start \in 0..Len(part)
    PROVE  /\ Cut \in Seq(Bytes)
           /\ Len(Cut) = start
           /\ \A i \in 1..start : Cut[i] = part[i]
<1>1. start \in Int /\ \A i \in 1..start : part[i] \in Bytes
  OBVIOUS
<1>2. /\ SubSeq(part, 1, start) \in Seq(Bytes)
      /\ Len(SubSeq(part, 1, start)) = IF 1 <= start THEN start - 1 + 1 ELSE 0
      /\ \A i \in 1..start - 1 + 1 : SubSeq(part, 1, start)[i] = part[1 + i - 1]
  BY <1>1, SubSeqProperties
<1> QED BY <1>1, <1>2 DEF Cut

\* The k elements of c that follow position i.
LEMMA Slice ==
    ASSUME NEW S, NEW c, NEW i \in Nat, NEW k \in Nat, \A j \in i + 1..i + k : c[j] \in S
    PROVE  /\ SubSeq(c, i + 1, i + k) \in Seq(S)
           /\ Len(SubSeq(c, i + 1, i + k)) = k
           /\ \A j \in 1..k : SubSeq(c, i + 1, i + k)[j] = c[i + j]
<1> SUFFICES ASSUME NEW a \in Int, NEW b \in Int, a = i + 1, b = i + k
             PROVE  /\ SubSeq(c, a, b) \in Seq(S)
                    /\ Len(SubSeq(c, a, b)) = k
                    /\ \A j \in 1..k : SubSeq(c, a, b)[j] = c[i + j]
  OBVIOUS
<1>1. /\ SubSeq(c, a, b) \in Seq(S)
      /\ Len(SubSeq(c, a, b)) = IF a <= b THEN b - a + 1 ELSE 0
      /\ \A j \in 1..b - a + 1 : SubSeq(c, a, b)[j] = c[a + j - 1]
  BY SubSeqProperties
<1>2. \A j \in 1..k : a + j - 1 = i + j /\ b - a + 1 = k
  OBVIOUS
<1>3. a > b => k = 0
  OBVIOUS
<1> QED BY <1>1, <1>2, <1>3

\* A write appends the k bytes of the response that come next.
LEMMA WriteAppends ==
    ASSUME TypeInv, NEW k \in 0..Chunk, Write(k)
    PROVE  /\ part' \in Seq(Bytes)
           /\ Len(part') = Len(part) + k
           /\ \A i \in 1..Len(part) : part'[i] = part[i]
           /\ \A i \in Len(part) + 1..Len(part) + k :
                 part'[i] = Byte(url, body, pos + i - Len(part))
<1>0. PICK c : c = Content(url, body)
  OBVIOUS
<1>1. PICK w : w = SubSeq(c, pos + 1, pos + k)
  OBVIOUS
<1>2. /\ url \in Urls /\ body \in 1..Revisions /\ k \in Nat /\ pos \in Nat
      /\ pos + k <= Size[body] /\ Size[body] \in Nat /\ part \in Seq(Bytes)
      /\ part' = part \o w
  BY <1>0, <1>1, TransferAssumption DEF TypeInv, DiskTypes, RunTypes, Write, Outside
<1>3. \A i \in pos + 1..pos + k : c[i] \in Bytes /\ c[i] = Byte(url, body, i)
  BY <1>0, <1>2, ValueTypes DEF Content
<1>4. w \in Seq(Bytes) /\ Len(w) = k /\ \A i \in 1..k : w[i] = c[pos + i]
  BY <1>1, <1>2, <1>3, Slice
<1>5. \A i \in 1..k : w[i] = Byte(url, body, pos + i)
  <2>1. \A i \in 1..k : pos + i \in pos + 1..pos + k
    BY <1>2
  <2> QED BY <2>1, <1>3, <1>4
<1>6. /\ part \o w \in Seq(Bytes)
      /\ Len(part \o w) = Len(part) + Len(w)
      /\ \A i \in 1..Len(part) + Len(w) :
            (part \o w)[i] = IF i <= Len(part) THEN part[i] ELSE w[i - Len(part)]
  BY <1>2, <1>4, ConcatProperties
<1>7. ASSUME NEW i \in Len(part) + 1..Len(part) + k
      PROVE  part'[i] = Byte(url, body, pos + i - Len(part))
  <2>1. part'[i] = w[i - Len(part)] /\ i - Len(part) \in 1..k
    BY <1>2, <1>4, <1>6
  <2>2. pos + (i - Len(part)) = pos + i - Len(part)
    BY <1>2
  <2> QED BY <1>5, <2>1, <2>2
<1> QED BY <1>2, <1>4, <1>6, <1>7

\* Of a file that lost power a prefix of at least the synced bytes is left, and
\* the synced ones are as they were.
LEMMA PowerLossKeeps ==
    ASSUME TypeInv, PowerLoss
    PROVE  /\ part' \in Seq(Bytes)
           /\ Len(part') \in synced..Len(part)
           /\ \A i \in 1..synced : part'[i] = part[i]
           /\ saved' \in Manifests /\ temp' \in Manifests
<1>1. PICK n \in synced..Len(part) : \E good \in synced..n :
         part' = [i \in 1..n |-> IF i <= good THEN part[i] ELSE Junk]
  BY DEF PowerLoss
<1>2. PICK good \in synced..n :
         part' = [i \in 1..n |-> IF i <= good THEN part[i] ELSE Junk]
  BY <1>1
<1>3. n \in Nat /\ good \in Nat /\ n <= Len(part) /\ part \in Seq(Bytes)
  BY <1>1, <1>2 DEF TypeInv, DiskTypes
<1>4. \A i \in 1..n : (IF i <= good THEN part[i] ELSE Junk) \in Bytes
  BY <1>3, ValueTypes
<1>5. part' \in Seq(Bytes) /\ Len(part') = n
  BY <1>2, <1>3, <1>4
<1>6. saved' \in Manifests /\ temp' \in Manifests
  BY ValueTypes DEF PowerLoss, TypeInv, DiskTypes
<1>7. \A i \in 1..synced : part'[i] = part[i]
  BY <1>1, <1>2, <1>3 DEF TypeInv, DiskTypes
<1> QED BY <1>1, <1>5, <1>6, <1>7

----------------------------------------------------------------------------
(* Types, and the length of the file *)

TypeFits == TypeInv /\ FitsInv

\* The first state is typed.
LEMMA InitTypeFits ==
    ASSUME Init
    PROVE  TypeFits
<1>1. revision \in [Urls -> 1..Revisions] /\ powerLost \in BOOLEAN /\ shown \in Nat
  BY Sizes DEF Init
<1>2. part \in Seq(Bytes) /\ dest \in Seq(Bytes) /\ synced \in 0..Len(part)
  BY DEF Init
<1>3. saved \in Manifests /\ older \in Manifests /\ temp \in Manifests
  BY ValueTypes DEF Init
<1>4. pos \in 0..Size[body] /\ body \in 1..Revisions
  BY Sizes DEF Init
<1>5. url \in Urls \cup {NoUrl} /\ pc \in Outside /\ url = NoUrl
  BY DEF Init, Outside
<1>6. result \in Results
  BY DEF Init, Results
<1>7. /\ offset \in Nat /\ start \in Nat /\ mem \in Nat
      /\ dirty \in BOOLEAN /\ stop \in BOOLEAN
      /\ after \in {"Read", "Stopped", "Retryable"}
  BY DEF Init
<1>8. FitsInv
  BY DEF Init, FitsInv
<1> QED
  BY <1>1, <1>2, <1>3, <1>4, <1>5, <1>6, <1>7, <1>8
     DEF TypeFits, TypeInv, DiskTypes, RunTypes

\* The state of a run that is over.
LEMMA EndsTypes ==
    ASSUME NEW r \in Results \ {"None"}, Ends(r)
    PROVE  /\ pc' = "Idle"
           /\ RunTypes' /\ FitsInv'
<1>1. pc' = "Idle" /\ pc' \in Outside /\ url' = NoUrl /\ url' \in Urls \cup {NoUrl}
  BY DEF Ends, Outside
<1>2. body' \in 1..Revisions /\ pos' \in 0..Size[body']
  BY Sizes DEF Ends
<1>3. /\ offset' \in Nat /\ start' \in Nat /\ mem' \in Nat
      /\ dirty' \in BOOLEAN /\ stop' \in BOOLEAN
      /\ after' \in {"Read", "Stopped", "Retryable"}
  BY DEF Ends
<1>4. result' \in Results
  BY DEF Ends
<1>5. FitsInv'
  BY <1>1 DEF FitsInv
<1> QED BY <1>1, <1>2, <1>3, <1>4, <1>5 DEF RunTypes

\* A run resumes within the file it has found and nothing but itself changes
\* the file before it opens it.
LEMMA StepTypeFits ==
    ASSUME TypeFits, [Next]_vars
    PROVE  TypeFits'
<1> USE Sizes
    DEF TypeFits, TypeInv, DiskTypes, RunTypes, FitsInv, Outside, Reading, Ending, Results, Failures,
        Goes, manifest, disk, response, locals, outside
<1>1. CASE UNCHANGED vars
  BY <1>1 DEF vars
<1>2. ASSUME NEW u \in Urls, Publish(u) PROVE TypeFits'
  BY <1>2 DEF Publish
<1>3. CASE RequestStop
  BY <1>3 DEF RequestStop
<1>4. CASE PowerLoss
  <2>1. /\ UNCHANGED <<revision, synced, dest, shown>>
        /\ powerLost' = TRUE /\ older' = saved'
    BY <1>4 DEF PowerLoss
  <2>2. /\ part' \in Seq(Bytes) /\ Len(part') \in synced..Len(part)
        /\ saved' \in Manifests /\ temp' \in Manifests
    BY <1>4, PowerLossKeeps
  <2>3. DiskTypes'
    BY <2>1, <2>2
  <2>4. RunTypes' /\ FitsInv'
    <3> HIDE DEF RunTypes, FitsInv
    <3> QED BY <1>4, EndsTypes DEF PowerLoss
  <2> QED BY <2>3, <2>4
<1>5. CASE Quits
  <2>1. RunTypes' /\ FitsInv'
    <3> HIDE DEF RunTypes, FitsInv
    <3> QED BY <1>5, EndsTypes DEF Quits
  <2> QED BY <1>5, <2>1 DEF Quits
<1>6. ASSUME NEW u \in Urls, Begin(u) PROVE TypeFits'
  <2>1. ResumeOffset(u) \in 0..Len(part)
    BY DEF ResumeOffset, Least, Manifests
  <2> QED BY <1>6, <2>1 DEF Begin
<1>7. CASE DiscardPart
  BY <1>7 DEF DiscardPart
<1>8. CASE DiscardManifest
  BY <1>8, ValueTypes DEF DiscardManifest
<1>9. CASE RespondWhole
  BY <1>9 DEF RespondWhole, Respond, Start
<1>10. CASE RespondRest
  BY <1>10 DEF RespondRest, Respond, Start, Asked, Resumes
<1>11. CASE RespondOutOfRange
  BY <1>11 DEF RespondOutOfRange
<1>12. CASE Open
  <2>1. part' \in Seq(Bytes) /\ Len(part') = start
    BY <1>12, CutKeeps DEF Open
  <2>2. DiskTypes'
    BY <1>12, <2>1 DEF Open, Least
  <2> QED BY <1>12, <2>2 DEF Open
<1>13. ASSUME NEW k \in 1..Chunk, Read(k) PROVE TypeFits'
  <2>1. part' \in Seq(Bytes) /\ Len(part') = Len(part) + k
    BY <1>13, WriteAppends DEF Read
  <2>2. DiskTypes'
    BY <1>13, <2>1 DEF Read, Add
  <2>3. pos + k \in 0..Size[body]
    BY <1>13 DEF Read, Write
  <2> QED BY <1>13, <2>1, <2>2, <2>3 DEF Read
<1>14. ASSUME NEW k \in 0..Chunk, WriteFails(k) PROVE TypeFits'
  <2>1. part' \in Seq(Bytes) /\ Len(part') = Len(part) + k
    BY <1>14, WriteAppends DEF WriteFails
  <2>2. DiskTypes'
    BY <1>14, <2>1 DEF WriteFails
  <2>3. RunTypes' /\ FitsInv'
    <3> HIDE DEF RunTypes, FitsInv
    <3> QED BY <1>14, EndsTypes DEF WriteFails
  <2> QED BY <2>2, <2>3
<1>15. ASSUME NEW r \in {"Stopped", "Retryable"}, LastCheckpoint(r) PROVE TypeFits'
  BY <1>15 DEF LastCheckpoint
<1>16. CASE Sync
  BY <1>16 DEF Sync, SyncData
<1>16a. CASE WriteTemp
  <2>1. temp' \in Manifests
    BY <1>16a, ValueTypes DEF WriteTemp
  <2> QED BY <1>16a, <2>1 DEF WriteTemp
<1>17. CASE Save
  <2>1. saved' \in Manifests /\ temp' \in Manifests
    BY <1>17, ValueTypes DEF Save
  <2>2. CASE after = "Read"
    <3>1. DiskTypes'
      BY <1>17, <2>1, <2>2 DEF Save, Add
    <3> QED BY <1>17, <2>2, <3>1 DEF Save
  <2>3. CASE after # "Read"
    <3>1. after \in Results \ {"None"} /\ Ends(after)
      BY <1>17, <2>3 DEF Save
    <3>2. RunTypes' /\ FitsInv'
      <4> HIDE DEF RunTypes, FitsInv, Results
      <4> QED BY <3>1, EndsTypes
    <3> QED BY <1>17, <2>1, <2>3, <3>2 DEF Save
  <2> QED BY <2>2, <2>3
<1>18. CASE ReadEnds
  BY <1>18 DEF ReadEnds, ForceUpdate
<1>19. CASE FinSync
  BY <1>19 DEF FinSync
<1>20. CASE Rename
  BY <1>20 DEF Rename
<1>21. CASE Unlink
  BY <1>21, ValueTypes, EndsTypes DEF Unlink
<1> QED
  BY <1>1, <1>2, <1>3, <1>4, <1>5, <1>6, <1>7, <1>8, <1>9, <1>10, <1>11, <1>12, <1>13,
     <1>14, <1>15, <1>16, <1>17, <1>18, <1>19, <1>20, <1>21, <1>16a, Steps

\* So the types and the lengths hold in every state.
LEMMA TypeFitsInvariant == Spec => []TypeFits
<1>1. Init => TypeFits
  BY InitTypeFits
<1>2. TypeFits /\ [Next]_vars => TypeFits'
  BY StepTypeFits
<1> QED BY <1>1, <1>2, PTL DEF Spec

\* Type correctness, for any files and any bounds.
THEOREM TypeCorrect == Spec => []TypeOK
<1>1. TypeFits => TypeOK
  <2> SUFFICES ASSUME TypeFits PROVE TypeOK
    OBVIOUS
  <2>1. DiskTypes /\ RunTypes
    BY DEF TypeFits, TypeInv
  <2>2. ASSUME NEW i \in 1..Len(part) PROVE part[i].url \in Urls \cup {NoUrl}
    <3>1. part[i] \in Bytes
      BY <2>1 DEF DiskTypes
    <3> QED BY <3>1 DEF Bytes
  <2>3. /\ saved.url \in Urls \cup {NoUrl} /\ older.url \in Urls \cup {NoUrl}
        /\ temp.url \in Urls \cup {NoUrl}
        /\ saved.n \in Nat /\ older.n \in Nat /\ temp.n \in Nat
    BY <2>1 DEF DiskTypes, Manifests
  <2>4. /\ pc \in {"Idle", "Discard", "Request", "Restart", "Open", "Read", "Sync",
                   "Temp", "Save", "FinSync", "Rename", "Unlink"}
        /\ url = NoUrl <=> pc \in {"Idle", "Discard"}
        /\ pc \notin {"Idle", "Discard"} => url \in Urls
    BY <2>1 DEF RunTypes, Outside, Reading, Ending
  <2>5. result \in {"None", "Crashed", "Io", "FileExists", "Retryable", "Fatal",
                    "Stopped", "Finished"}
    BY <2>1 DEF RunTypes, Results, Failures
  <2> QED BY <2>1, <2>2, <2>3, <2>4, <2>5 DEF TypeOK, DiskTypes, RunTypes
<1> QED BY <1>1, TypeFitsInvariant, PTL

\* The worker never opens the file at an offset beyond its end, whatever a
\* crash took from it that the manifest still claims (file.rs open).
THEOREM FileNeverExtended == Spec => []NeverExtends
<1>1. TypeFits => NeverExtends
  BY DEF TypeFits, FitsInv, NeverExtends
<1> QED BY <1>1, TypeFitsInvariant, PTL

----------------------------------------------------------------------------
(* Progress *)

\* The last broadcast is behind the file by less than a sample when the loop
\* waits, and never ahead of it; it is of the whole file from the end of the
\* body on.
ProgressInv ==
    /\ pc \in Reading => shown <= Len(part)
    /\ pc = "Unlink" => shown = Len(dest)
    /\ pc \notin Outside => result = "None"
    /\ ProgressTrue

\* Adding n bytes to a progress that is not ahead of them.
LEMMA AddKeepsUp ==
    ASSUME NEW n \in Nat, shown \in Nat, shown <= n, Add(n)
    PROVE  n - shown' \in 0..Sample - 1 /\ shown' <= n
<1>1. CASE n - shown >= Sample
  BY <1>1, Sizes DEF Add
<1>2. CASE ~(n - shown >= Sample)
  <2>1. n - shown \in 0..Sample - 1
    BY <1>2, Sizes
  <2>2. shown' = shown \/ shown' = n
    BY <1>2 DEF Add
  <2> QED BY <2>1, <2>2, Sizes
<1> QED BY <1>1, <1>2

\* The progress stays true: each way into the read loop and out of it either
\* counts the bytes or leaves both sides alone.
LEMMA StepProgress ==
    ASSUME TypeFits, ProgressInv, [Next]_vars
    PROVE  ProgressInv'
<1> USE DEF TypeFits, TypeInv, DiskTypes, ProgressInv, ProgressTrue, Outside,
        Reading, Ending, Failures, Goes, Ends, manifest, disk, response, locals, outside
<1>0. /\ part \in Seq(Bytes) /\ dest \in Seq(Bytes) /\ shown \in Nat
      /\ Len(part) \in Nat /\ Len(dest) \in Nat
  OBVIOUS
<1>1. CASE UNCHANGED vars
  BY <1>1 DEF vars
<1>2. ASSUME NEW u \in Urls, Publish(u) PROVE ProgressInv'
  BY <1>2 DEF Publish
<1>3. CASE RequestStop
  BY <1>3 DEF RequestStop
<1>4. CASE PowerLoss
  BY <1>4 DEF PowerLoss
<1>5. CASE Quits
  BY <1>5 DEF Quits
<1>6. ASSUME NEW u \in Urls, Begin(u) PROVE ProgressInv'
  BY <1>6 DEF Begin
<1>7. CASE DiscardPart
  BY <1>7 DEF DiscardPart
<1>8. CASE DiscardManifest
  BY <1>8 DEF DiscardManifest
<1>9. CASE RespondWhole
  BY <1>9 DEF RespondWhole, Respond
<1>10. CASE RespondRest
  BY <1>10 DEF RespondRest, Respond
<1>11. CASE RespondOutOfRange
  BY <1>11 DEF RespondOutOfRange
<1>12. CASE Open
  <2>1. Len(part') = start /\ shown' = start /\ start \in Nat
    BY <1>12, CutKeeps DEF Open, FitsInv, RunTypes
  <2> QED BY <1>12, <2>1, Sizes DEF Open
<1>13. ASSUME NEW k \in 1..Chunk, Read(k) PROVE ProgressInv'
  <2>1. part' \in Seq(Bytes) /\ Len(part') = Len(part) + k /\ k \in Nat
    BY <1>13, WriteAppends, Sizes DEF Read
  <2>2. pc = "Read" /\ shown <= Len(part')
    BY <1>0, <1>13, <2>1 DEF Read, Write
  <2>3. CASE CheckpointDue(Len(part'))
    BY <1>13, <2>2, <2>3 DEF Read
  <2>4. CASE ~CheckpointDue(Len(part'))
    <3>1. Len(part') - shown' \in 0..Sample - 1 /\ shown' <= Len(part')
      BY <1>0, <1>13, <2>1, <2>2, <2>4, AddKeepsUp DEF Read
    <3> QED BY <1>13, <2>4, <3>1 DEF Read
  <2> QED BY <2>3, <2>4
<1>14. ASSUME NEW k \in 0..Chunk, WriteFails(k) PROVE ProgressInv'
  BY <1>14 DEF WriteFails
<1>15. ASSUME NEW r \in {"Stopped", "Retryable"}, LastCheckpoint(r) PROVE ProgressInv'
  BY <1>15 DEF LastCheckpoint
<1>16. CASE Sync
  BY <1>16 DEF Sync
<1>16a. CASE WriteTemp
  BY <1>16a DEF WriteTemp
<1>17. CASE Save
  <2>1. CASE after = "Read"
    <3>1. shown <= Len(part)
      BY <1>17 DEF Save
    <3>2. Len(part) - shown' \in 0..Sample - 1 /\ shown' <= Len(part)
      BY <1>0, <1>17, <2>1, <3>1, AddKeepsUp DEF Save
    <3> QED BY <1>17, <2>1, <3>2 DEF Save
  <2>2. CASE after # "Read"
    BY <1>17, <2>2 DEF Save, RunTypes
  <2> QED BY <2>1, <2>2
<1>18. CASE ReadEnds
  BY <1>0, <1>18 DEF ReadEnds, ForceUpdate
<1>19. CASE FinSync
  BY <1>19 DEF FinSync
<1>20. CASE Rename
  BY <1>20 DEF Rename
<1>21. CASE Unlink
  BY <1>21 DEF Unlink
<1> QED
  BY <1>1, <1>2, <1>3, <1>4, <1>5, <1>6, <1>7, <1>8, <1>9, <1>10, <1>11, <1>12, <1>13,
     <1>14, <1>15, <1>16, <1>17, <1>18, <1>19, <1>20, <1>21, <1>16a, Steps

\* The progress a client reads is less than a sample behind the file while the
\* run waits for bytes, never ahead of it, and the length of the finished file
\* (events.rs add, force_update), for any sample, chunk and checkpoint sizes.
THEOREM ProgressIsTrue == Spec => []ProgressTrue
<1>1. Init => ProgressInv
  BY DEF Init, ProgressInv, ProgressTrue, Reading, Outside
<1>2. TypeFits /\ ProgressInv /\ [Next]_vars => ProgressInv'
  BY StepProgress
<1>3. ProgressInv => ProgressTrue
  BY DEF ProgressInv
<1> QED BY <1>1, <1>2, <1>3, TypeFitsInvariant, PTL DEF Spec

----------------------------------------------------------------------------
(* What a crash costs, and what a checkpoint claims *)

\* The manifest on the disk claims n bytes of this response.
ThisManifest(n) ==
    /\ saved.url = url
    /\ saved.tag = Tag[body]
    /\ saved.n >= n

\* What a run knows of the manifest from the moment it has decided to resume:
\* it was the run's own guide, and the response is what it was written for.
GuideInv ==
    /\ pc = "Request" /\ offset > 0 =>
          /\ saved.url = url /\ saved.tag # NoTag /\ saved.n >= offset
    /\ pc = "Open" =>
          /\ pos = start
          /\ start > 0 => ThisManifest(start) /\ saved.tag # NoTag

\* From `start` on the file is the response, as far as it has been read.
ReceivedInv ==
    pc \in Reading \cup Ending =>
        /\ start <= Len(part) /\ pos = Len(part)
        /\ \A i \in start + 1..Len(part) : part[i] = Byte(url, body, i)

\* The manifest in memory claims what the one on the disk does, but for the
\* bytes of the checkpoint under way.
AheadInv ==
    /\ pc = "Read" =>
          /\ mem <= Len(part) /\ Len(part) - mem < Checkpoint
          /\ mem > 0 => ThisManifest(mem)
    /\ pc \in {"Temp", "Save"} => mem = Len(part) /\ synced = Len(part)
    /\ pc = "Save" => temp = Manifest(url, Tag[body], mem)
    /\ pc \in Ending => Len(part) = Size[body]

LossInv == GuideInv /\ ReceivedInv /\ AheadInv

\* A step that leaves the read loop or stays out of it.
LEMMA ElsewhereLoss ==
    ASSUME pc' \notin Reading \cup Ending \cup {"Request", "Open"}
    PROVE  LossInv'
  BY DEF LossInv, GuideInv, ReceivedInv, AheadInv, Reading, Ending

\* With no Range header of the user's own, each step keeps what a run knows of
\* the manifest and of the bytes it has received.
LEMMA StepLoss ==
    ASSUME First = 0, TypeFits, LossInv, [Next]_vars
    PROVE  LossInv'
<1> USE DEF LossInv, GuideInv, ReceivedInv, AheadInv, ThisManifest, Reading, Ending,
        Goes, manifest, disk, response, locals, outside
<1>0. /\ DiskTypes /\ RunTypes /\ FitsInv /\ TypeInv
      /\ part \in Seq(Bytes) /\ Len(part) \in Nat
      /\ saved.n \in Nat
      /\ offset \in Nat /\ start \in Nat /\ mem \in Nat /\ pos \in Nat
  BY Sizes DEF TypeFits, TypeInv, DiskTypes, RunTypes, Manifests
<1>1. CASE UNCHANGED vars
  BY <1>1 DEF vars
<1>2. ASSUME NEW u \in Urls, Publish(u) PROVE LossInv'
  BY <1>2 DEF Publish
<1>3. CASE RequestStop
  BY <1>3 DEF RequestStop
<1>4. CASE PowerLoss \/ Quits
  <2>1. pc' = "Idle"
    BY <1>4 DEF PowerLoss, Quits, Ends
  <2> QED BY <2>1, ElsewhereLoss
<1>5. ASSUME NEW u \in Urls, Begin(u) PROVE LossInv'
  BY <1>0, <1>5 DEF Begin, ResumeOffset, Resumable, Least
<1>6. CASE DiscardPart \/ DiscardManifest
  BY <1>6, ElsewhereLoss DEF DiscardPart, DiscardManifest
<1>7. CASE RespondWhole
  BY <1>7 DEF RespondWhole, Respond, Start
<1>8. CASE RespondRest
  <2>1. Asked > 0 /\ First = 0
    BY <1>8 DEF RespondRest
  <2>2. Resumes /\ Asked = offset
    BY <2>1 DEF Asked
  <2> QED BY <1>0, <1>8, <2>2 DEF RespondRest, Respond, Start, Resumes
<1>9. CASE RespondOutOfRange
  BY <1>9, ElsewhereLoss DEF RespondOutOfRange
<1>10. CASE Open
  <2>1. Len(part') = start
    BY <1>0, <1>10, CutKeeps DEF Open, FitsInv
  <2> QED BY <1>0, <1>10, <2>1, Sizes DEF Open
<1>11. ASSUME NEW k \in 1..Chunk, Read(k) PROVE LossInv'
  <2>a. k \in Nat /\ k \in 0..Chunk
    BY Sizes
  <2>b. Write(k) /\ pc = "Read"
    BY <1>11 DEF Read, Write
  <2>c. /\ pos' = pos + k /\ UNCHANGED <<synced, manifest, url, body, start, mem>>
        /\ IF CheckpointDue(Len(part')) THEN pc' = "Sync" ELSE pc' = "Read"
    BY <1>11 DEF Read
  <2>1. /\ k \in Nat /\ k \in 0..Chunk /\ Write(k) /\ pc = "Read" /\ pos = Len(part)
        /\ pos' = pos + k /\ UNCHANGED <<synced, manifest, url, body, start, mem>>
        /\ IF CheckpointDue(Len(part')) THEN pc' = "Sync" ELSE pc' = "Read"
    BY <2>a, <2>b, <2>c
  <2>2. /\ Len(part') = Len(part) + k
        /\ \A i \in 1..Len(part) : part'[i] = part[i]
        /\ \A i \in Len(part) + 1..Len(part) + k :
              part'[i] = Byte(url, body, pos + i - Len(part))
    BY <1>0, <2>1, WriteAppends
  <2>3. \A i \in start + 1..Len(part') : part'[i] = Byte(url, body, i)
    <3> SUFFICES ASSUME NEW i \in start + 1..Len(part') PROVE part'[i] = Byte(url, body, i)
      OBVIOUS
    <3>1. CASE i <= Len(part)
      BY <1>0, <2>1, <2>2, <3>1
    <3>2. CASE i > Len(part)
      BY <1>0, <2>1, <2>2, <3>2
    <3> QED BY <1>0, <3>1, <3>2
  <2>4. ReceivedInv'
    BY <1>0, <2>1, <2>2, <2>3
  <2>5. GuideInv'
    BY <2>1
  <2>6. AheadInv'
    BY <1>0, <2>1, <2>2, Sizes DEF CheckpointDue
  <2> QED BY <2>4, <2>5, <2>6
<1>12. ASSUME NEW k \in 0..Chunk, WriteFails(k) PROVE LossInv'
  <2>1. pc' = "Idle"
    BY <1>12 DEF WriteFails, Ends
  <2> QED BY <2>1, ElsewhereLoss
<1>13. ASSUME NEW r \in {"Stopped", "Retryable"}, LastCheckpoint(r) PROVE LossInv'
  BY <1>13 DEF LastCheckpoint
<1>14. CASE Sync
  BY <1>14 DEF Sync, SyncData
<1>14a. CASE WriteTemp
  BY <1>14a DEF WriteTemp
<1>15. CASE Save
  <2>1. CASE after = "Read"
    <3>1. /\ saved' = Manifest(url, Tag[body], mem)
          /\ pc = "Save" /\ pc' = "Read"
          /\ UNCHANGED <<part, url, offset, body, pos, start, mem>>
      BY <1>15, <2>1 DEF Save
    <3> QED BY <1>0, <3>1, Sizes DEF Manifest
  <2>2. CASE after # "Read"
    <3>1. pc' = "Idle"
      BY <1>15, <2>2 DEF Save, Ends
    <3> QED BY <3>1, ElsewhereLoss
  <2> QED BY <2>1, <2>2
<1>16. CASE ReadEnds
  BY <1>16 DEF ReadEnds
<1>17. CASE FinSync
  BY <1>17 DEF FinSync
<1>18. CASE Rename
  BY <1>18, ElsewhereLoss DEF Rename
<1>19. CASE Unlink
  <2>1. pc' = "Idle"
    BY <1>19 DEF Unlink, Ends
  <2> QED BY <2>1, ElsewhereLoss
<1> QED
  BY <1>1, <1>2, <1>3, <1>4, <1>5, <1>6, <1>7, <1>8, <1>9, <1>10, <1>11, <1>12, <1>13,
     <1>14, <1>15, <1>16, <1>17, <1>18, <1>19, <1>14a, Steps, <1>0

\* Without a Range header of the user's own, LossInv always holds.
LEMMA LossInvariant ==
    ASSUME First = 0
    PROVE  Spec => []LossInv
<1>1. Init => LossInv
  BY ElsewhereLoss DEF Init, LossInv, GuideInv, ReceivedInv, AheadInv, Reading, Ending
<1>2. TypeFits /\ LossInv /\ [Next]_vars => LossInv'
  BY StepLoss
<1> QED BY <1>1, <1>2, TypeFitsInvariant, PTL DEF Spec

\* While a run waits for bytes, a crash costs less than a checkpoint interval
\* of what it has received (file.rs CHECKPOINT_BYTES), for every interval,
\* chunk size and history of runs, if the user sets no Range header of their
\* own.
THEOREM LossIsBounded ==
    ASSUME First = 0
    PROVE  Spec => []BoundedLoss
<1>1. TypeFits /\ LossInv => BoundedLoss
  <2> SUFFICES ASSUME TypeFits, LossInv, pc = "Read", Tag[body] # NoTag
               PROVE  Len(part) - (IF Resumable(url) /\ saved.tag = Tag[body] THEN Kept ELSE 0)
                         < Checkpoint
    BY DEF BoundedLoss
  <2>1. /\ Len(part) \in Nat /\ mem \in Nat /\ saved.n \in Nat
        /\ mem <= Len(part) /\ Len(part) - mem < Checkpoint
        /\ mem > 0 => ThisManifest(mem)
    BY DEF TypeFits, TypeInv, DiskTypes, RunTypes, Manifests, LossInv, AheadInv
  <2>2. CASE mem = 0
    BY <2>1, <2>2, Sizes DEF Kept, Least
  <2>3. CASE mem > 0
    BY <2>1, <2>3, Sizes DEF ThisManifest, Resumable, Kept, Least
  <2> QED BY <2>1, <2>2, <2>3
<1>2. Spec => []LossInv
  BY LossInvariant
<1> QED BY <1>1, <1>2, TypeFitsInvariant, PTL

\* The manifest that a checkpoint renames into place is of this response and
\* claims only bytes that a power loss can no longer take; those that its run
\* received are where the server has them (file.rs checkpoint, manifest.rs save).
THEOREM CheckpointsAreDurable ==
    ASSUME First = 0
    PROVE  Spec => CheckpointDurable
<1>1. ASSUME TypeFits, LossInv, Save
      PROVE  /\ saved'.url = url /\ saved'.tag = Tag[body]
             /\ saved'.n <= synced
             /\ \A i \in start + 1..saved'.n : part[i] = Byte(url, body, i)
  <2>1. pc = "Save" /\ saved' = Manifest(url, Tag[body], mem)
    BY <1>1 DEF Save, LossInv, AheadInv
  <2>2. /\ Len(part) \in Nat /\ mem = Len(part) /\ synced = Len(part)
        /\ \A i \in start + 1..Len(part) : part[i] = Byte(url, body, i)
    BY <1>1, <2>1 DEF TypeFits, TypeInv, DiskTypes, LossInv, AheadInv, ReceivedInv, Reading
  <2>3. saved'.url = url /\ saved'.tag = Tag[body] /\ saved'.n = mem
    BY <2>1 DEF Manifest
  <2> QED BY <2>2, <2>3
<1>2. Spec => []LossInv
  BY LossInvariant
<1> QED BY <1>1, <1>2, TypeFitsInvariant, PTL DEF CheckpointDurable, Spec

----------------------------------------------------------------------------
(* One content *)

\* The validator of the manifest, if it lets a run resume, is that of a
\* revision up to r.
Known(r) ==
    saved.n > 0 /\ saved.tag # NoTag => \E s \in 1..r : Tag[s] = saved.tag

\* The validator was published, and not after the response under way.
KnownInv ==
    /\ \A u \in Urls : Known(revision[u])
    /\ pc \in {"Open"} \cup Reading \cup Ending => body <= revision[url] /\ Known(body)

\* What the run keeps of the file and all it has written are the response's.
ContentInv ==
    /\ pc = "Open" => \A i \in 1..start : part[i] = Byte(url, body, i)
    /\ pc \in Reading \cup Ending => \A i \in 1..Len(part) : part[i] = Byte(url, body, i)

SafeInv == ~powerLost => KnownInv /\ ContentInv /\ ResumeSafe /\ DestWhole

\* If the manifest, written for a revision up to r, has the validator of the
\* one served now, then that is r: revisions share no validator.
LEMMA KnownIsServed ==
    ASSUME TypeInv, NEW u \in Urls, NEW r \in 1..revision[u],
           saved.n > 0, saved.tag # NoTag, Known(r), saved.tag = Tag[revision[u]]
    PROVE  r = revision[u]
<1>1. revision[u] \in 1..Revisions /\ Revisions \in Nat
  BY Sizes DEF TypeInv, DiskTypes
<1>2. PICK s \in 1..r : Tag[s] = Tag[revision[u]]
  BY DEF Known
<1>3. s \in 1..Revisions /\ s <= revision[u]
  BY <1>1, <1>2
<1>4. s = revision[u]
  BY <1>1, <1>2, <1>3, TransferAssumption
<1> QED BY <1>1, <1>4

\* A file that is the run's response all along is safe to resume.
LEMMA ResponseIsSafe ==
    ASSUME TypeInv, \A u, v \in Urls : u = v, url \in Urls, Known(body), body <= revision[url],
           part' \in Seq(Bytes), \A i \in 1..Len(part') : part'[i] = Byte(url, body, i),
           saved' = saved, revision' = revision
    PROVE  ResumeSafe'
<1> SUFFICES ASSUME NEW u \in Urls, saved.n > 0, saved.tag # NoTag,
                    saved.tag = Tag[revision[u]],
                    NEW i \in 1..Least(saved.n, Len(part'))
             PROVE  part'[i] = Byte(u, revision[u], i)
  BY DEF ResumeSafe, Resumable, Kept
<1>1. u = url
  OBVIOUS
<1>2. body \in 1..revision[u]
  BY <1>1 DEF TypeInv, DiskTypes, RunTypes
<1>3. body = revision[u]
  BY <1>2, KnownIsServed
<1>4. i \in 1..Len(part')
  BY DEF Least, TypeInv, DiskTypes, Manifests
<1> QED BY <1>1, <1>3, <1>4

\* A step that leaves the file, the manifest, the destination and the server
\* alone.
LEMMA DiskAloneIsSafe ==
    ASSUME ResumeSafe, DestWhole, UNCHANGED <<part, saved, dest, revision, powerLost>>
    PROVE  ResumeSafe' /\ DestWhole'
  BY DEF ResumeSafe, DestWhole, Resumable, Kept

\* With one URL for the path and no Range header of the user's own, every step
\* keeps the file the prefix of one revision, and the manifest within it.
LEMMA StepSafe ==
    ASSUME First = 0, \A u, v \in Urls : u = v,
           TypeFits, LossInv, SafeInv, [Next]_vars
    PROVE  SafeInv'
<1> SUFFICES ASSUME ~powerLost' PROVE (KnownInv /\ ContentInv /\ ResumeSafe /\ DestWhole)'
  BY DEF SafeInv
<1>0. /\ TypeInv /\ DiskTypes /\ RunTypes /\ FitsInv /\ GuideInv /\ ReceivedInv /\ AheadInv
      /\ part \in Seq(Bytes) /\ Len(part) \in Nat /\ saved \in Manifests /\ saved.n \in Nat
      /\ offset \in Nat /\ start \in Nat /\ mem \in Nat /\ pos \in Nat /\ body \in 1..Revisions
      /\ \A u \in Urls : revision[u] \in 1..Revisions
      /\ pc \notin Outside => url \in Urls
  BY Sizes DEF TypeFits, TypeInv, DiskTypes, RunTypes, Manifests, LossInv
<1>1. ~powerLost
  BY Steps, <1>0 DEF vars, disk, Publish, RequestStop, PowerLoss, Quits, Begin, DiscardPart,
     DiscardManifest, RespondWhole, RespondRest, Respond, RespondOutOfRange, Open,
     Read, WriteFails, LastCheckpoint, Sync, WriteTemp, Save, ReadEnds, FinSync, Rename,
     Unlink, Goes, Ends, outside
<1>2. KnownInv /\ ContentInv /\ ResumeSafe /\ DestWhole
  BY <1>1 DEF SafeInv
<1> USE DEF Reading, Ending, Goes, manifest, disk, response, locals, outside

<1>3. CASE UNCHANGED vars
  BY <1>2, <1>3, DiskAloneIsSafe DEF vars, KnownInv, ContentInv, Known
<1>4. ASSUME NEW u \in Urls, Publish(u) PROVE (KnownInv /\ ContentInv /\ ResumeSafe /\ DestWhole)'
  <2>1. /\ UNCHANGED <<part, saved, dest, pc, url, body, start>>
        /\ revision' = [revision EXCEPT ![u] = @ + 1]
        /\ revision[u] \in 1..Revisions /\ revision[u] + 1 \in 1..Revisions
        /\ revision \in [Urls -> 1..Revisions]
    BY <1>0, <1>4, Sizes DEF Publish, DiskTypes
  <2>2. \A v \in Urls : v = u /\ revision'[v] = revision[u] + 1
    BY <2>1
  <2>3. KnownInv'
    <3>1. Known(revision[u]) /\ Known(revision[u])'
      BY <1>2, <2>1 DEF KnownInv, Known
    <3>2. \A v \in Urls : Known(revision[v])'
      BY <2>1, <2>2, <3>1 DEF Known
    <3>3. pc \in {"Open"} \cup Reading \cup Ending
            => body <= revision'[url] /\ (Known(body))'
      BY <1>0, <1>2, <2>1, <2>2 DEF KnownInv, Known, Outside
    <3> QED BY <2>1, <3>2, <3>3 DEF KnownInv
  <2>4. ContentInv' /\ DestWhole'
    BY <1>2, <1>1, <2>1 DEF ContentInv, DestWhole
  <2>5. ASSUME NEW v \in Urls, Resumable(v), saved.tag = Tag[revision'[v]] PROVE FALSE
    <3>1. PICK s \in 1..revision[u] : Tag[s] = saved.tag
      BY <1>2, <2>5 DEF KnownInv, Known, Resumable
    <3>2. s \in 1..Revisions /\ s # revision[u] + 1
      BY <2>1, <3>1, Sizes
    <3> QED BY <2>1, <2>2, <2>5, <3>1, <3>2, TransferAssumption DEF Resumable
  <2>6. ResumeSafe'
    BY <2>1, <2>5 DEF ResumeSafe, Resumable
  <2> QED BY <2>3, <2>4, <2>6
<1>5. CASE RequestStop
  BY <1>2, <1>5, DiskAloneIsSafe DEF RequestStop, KnownInv, ContentInv, Known
<1>6. CASE PowerLoss
  BY <1>6 DEF PowerLoss
<1>7. CASE Quits
  <2>1. pc' = "Idle" /\ UNCHANGED <<part, saved, dest, revision, powerLost>>
    BY <1>7 DEF Quits, Ends
  <2> QED BY <1>2, <2>1, DiskAloneIsSafe DEF KnownInv, ContentInv, Known
<1>8. ASSUME NEW u \in Urls, Begin(u) PROVE (KnownInv /\ ContentInv /\ ResumeSafe /\ DestWhole)'
  BY <1>2, <1>8, DiskAloneIsSafe DEF Begin, KnownInv, ContentInv, Known
<1>9. CASE DiscardPart
  <2>1. Kept' = 0
    BY <1>0, <1>9 DEF DiscardPart, Kept, Least
  <2>2. ResumeSafe'
    BY <2>1 DEF ResumeSafe
  <2> QED BY <1>2, <1>9, <2>2 DEF DiscardPart, KnownInv, ContentInv, Known, DestWhole
<1>10. CASE DiscardManifest
  <2>1. saved' = NoManifest /\ saved'.n = 0 /\ UNCHANGED <<part, dest, revision, powerLost>>
        /\ pc' = "Idle"
    BY <1>10 DEF DiscardManifest, NoManifest, Manifest
  <2> QED BY <1>2, <2>1 DEF KnownInv, ContentInv, Known, ResumeSafe, Resumable, DestWhole
<1>11. CASE RespondWhole
  BY <1>0, <1>2, <1>11, DiskAloneIsSafe
     DEF RespondWhole, Respond, Start, KnownInv, ContentInv, Known, Outside
<1>12. CASE RespondRest
  <2>1. Resumes /\ Asked = offset /\ offset > 0
    BY <1>12 DEF RespondRest, Asked, Resumes
  <2>2. /\ saved.url = url /\ saved.tag # NoTag /\ saved.n >= offset
        /\ offset <= Len(part) /\ url \in Urls /\ saved.tag = Tag[revision[url]]
    BY <1>0, <1>12, <2>1 DEF Resumes, GuideInv, FitsInv, RespondRest, Outside
  <2>3. \A i \in 1..offset : part[i] = Byte(url, revision[url], i)
    <3>1. Resumable(url) /\ offset <= Kept /\ Kept \in Nat
      BY <1>0, <2>1, <2>2 DEF Resumable, Kept, Least
    <3> QED BY <1>0, <1>1, <1>2, <2>2, <3>1 DEF ResumeSafe
  <2> QED
    BY <1>0, <1>2, <1>12, <2>1, <2>2, <2>3, DiskAloneIsSafe
       DEF RespondRest, Respond, Start, KnownInv, ContentInv, Known
<1>13. CASE RespondOutOfRange
  BY <1>2, <1>13, DiskAloneIsSafe DEF RespondOutOfRange, KnownInv, ContentInv, Known
<1>14. CASE Open
  <2>1. /\ part' \in Seq(Bytes) /\ Len(part') = start
        /\ \A i \in 1..start : part'[i] = part[i]
        /\ pc = "Open" /\ pc' = "Read" /\ url \in Urls
        /\ UNCHANGED <<saved, dest, revision, powerLost, url, body>>
    BY <1>0, <1>14, CutKeeps DEF Open, FitsInv, Outside
  <2>2. \A i \in 1..Len(part') : part'[i] = Byte(url, body, i)
    BY <1>2, <2>1 DEF ContentInv
  <2>3. KnownInv'
    BY <1>2, <2>1 DEF KnownInv, Known
  <2>4. ResumeSafe'
    BY <1>0, <1>2, <2>1, <2>2, ResponseIsSafe DEF KnownInv
  <2> QED BY <1>2, <2>1, <2>2, <2>3, <2>4 DEF ContentInv, DestWhole

\* The bytes read come where the response has them.
<1>15. ASSUME NEW k \in 0..Chunk, Write(k), UNCHANGED <<saved, revision>>
       PROVE  /\ \A i \in 1..Len(part') : part'[i] = Byte(url, body, i)
              /\ ResumeSafe'
  <2>1. k \in Nat /\ pc = "Read" /\ pos = Len(part) /\ url \in Urls
    BY <1>0, <1>15, Sizes DEF Write, ReceivedInv, Outside
  <2>2. /\ part' \in Seq(Bytes) /\ Len(part') = Len(part) + k
        /\ \A i \in 1..Len(part) : part'[i] = part[i]
        /\ \A i \in Len(part) + 1..Len(part) + k :
              part'[i] = Byte(url, body, pos + i - Len(part))
    BY <1>0, <1>15, WriteAppends
  <2>3. ASSUME NEW i \in 1..Len(part') PROVE part'[i] = Byte(url, body, i)
    <3>1. CASE i <= Len(part)
      BY <1>0, <1>2, <2>1, <2>2, <3>1 DEF ContentInv
    <3>2. CASE i > Len(part)
      BY <1>0, <2>1, <2>2, <3>2
    <3> QED BY <1>0, <2>1, <2>2, <3>1, <3>2
  <2>4. ResumeSafe'
    BY <1>0, <1>2, <1>15, <2>1, <2>2, <2>3, ResponseIsSafe DEF KnownInv
  <2> QED BY <2>3, <2>4
<1>16. ASSUME NEW k \in 1..Chunk, Read(k) PROVE (KnownInv /\ ContentInv /\ ResumeSafe /\ DestWhole)'
  <2>1. /\ k \in 0..Chunk /\ Write(k) /\ pc = "Read" /\ pc' \in {"Read", "Sync"}
        /\ UNCHANGED <<saved, dest, revision, powerLost, url, body>>
    BY <1>16, Sizes DEF Read, Write
  <2>2. ResumeSafe' /\ \A i \in 1..Len(part') : part'[i] = Byte(url, body, i)
    BY <1>15, <2>1
  <2> QED BY <1>2, <2>1, <2>2 DEF KnownInv, Known, ContentInv, DestWhole
<1>17. ASSUME NEW k \in 0..Chunk, WriteFails(k) PROVE (KnownInv /\ ContentInv /\ ResumeSafe /\ DestWhole)'
  <2>1. /\ Write(k) /\ pc' = "Idle" /\ UNCHANGED <<saved, dest, revision, powerLost>>
    BY <1>17 DEF WriteFails, Ends
  <2>2. ResumeSafe'
    BY <1>15, <2>1
  <2> QED BY <1>2, <2>1, <2>2 DEF KnownInv, Known, ContentInv, DestWhole
<1>18. ASSUME NEW r \in {"Stopped", "Retryable"}, LastCheckpoint(r)
       PROVE  (KnownInv /\ ContentInv /\ ResumeSafe /\ DestWhole)'
  BY <1>2, <1>18, DiskAloneIsSafe DEF LastCheckpoint, KnownInv, ContentInv, Known
<1>19. CASE Sync
  BY <1>2, <1>19, DiskAloneIsSafe DEF Sync, KnownInv, ContentInv, Known
<1>19a. CASE WriteTemp
  BY <1>2, <1>19a, DiskAloneIsSafe DEF WriteTemp, KnownInv, ContentInv, Known
<1>20. CASE Save
  <2>1. /\ saved' = Manifest(url, Tag[body], mem) /\ pc = "Save" /\ url \in Urls
        /\ pc' \in {"Idle", "Read"}
        /\ pc' = "Read" => url' = url /\ body' = body
        /\ UNCHANGED <<part, dest, revision, powerLost>>
    BY <1>0, <1>20 DEF Save, Ends, Outside, AheadInv
  <2>2. saved'.tag = Tag[body]
    BY <2>1 DEF Manifest
  <2>3. body \in 1..revision[url] /\ revision[url] \in 1..Revisions
    BY <1>0, <1>2, <2>1 DEF KnownInv
  <2>4. KnownInv'
    <3>1. \A u \in Urls : (Known(revision[u]))'
      BY <2>1, <2>2, <2>3 DEF Known
    <3>2. Known(body)' \/ body' # body
      BY <2>1, <2>2, <2>3 DEF Known
    <3> QED BY <1>2, <2>1, <3>1, <3>2 DEF KnownInv
  <2>5. ContentInv' /\ DestWhole'
    BY <1>2, <2>1 DEF ContentInv, DestWhole
  <2>6. ResumeSafe'
    <3> SUFFICES ASSUME NEW u \in Urls, Tag[body] # NoTag, Tag[body] = Tag[revision[u]],
                        NEW i \in 1..Kept'
                 PROVE  part[i] = Byte(u, revision[u], i)
      BY <2>1, <2>2 DEF ResumeSafe, Resumable
    <3>1. u = url /\ body = revision[u]
      BY <1>0, <2>1, <2>3, TransferAssumption
    <3>2. i \in 1..Len(part)
      BY <1>0, <2>1 DEF Kept, Least, Manifest
    <3> QED BY <1>2, <2>1, <3>1, <3>2 DEF ContentInv
  <2> QED BY <2>4, <2>5, <2>6
<1>21. CASE ReadEnds
  BY <1>2, <1>21, DiskAloneIsSafe DEF ReadEnds, KnownInv, ContentInv, Known
<1>22. CASE FinSync
  BY <1>2, <1>22, DiskAloneIsSafe DEF FinSync, KnownInv, ContentInv, Known
<1>23. CASE Rename
  <2>1. /\ dest' = part /\ part' = <<>> /\ pc = "Rename" /\ pc' = "Unlink" /\ url \in Urls
        /\ UNCHANGED <<saved, revision, powerLost>>
    BY <1>0, <1>23 DEF Rename, Outside
  <2>2. part = Content(url, body)
    <3>1. Len(part) = Size[body] /\ \A i \in 1..Len(part) : part[i] = Byte(url, body, i)
      BY <1>0, <1>2, <2>1 DEF AheadInv, ContentInv
    <3>2. part = [i \in 1..Len(part) |-> part[i]]
      BY <1>0
    <3> QED BY <3>1, <3>2 DEF Content
  <2>3. DestWhole'
    BY <1>0, <2>1, <2>2 DEF DestWhole
  <2>4. ResumeSafe'
    <3>1. Kept' = 0
      BY <1>0, <2>1 DEF Kept, Least
    <3> QED BY <3>1 DEF ResumeSafe
  <2>5. KnownInv' /\ ContentInv'
    BY <1>2, <2>1 DEF KnownInv, Known, ContentInv
  <2> QED BY <2>3, <2>4, <2>5
<1>24. CASE Unlink
  <2>1. /\ pc' = "Idle" /\ UNCHANGED <<part, dest, revision, powerLost>>
        /\ saved' = NoManifest \/ saved' = saved
    BY <1>24 DEF Unlink, Ends
  <2>2. CASE saved' = saved
    BY <1>2, <2>1, <2>2, DiskAloneIsSafe DEF KnownInv, Known, ContentInv
  <2>3. CASE saved' = NoManifest
    <3>1. saved'.n = 0
      BY <2>3 DEF NoManifest, Manifest
    <3> QED BY <1>2, <2>1, <3>1 DEF KnownInv, ContentInv, Known, ResumeSafe, Resumable, DestWhole
  <2> QED BY <2>1, <2>2, <2>3
<1> QED
  BY <1>0, <1>3, <1>4, <1>5, <1>6, <1>7, <1>8, <1>9, <1>10, <1>11, <1>12, <1>13, <1>14, <1>16,
     <1>17, <1>18, <1>19, <1>20, <1>21, <1>22, <1>23, <1>24, <1>19a, Steps

\* Under these two conditions SafeInv always holds.
LEMMA SafeInvariant ==
    ASSUME First = 0, \A u, v \in Urls : u = v
    PROVE  Spec => []SafeInv
<1>1. Init => SafeInv
  BY DEF Init, SafeInv, KnownInv, Known, ContentInv, Reading, Ending, ResumeSafe,
         Resumable, DestWhole, NoManifest, Manifest
<1>2. TypeFits /\ LossInv /\ SafeInv /\ [Next]_vars => SafeInv'
  BY StepSafe
<1>3. Spec => []LossInv
  BY LossInvariant
<1> QED BY <1>1, <1>2, <1>3, TypeFitsInvariant, PTL DEF Spec

\* The bytes a manifest lets the next run keep are those the server would send
\* (manifest.rs is_resumable_for, worker.rs If-Range), if the path is used for
\* one URL and the user sets no Range header of their own.
THEOREM ResumesAreSafe ==
    ASSUME First = 0, \A u, v \in Urls : u = v
    PROVE  Spec => []ResumeSafe
<1>1. SafeInv => ResumeSafe
  BY DEF SafeInv, ResumeSafe
<1> QED BY <1>1, SafeInvariant, PTL

\* Under the same two conditions the file that appears at the destination is
\* one revision of the URL from its first byte to its last (worker.rs, file.rs
\* finalize), whatever stopped, failed, crashed or was published before.
THEOREM DestinationIsWhole ==
    ASSUME First = 0, \A u, v \in Urls : u = v
    PROVE  Spec => []DestWhole
<1>1. SafeInv => DestWhole
  BY DEF SafeInv, DestWhole
<1> QED BY <1>1, SafeInvariant, PTL

=============================================================================
