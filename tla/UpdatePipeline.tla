--------------------------- MODULE UpdatePipeline ---------------------------
(* The goroutines of Client.Update (pkg/client/client.go) and the server's    *)
(* end of their stream: the workers read the files of the diff, the sender    *)
(* streams them, Fs.Update merges and commits them when the stream is         *)
(* complete, and the client writes the version file or, when somebody else    *)
(* published meanwhile, rebuilds (TarPipeline) under the same context.        *)
(*                                                                            *)
(* The workers share one variable err.  updateChan holds the whole diff and   *)
(* is closed; it is the counter "picked".                                     *)
EXTENDS TarPipeline, PackMerge

CONSTANTS
  Diffs,         \* diffs: sequences of updates of different paths
  Packs,         \* packs that the project may have before
  PackedPaths,   \* the paths that are inside the pack
  ObjectRoom,    \* the size of objectChan
  ReadMayFail,   \* TRUE: ObjectFromFilePath may return an error
  Vanished       \* "hash" of an update whose file is gone when it is read

(* ObjectFromFilePath: a file that is gone since the diff is sent as deleted. *)
ObjectFromFilePath(u) == IF u.hash = Vanished THEN [path |-> u.path, hash |-> Deleted] ELSE u

(* What the diffs and the packs are made of, and what is sent.                *)
Entry ==
  LET given == UNION {{s[i] : i \in DOMAIN s} : s \in Diffs \cup Packs}
  IN  given \cup {ObjectFromFilePath(u) : u \in given}

ASSUME UpdateAssumption ==
  /\ IsFiniteSet(Workers)
  /\ Diffs \subseteq Seq(Entry) /\ Packs \subseteq Seq(Entry)
  /\ \A e \in Entry : e.path \in Nat /\ e # None
  /\ \A d \in Diffs : Len(d) > 0 /\ \A i, j \in 1 .. Len(d) : d[i].path = d[j].path => i = j
  /\ ObjectRoom \in Nat \ {0}
  /\ ReadMayFail \in BOOLEAN
  /\ Vanished # Deleted

VARIABLES
  phase,       \* "upload", "rebuild", "done" or "panicked"
  diff,        \* diff.Updates
  picked,      \* how many updates were taken from updateChan
  reader,      \* reader[w]: [pc, update, object]; object None is nil
  sharedErr,   \* the variable err that the workers share is not nil
  objectChan,  \* the channel of objects
  sender,      \* "connect", "loop", "closing" or "done"
  count,       \* the sender's count of objects
  stopped,     \* the group's context has ended
  failed,      \* errgroup keeps an error
  remote,      \* the server: "none", "open", "merge", "committed" or "failed"
  received,    \* the objects it has received
  pack,        \* the pack that the project has
  answer       \* toVersion - fromVersion; None before

tarVars == <<answers, receiver, sent, taken, tracked, worker, holds, applied,
             cancelled, err, version>>
clientVars == <<picked, reader, sharedErr, objectChan, sender, count, stopped, failed, answer>>
serverVars == <<remote, received, pack, merge>>
allVars == <<vars, phase, diff, clientVars, serverVars>>

Waiting == [pc |-> "wait", update |-> None, object |-> None]
Ended == [pc |-> "done", update |-> None, object |-> None]

(* <-ctx.Done() of the group.                                                 *)
GroupDone == gone \/ stopped

UpdateInit ==
  /\ Init
  /\ phase \in {"upload", "rebuild"}
  /\ diff \in IF phase = "upload" THEN Diffs ELSE {<<>>}
  /\ picked = 0
  /\ reader = [w \in Workers |-> Waiting]
  /\ sharedErr = FALSE
  /\ objectChan = <<>>
  /\ sender = "connect" /\ count = 0
  /\ stopped = FALSE /\ failed = FALSE
  /\ remote = "none" /\ received = {}
  /\ pack \in IF phase = "upload" THEN Packs ELSE {<<>>}
  /\ merge = NoMerge
  /\ answer = None

Reader(w, r) == reader' = [reader EXCEPT ![w] = r]

-----------------------------------------------------------------------------
(* The select of a worker on updateChan.                                      *)
PickUpdate(w) ==
  /\ reader[w].pc = "wait"
  /\ \/ /\ GroupDone
        /\ Reader(w, Ended) /\ UNCHANGED picked
     \/ /\ picked < Len(diff)
        /\ picked' = picked + 1
        /\ Reader(w, [Waiting EXCEPT !.pc = "read", !.update = diff[picked + 1]])
     \/ /\ picked = Len(diff)
        /\ Reader(w, Ended) /\ UNCHANGED picked
  /\ UNCHANGED <<sharedErr, objectChan, sender, count, stopped, failed, answer, serverVars>>

(* A removal needs no file; else object, err = ObjectFromFilePath(...).       *)
ReadFile(w) ==
  LET u == reader[w].update
  IN  /\ reader[w].pc = "read"
      /\ \/ u.hash = Deleted /\ Reader(w, [reader[w] EXCEPT !.pc = "send", !.object = u])
            /\ UNCHANGED sharedErr
         \/ /\ u.hash # Deleted
            /\ Reader(w, [reader[w] EXCEPT !.pc = "check", !.object = ObjectFromFilePath(u)])
            /\ sharedErr' = FALSE
         \/ u.hash # Deleted /\ ReadMayFail /\ Reader(w, [reader[w] EXCEPT !.pc = "check"])
            /\ sharedErr' = TRUE
      /\ UNCHANGED <<picked, objectChan, sender, count, stopped, failed, answer, serverVars>>

(* if err != nil: whoever assigned err last decides.                          *)
CheckErr(w) ==
  /\ reader[w].pc = "check"
  /\ IF sharedErr
     THEN /\ stopped' = TRUE /\ failed' = TRUE
          /\ Reader(w, Ended)
     ELSE /\ Reader(w, [reader[w] EXCEPT !.pc = "send"])
          /\ UNCHANGED <<stopped, failed>>
  /\ UNCHANGED <<picked, sharedErr, objectChan, sender, count, answer, serverVars>>

(* Mutant of SendObject: the worker waits for room whatever happens.          *)
SendObjectBlocks(w) ==
  /\ reader[w].pc = "send"
  /\ Len(objectChan) < ObjectRoom
  /\ objectChan' = Append(objectChan, reader[w].object)
  /\ Reader(w, Waiting)
  /\ UNCHANGED <<picked, sharedErr, sender, count, stopped, failed, answer, serverVars>>

(* The select of a worker on objectChan.                                      *)
SendObject(w) ==
  /\ reader[w].pc = "send"
  /\ \/ GroupDone /\ Reader(w, Ended) /\ UNCHANGED objectChan
     \/ /\ Len(objectChan) < ObjectRoom
        /\ objectChan' = Append(objectChan, reader[w].object)
        /\ Reader(w, Waiting)
  /\ UNCHANGED <<picked, sharedErr, sender, count, stopped, failed, answer, serverVars>>

-----------------------------------------------------------------------------
(* Mutant of SenderFails: the sender stops the group and returns nil.         *)
SenderStops == sender' = "done" /\ stopped' = TRUE /\ UNCHANGED failed

SenderFails == sender' = "done" /\ stopped' = TRUE /\ failed' = TRUE

(* c.fs.Update                                                                *)
Connect ==
  /\ sender = "connect"
  /\ \/ /\ sender' = "loop" /\ remote' = "open"
        /\ UNCHANGED <<stopped, failed>>
     \/ (RecvMayFail \/ GroupDone) /\ SenderFails /\ UNCHANGED remote
  /\ UNCHANGED <<picked, reader, sharedErr, objectChan, count, answer, received, pack, merge>>

(* Mutant of SenderLoop: the channel is taken as closed one object early.     *)
SenderLoopEarly ==
  /\ sender = "loop"
  /\ \/ /\ GroupDone /\ sender' = "done"
        /\ UNCHANGED <<objectChan, count, stopped, failed, remote, received>>
     \/ /\ count >= Len(diff) - 1 /\ objectChan = <<>>
        /\ sender' = "closing"
        /\ UNCHANGED <<objectChan, count, stopped, failed, remote, received>>
     \/ /\ objectChan # <<>>
        /\ objectChan' = Tail(objectChan) /\ count' = count + 1
        /\ received' = received \cup {Head(objectChan)}
        /\ UNCHANGED <<sender, stopped, failed, remote>>
  /\ UNCHANGED <<picked, reader, sharedErr, answer, pack, merge>>

(* The select of the sender; objectChan is closed after the last object.  A   *)
(* nil object panics in Fs.Update, which ends the call with an error; Send    *)
(* fails when the stream has ended, or does not notice yet.                   *)
SendFails == RecvMayFail \/ remote = "failed" \/ GroupDone

SenderLoop ==
  /\ sender = "loop"
  /\ \/ /\ GroupDone /\ sender' = "done"
        /\ UNCHANGED <<objectChan, count, stopped, failed, remote, received>>
     \/ /\ count = Len(diff) /\ objectChan = <<>>
        /\ sender' = "closing"
        /\ UNCHANGED <<objectChan, count, stopped, failed, remote, received>>
     \/ /\ objectChan # <<>>
        /\ objectChan' = Tail(objectChan) /\ count' = count + 1
        /\ \/ /\ remote = "open"
              /\ IF Head(objectChan) = None
                 THEN remote' = "failed" /\ UNCHANGED received
                 ELSE received' = received \cup {Head(objectChan)} /\ UNCHANGED remote
              /\ UNCHANGED <<sender, stopped, failed>>
           \/ remote = "failed" /\ UNCHANGED <<sender, stopped, failed, remote, received>>
           \/ SendFails /\ Head(objectChan) # None /\ SenderFails
              /\ UNCHANGED <<remote, received>>
  /\ UNCHANGED <<picked, reader, sharedErr, answer, pack, merge>>

(* The path is inside a directory that matches one of the project's patterns. *)
IsPathPacked(path) == path \in PackedPaths

(* stream.CloseAndRecv: the end of the stream, and later the answer.          *)
CloseSend ==
  /\ sender = "closing" /\ remote = "open"
  /\ remote' = "merge"
  /\ merge' = updateObjects(pack, {u \in received : IsPathPacked(u.path)})
  /\ UNCHANGED <<clientVars, received, pack>>

(* The version in the answer was set by the server when it committed.         *)
RecvAnswer ==
  /\ sender = "closing"
  /\ \/ /\ remote = "committed"
        /\ sender' = "done" /\ UNCHANGED <<stopped, failed, answer>>
     \/ /\ remote = "failed" \/ GroupDone \/ RecvMayFail
        /\ SenderFails /\ answer' = None
  /\ UNCHANGED <<picked, reader, sharedErr, objectChan, count, serverVars>>

-----------------------------------------------------------------------------
(* Fs.Update after the end of the stream.                                     *)
UpdatePackedObjects == remote = "merge" /\ MergeStep /\ UNCHANGED <<clientVars, remote, received, pack>>

(* The answer, as a distance from the version the client was at: others may   *)
(* have published in between, and an update that changed nothing answers the  *)
(* latest version.  A plain file may be as it was, a deletion is a change.    *)
CommitUpdate(distance) ==
  LET inPack == {u \in received : IsPathPacked(u.path)}
  IN  /\ remote = "merge" /\ merge.result \in {"pack", "empty"}
      /\ distance = 0 => /\ \A u \in received \ inPack : u.hash # Deleted
                         /\ inPack = {} \/ ~PackChanged(pack, merge.out)
      /\ remote' = "committed"
      /\ pack' = IF inPack = {} THEN pack ELSE merge.out
      /\ answer' = distance
      /\ UNCHANGED <<picked, reader, sharedErr, objectChan, sender, count, stopped, failed, received, merge>>

(* The stream was cancelled or broke, or the database failed: the transaction *)
(* is rolled back.                                                            *)
Rollback ==
  /\ remote \in {"open", "merge"}
  /\ RecvMayFail \/ GroupDone
  /\ remote' = "failed"
  /\ UNCHANGED <<clientVars, received, pack, merge>>

-----------------------------------------------------------------------------
(* The goroutines' state is gone.                                             *)
GoroutinesEnd ==
  /\ picked' = 0 /\ count' = 0
  /\ reader' = [w \in Workers |-> Ended]
  /\ sharedErr' = FALSE /\ objectChan' = <<>>

(* The error of a Send that fails is made with the path of the object: when   *)
(* the object is nil, the goroutine panics, and the process ends.             *)
SenderPanics ==
  /\ sender = "loop" /\ objectChan # <<>> /\ Head(objectChan) = None
  /\ SendFails
  /\ phase' = "panicked"
  /\ sender' = "done" /\ failed' = TRUE
  /\ GoroutinesEnd
  /\ UNCHANGED <<stopped, answer, serverVars>>

(* group.Wait.  The version file is written, the directory is rebuilt under   *)
(* the caller's context, or the error is returned.                            *)
UploadEnds ==
  /\ sender = "done" /\ \A w \in Workers : reader[w].pc = "done"
  /\ phase' = IF failed \/ answer = 1 THEN "done" ELSE "rebuild"
  /\ GoroutinesEnd
  /\ UNCHANGED <<sender, stopped, failed, answer, serverVars>>

RebuildEnds ==
  /\ phase = "rebuild" /\ ~Running
  /\ phase' = "done"
  /\ UNCHANGED <<vars, diff, clientVars, serverVars>>

UploadReader(w) == PickUpdate(w) \/ ReadFile(w) \/ CheckErr(w) \/ SendObject(w)
UploadSender == Connect \/ SenderLoop \/ CloseSend \/ RecvAnswer
ServerStep == UpdatePackedObjects \/ (\E distance \in 0 .. 2 : CommitUpdate(distance)) \/ Rollback

UploadStep ==
  /\ phase = "upload"
  /\ \/ /\ \/ \E w \in Workers : UploadReader(w)
           \/ UploadSender
           \/ ServerStep
        /\ UNCHANGED phase
     \/ SenderPanics
     \/ UploadEnds
  /\ UNCHANGED <<vars, diff>>

RebuildStep ==
  /\ phase = "rebuild"
  /\ Receiver \/ (\E w \in Workers : Worker(w)) \/ Finish
  /\ UNCHANGED <<phase, diff, clientVars, serverVars>>

ContextEnds == phase \in {"upload", "rebuild"} /\ CallerCancels /\ UNCHANGED <<phase, diff, clientVars, serverVars>>

UpdateNext == UploadStep \/ RebuildStep \/ RebuildEnds \/ ContextEnds

UpdateSpec == UpdateInit /\ [][UpdateNext]_allVars

(* Goroutines are scheduled, and the server goes on with the stream, or ends  *)
(* it with an error.  The call has no deadline: while the server waits for a  *)
(* connection of an exhausted pool (ConnectionPool), the client waits too.    *)
UpdateFairSpec ==
  /\ UpdateSpec
  /\ \A w \in Workers : WF_allVars(phase = "upload" /\ UploadReader(w) /\ UNCHANGED <<vars, phase, diff>>)
  /\ WF_allVars(phase = "upload" /\ UploadSender /\ UNCHANGED <<vars, phase, diff>>)
  /\ WF_allVars(phase = "upload" /\ ServerStep /\ UNCHANGED <<vars, phase, diff>>)
  /\ WF_allVars(phase = "upload" /\ UploadEnds /\ UNCHANGED <<vars, diff>>)
  /\ WF_allVars(RebuildStep /\ Receiver)
  /\ \A w \in Workers : WF_allVars(RebuildStep /\ Worker(w))
  /\ WF_allVars(RebuildStep /\ Finish) /\ WF_allVars(RebuildEnds)

-----------------------------------------------------------------------------
DiffUpdates == {diff[i] : i \in 1 .. Len(diff)}

(* What the workers make of them.                                             *)
DiffObjects == {ObjectFromFilePath(u) : u \in DiffUpdates}

ReaderState ==
  [pc : {"wait", "read", "check", "send", "done"},
   update : DiffUpdates \cup {None}, object : DiffObjects \cup {None}]

MergeState ==
  [before : Seq(Entry), updates : Seq(Entry), read : Nat, reading : BOOLEAN, idxHint : Nat,
   seenPaths : SUBSET Nat, out : Seq(Entry), result : {"none", "running", "pack", "empty"}]

UploadTypeOK ==
  /\ phase \in {"upload", "rebuild", "done", "panicked"}
  /\ diff \in Diffs \cup {<<>>}
  /\ picked \in 0 .. Len(diff) /\ count \in 0 .. picked
  /\ reader \in [Workers -> ReaderState]
  /\ sharedErr \in BOOLEAN /\ stopped \in BOOLEAN /\ failed \in BOOLEAN
  /\ objectChan \in Seq(DiffObjects \cup {None}) /\ Len(objectChan) <= ObjectRoom
  /\ sender \in {"connect", "loop", "closing", "done"}
  /\ remote \in {"none", "open", "merge", "committed", "failed"}
  /\ received \subseteq DiffObjects
  /\ pack \in Seq(Entry)
  /\ merge \in MergeState
  /\ answer \in (0 .. 2) \cup {None}

(* Types of the state of an update, the rebuild's included.                   *)
UpdateTypeOK == TypeOK /\ UploadTypeOK

(* The server publishes the whole diff or nothing: a file that could not be   *)
(* read, and an error that another worker's success overwrites, never make it *)
(* publish a part.  A file that is gone since the diff is published as        *)
(* deleted.                                                                   *)
PublishedWhole ==
  remote = "committed" =>
    /\ received = DiffObjects
    /\ pack = Merged(merge.before, {u \in DiffObjects : IsPathPacked(u.path)})

(* Update writes its version file, or goes on to the rebuild that writes it,  *)
(* only for a diff that the server has published (unless the caller gave up): *)
(* no error is lost between the sender, the workers and errgroup.             *)
SuccessPublished ==
  phase # "upload" /\ diff # <<>> /\ ~failed /\ ~gone => remote = "committed"

(* Whatever fails, all goroutines end and the call returns, as long as the    *)
(* server goes on; except that the process dies of a nil object, which one    *)
(* worker's success let through in place of another one's error, when its     *)
(* Send fails.                                                                *)
CallReturns == <>(phase \in {"done", "panicked"})

=============================================================================
