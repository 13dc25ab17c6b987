---------------------------- MODULE TarPipeline ----------------------------
(* The goroutines of Client.Rebuild (pkg/client/client.go): one receives the  *)
(* tars of the GetCompress stream, the workers write them into the directory, *)
(* and the version file is written when all of them have returned.            *)
(*                                                                            *)
(* The channel is first in, first out, so it is two counters: it holds the    *)
(* tars taken + 1 .. sent.  ClientSync has the writing of one tar, this module *)
(* has who writes which, and what happens when one of them fails.             *)
EXTENDS Integers, Sequences

CONSTANTS
  Workers,          \* parallelWorkerCount goroutines
  Capacity,         \* the size of tarChan
  Answers,          \* streams: the version of each response
  RecvMayFail,      \* TRUE: the stream may break
  WriteMayFail,     \* TRUE: WriteTar may return an error
  CallerMayCancel,  \* TRUE: the caller's context may end
  None              \* no error, no version

ASSUME PipelineAssumption ==
  /\ Workers # {}
  /\ Capacity \in Nat \ {0}
  /\ Answers \subseteq Seq(Nat \ {0})
  /\ RecvMayFail \in BOOLEAN /\ WriteMayFail \in BOOLEAN /\ CallerMayCancel \in BOOLEAN
  /\ None \notin Nat

VARIABLES
  answers,    \* the responses of this stream
  receiver,   \* "first", "check", "send", "recv", "failing" or "done"
  sent,       \* how many responses went into the channel
  taken,      \* how many were taken out of it
  tracked,    \* rebuildResultTracker.version, 0 before the first response
  worker,     \* worker[w]: "wait", "write", "failing" or "done"
  holds,      \* holds[w]: the tar w is writing
  applied,    \* the tars that were written
  gone,       \* the caller's context has ended
  cancelled,  \* cancel() was called, or errgroup saw an error
  err,        \* TRUE: errgroup keeps an error for group.Wait
  version     \* what Rebuild wrote, None before; 0: it returned without writing

vars == <<answers, receiver, sent, taken, tracked, worker, holds, applied,
          gone, cancelled, err, version>>

Total == Len(answers)
Done == gone \/ cancelled          \* <-ctx.Done() is ready
Closed == receiver = "done"        \* defer close(tarChan)
Running == version = None

Init ==
  /\ answers \in Answers
  /\ receiver = "first"
  /\ sent = 0 /\ taken = 0 /\ tracked = 0
  /\ worker = [w \in Workers |-> "wait"]
  /\ holds = [w \in Workers |-> 0]
  /\ applied = {}
  /\ gone = FALSE /\ cancelled = FALSE /\ err = FALSE
  /\ version = None

-----------------------------------------------------------------------------
(* One response is pulled before the workers are started.  An empty stream or *)
(* an error ends the rebuild here.                                            *)
RecvFirst ==
  /\ receiver = "first" /\ Running
  /\ \/ /\ Total > 0
        /\ receiver' = "check"
        /\ UNCHANGED version
     \/ /\ Total = 0 \/ RecvMayFail \/ gone
        /\ version' = 0
        /\ UNCHANGED receiver
  /\ UNCHANGED <<answers, sent, taken, tracked, worker, holds, applied, gone, cancelled, err>>

(* checkVersion: all responses carry the version of the first one.            *)
CheckVersion ==
  /\ receiver = "check"
  /\ tracked' = answers[sent + 1]
  /\ IF tracked \in {0, answers[sent + 1]}
     THEN receiver' = "send" /\ UNCHANGED <<err, cancelled>>
     ELSE receiver' = "done" /\ err' = TRUE /\ cancelled' = TRUE
  /\ UNCHANGED <<answers, sent, taken, worker, holds, applied, gone, version>>

(* The select of the receiver.                                                *)
Send ==
  /\ receiver = "send"
  /\ \/ Done /\ receiver' = "done" /\ UNCHANGED sent
     \/ sent - taken < Capacity /\ receiver' = "recv" /\ sent' = sent + 1
  /\ UNCHANGED <<answers, taken, tracked, worker, holds, applied, gone, cancelled, err, version>>

(* stream.Recv: the next response, the end of the stream, or an error.  The   *)
(* stream belongs to the caller's context, not to the group's.                *)
Recv ==
  /\ receiver = "recv"
  /\ \/ sent < Total /\ receiver' = "check" /\ UNCHANGED cancelled
     \/ sent = Total /\ receiver' = "done" /\ UNCHANGED cancelled
     \/ (RecvMayFail \/ gone) /\ receiver' = "failing" /\ cancelled' = TRUE
  /\ UNCHANGED <<answers, sent, taken, tracked, worker, holds, applied, gone, err, version>>

(* The error that follows cancel() is returned to the group.                  *)
ReceiverFails ==
  /\ receiver = "failing"
  /\ receiver' = "done"
  /\ err' = TRUE
  /\ UNCHANGED <<answers, sent, taken, tracked, worker, holds, applied, gone, cancelled, version>>

-----------------------------------------------------------------------------
(* Mutant of Take: the worker does not look at ok, and a closed channel gives *)
(* it a tar that nobody sent.                                                 *)
TakeUnchecked(w) ==
  /\ worker[w] = "wait" /\ receiver # "first"
  /\ \/ /\ Done
        /\ worker' = [worker EXCEPT ![w] = "done"]
        /\ err' = TRUE /\ cancelled' = TRUE
        /\ UNCHANGED <<taken, holds>>
     \/ /\ taken < sent \/ Closed
        /\ taken' = taken + 1
        /\ holds' = [holds EXCEPT ![w] = taken + 1]
        /\ worker' = [worker EXCEPT ![w] = "write"]
        /\ UNCHANGED <<err, cancelled>>
  /\ UNCHANGED <<answers, receiver, sent, tracked, applied, gone, version>>

(* The select of a worker: its context is done, a tar is there, or the        *)
(* channel is closed and empty.                                               *)
Take(w) ==
  /\ worker[w] = "wait" /\ receiver # "first"
  /\ \/ /\ Done
        /\ worker' = [worker EXCEPT ![w] = "done"]
        /\ err' = TRUE /\ cancelled' = TRUE
        /\ UNCHANGED <<taken, holds>>
     \/ /\ taken < sent
        /\ taken' = taken + 1
        /\ holds' = [holds EXCEPT ![w] = taken + 1]
        /\ worker' = [worker EXCEPT ![w] = "write"]
        /\ UNCHANGED <<err, cancelled>>
     \/ /\ taken = sent /\ Closed
        /\ worker' = [worker EXCEPT ![w] = "done"]
        /\ UNCHANGED <<taken, holds, err, cancelled>>
  /\ UNCHANGED <<answers, receiver, sent, tracked, applied, gone, version>>

(* files.WriteTar.  A worker that fails cancels the others.                   *)
WriteTar(w) ==
  /\ worker[w] = "write"
  /\ \/ /\ applied' = applied \cup {holds[w]}
        /\ worker' = [worker EXCEPT ![w] = "wait"]
        /\ UNCHANGED cancelled
     \/ /\ WriteMayFail
        /\ worker' = [worker EXCEPT ![w] = "failing"]
        /\ cancelled' = TRUE
        /\ UNCHANGED applied
  /\ UNCHANGED <<answers, receiver, sent, taken, tracked, holds, gone, err, version>>

(* Mutant of WorkerFails: the worker cancels the group and returns nil.       *)
WorkerStops(w) ==
  /\ worker[w] = "failing"
  /\ worker' = [worker EXCEPT ![w] = "done"]
  /\ UNCHANGED <<answers, receiver, sent, taken, tracked, holds, applied, gone, cancelled, err, version>>

WorkerFails(w) ==
  /\ worker[w] = "failing"
  /\ worker' = [worker EXCEPT ![w] = "done"]
  /\ err' = TRUE
  /\ UNCHANGED <<answers, receiver, sent, taken, tracked, holds, applied, gone, cancelled, version>>

-----------------------------------------------------------------------------
(* group.Wait and WriteVersionFile, or the error of the group.                *)
Finish ==
  /\ Running
  /\ receiver = "done" /\ \A w \in Workers : worker[w] = "done"
  /\ version' = IF err THEN 0 ELSE tracked
  /\ UNCHANGED <<answers, receiver, sent, taken, tracked, worker, holds, applied, gone, cancelled, err>>

CallerCancels ==
  /\ CallerMayCancel
  /\ Running /\ ~gone
  /\ gone' = TRUE
  /\ UNCHANGED <<answers, receiver, sent, taken, tracked, worker, holds, applied, cancelled, err, version>>

Receiver == RecvFirst \/ CheckVersion \/ Send \/ Recv \/ ReceiverFails
Worker(w) == Take(w) \/ WriteTar(w) \/ WorkerFails(w)

(* Rebuild has returned.                                                      *)
Returned == ~Running /\ UNCHANGED vars

Next ==
  \/ Receiver
  \/ \E w \in Workers : Worker(w)
  \/ Finish
  \/ CallerCancels
  \/ Returned

Spec == Init /\ [][Next]_vars

-----------------------------------------------------------------------------
(* Types of the pipeline's state.                                             *)
TypeOK ==
  /\ answers \in Answers
  /\ receiver \in {"first", "check", "send", "recv", "failing", "done"}
  /\ sent \in Nat /\ taken \in Nat /\ taken <= sent /\ sent <= Total
  /\ sent - taken <= Capacity
  /\ tracked \in Nat
  /\ worker \in [Workers -> {"wait", "write", "failing", "done"}]
  /\ holds \in [Workers -> Nat]
  /\ applied \subseteq 1 .. taken
  /\ gone \in BOOLEAN /\ cancelled \in BOOLEAN /\ err \in BOOLEAN
  /\ version \in Nat \cup {None}

(* Unless the caller gave up, the version file is written only for a stream   *)
(* whose responses all carry that version and have all been written into the  *)
(* directory.                                                                 *)
Complete ==
  version \in Nat \ {0} /\ ~gone =>
    /\ applied = 1 .. Total
    /\ \A i \in 1 .. Total : answers[i] = version

=============================================================================
