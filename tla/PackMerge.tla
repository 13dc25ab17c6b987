----------------------------- MODULE PackMerge -----------------------------
(* The merging of packed objects: updateObjects, findUpdate and packObjects   *)
(* of internal/db/tar.go.  The entries of the pack and the updates of one     *)
(* stream are walked by a generator; every step here is one call of it.       *)
(*                                                                            *)
(* Paths are numbered in their order.  An entry's "hash" stands for its       *)
(* contents, mode and size; an update with Deleted removes its path.          *)
EXTENDS Integers, Sequences, FiniteSets

CONSTANT Deleted

VARIABLE merge  \* the state of updateObjects, the tar being written included

NoMerge == [before |-> <<>>, updates |-> <<>>, read |-> 0, reading |-> TRUE, idxHint |-> 0,
            seenPaths |-> {}, out |-> <<>>, result |-> "none"]

(* TarReader.FromBytes: the reader is at the first entry of the pack.         *)
FromBytes(m, pack) == [m EXCEPT !.before = pack, !.read = 0]

(* TarWriter.WriteObject adds an entry to the tar.                            *)
WriteObject(out, object) == Append(out, object)

(* The numbers of N from the smallest to the largest.                         *)
InOrder(N) == CHOOSE s \in [1 .. Cardinality(N) -> N] : \A i, j \in DOMAIN s : i < j => s[i] < s[j]

(* sort.Slice by path; the paths of a stream are different.                   *)
SortByPath(S) ==
  LET paths == InOrder({u.path : u \in S})
  IN  [i \in DOMAIN paths |-> CHOOSE u \in S : u.path = paths[i]]

updateObjects(before, S) ==
  [FromBytes(NoMerge, before) EXCEPT !.updates = SortByPath(S), !.result = "running"]

findUpdate(updates, path) == {updates[i] : i \in {j \in DOMAIN updates : updates[j].path = path}}

(* Mutant of Yield: deletions are written too.                                *)
YieldAll(out, u) == WriteObject(out, u)

(* What the generator yields for update u: nothing (SKIP) when it deletes.    *)
Yield(out, u) == IF u.hash = Deleted THEN out ELSE WriteObject(out, u)

(* Mutant of NextEntry: an entry that is replaced is left for the end.        *)
PostponeEntry ==
  LET e == merge.before[merge.read + 1]
      found == findUpdate(merge.updates, e.path)
  IN  /\ merge.result = "running" /\ merge.reading /\ merge.read < Len(merge.before)
      /\ merge' = [merge EXCEPT !.read = @ + 1,
                                !.seenPaths = IF found = {} THEN @ \cup {e.path} ELSE @,
                                !.out = IF found = {} THEN WriteObject(@, e) ELSE @]

(* reader.Next: an entry of the old pack is kept, replaced in place, or left  *)
(* out.                                                                       *)
NextEntry ==
  LET e == merge.before[merge.read + 1]
      found == findUpdate(merge.updates, e.path)
  IN  /\ merge.result = "running" /\ merge.reading /\ merge.read < Len(merge.before)
      /\ merge' = [merge EXCEPT !.read = @ + 1, !.seenPaths = @ \cup {e.path},
                                !.out = IF found = {} THEN WriteObject(@, e)
                                        ELSE Yield(@, CHOOSE u \in found : TRUE)]

EndOfPack ==
  /\ merge.result = "running" /\ merge.reading /\ merge.read = Len(merge.before)
  /\ merge' = [merge EXCEPT !.reading = FALSE]

(* The updates from idxHint on whose paths were not seen.                     *)
Unseen == {i \in merge.idxHint + 1 .. Len(merge.updates) :
             merge.updates[i].path \notin merge.seenPaths}

(* Mutant of NextUpdate: the hint is taken as an index into all updates, plus *)
(* the one it was.                                                            *)
SkipUpdate ==
  LET i == CHOOSE j \in Unseen : \A k \in Unseen : j <= k
  IN  /\ merge.result = "running" /\ ~merge.reading /\ Unseen # {}
      /\ merge' = [merge EXCEPT !.seenPaths = @ \cup {merge.updates[i].path},
                                !.idxHint = i + 1,
                                !.out = Yield(@, merge.updates[i])]

(* The next unseen update is appended.  The hint it leaves is an index into   *)
(* updates[idxHint:], not into updates.                                       *)
NextUpdate ==
  LET i == CHOOSE j \in Unseen : \A k \in Unseen : j <= k
  IN  /\ merge.result = "running" /\ ~merge.reading /\ Unseen # {}
      /\ merge' = [merge EXCEPT !.seenPaths = @ \cup {merge.updates[i].path},
                                !.idxHint = i - @ - 1,
                                !.out = Yield(@, merge.updates[i])]

(* packObjects after io.EOF: ErrEmptyPack, or the tar.                        *)
packObjects ==
  /\ merge.result = "running" /\ ~merge.reading /\ Unseen = {}
  /\ merge' = [merge EXCEPT !.result = IF merge.out = <<>> THEN "empty" ELSE "pack"]

(* What UpdatePackedObjects returns: the hash of the row that the project has *)
(* is compared with the hash of the new tar.  Without a row, here <<>>, it is *)
(* zero, which no bytes have, not even none.                                  *)
PackChanged(before, out) == before = <<>> \/ out # before

MergeStep == NextEntry \/ EndOfPack \/ NextUpdate \/ packObjects

-----------------------------------------------------------------------------
(* The pack that a set of updates should make of a pack: its entries in their *)
(* order, replaced or left out, then the new ones in the order of their paths.*)
Of(S, path) == {u \in S : u.path = path}
Now(S, e) == IF Of(S, e.path) = {} THEN e ELSE CHOOSE u \in Of(S, e.path) : TRUE
KeptEntries(before, S) == {i \in DOMAIN before : \A u \in Of(S, before[i].path) : u.hash # Deleted}
NewEntries(before, S) == {u \in S : u.hash # Deleted /\ \A i \in DOMAIN before : before[i].path # u.path}

Merged(before, S) ==
  LET kept == InOrder(KeptEntries(before, S))
  IN  [i \in DOMAIN kept |-> Now(S, before[kept[i]])] \o SortByPath(NewEntries(before, S))

Updates == {merge.updates[i] : i \in DOMAIN merge.updates}

(* The generator yields every kept entry and every update once and in the     *)
(* order above, whatever is replaced, deleted or new; it is empty exactly     *)
(* when nothing is left.                                                      *)
MergeExact ==
  merge.result \in {"pack", "empty"} =>
    /\ merge.out = Merged(merge.before, Updates)
    /\ merge.result = "empty" <=> merge.out = <<>>

(* Sending the same updates again leaves the pack as it is, byte by byte, and *)
(* UpdatePackedObjects reports a change, which publishes a version, exactly   *)
(* when the updates have emptied the pack: then there is no row to compare    *)
(* with.                                                                      *)
MergeAgain ==
  merge.result \in {"pack", "empty"} =>
    LET again == Merged(merge.out, Updates)
    IN  /\ again = merge.out
        /\ PackChanged(merge.out, again) <=> merge.result = "empty"

=============================================================================
