-------------------------- MODULE ObjectStoreProofs --------------------------
(* Proofs about ObjectStore, for every choice of its constants.               *)
EXTENDS ObjectStore, TLAPS

USE DEF Absent

(* A new row, and a row that is stopped or revived, is a row.                 *)
LEMMA RowFacts ==
  /\ \A p \in Project, v \in Nat \ {0}, path \in Path, h \in Hash : NewRow(p, v, path, h) \in Row
  /\ \A r \in Row, v \in Nat \cup {Null} : [r EXCEPT !.stop = v] \in Row
  /\ \A r \in Row, p \in Project : [r EXCEPT !.project = p] \in Row
  /\ \A r \in Row : Entry(r) \in [path : Path, hash : Hash]
  BY DEF Row, NewRow, Entry

LEMMA IdleTx == Idle \in Tx
  BY DEF Idle, Tx, TxRecord

(* The fields of a transaction.                                               *)
LEMMA TxFields ==
  ASSUME NEW t \in Tx
  PROVE  /\ t.next \in Nat /\ t.version \in Nat
         /\ t.todo \in SUBSET Update /\ t.batch \in SUBSET Update
         /\ t.stopped \in SUBSET Row /\ t.added \in SUBSET Row
  BY DEF Tx, TxRecord

LEMMA StoppedType ==
  ASSUME NEW v \in Nat \cup {Null}, NEW R \in SUBSET Row
  PROVE  {[r EXCEPT !.stop = v] : r \in R} \in SUBSET Row
<1> SUFFICES ASSUME NEW r \in R PROVE [r EXCEPT !.stop = v] \in Row
  OBVIOUS
<1> QED
  BY RowFacts

(* A statement of a transaction turns rows into rows.                         *)
LEMMA PendingType ==
  ASSUME TypeOK, NEW t \in Tx
  PROVE  Pending(t) \in SUBSET Row
<1>1. {[r EXCEPT !.stop = t.next] : r \in t.stopped} \in SUBSET Row
  BY TxFields, StoppedType
<1> QED
  BY <1>1, TxFields DEF TypeOK, Pending

LEMMA StopRowsType ==
  ASSUME NEW t \in Tx, NEW R \in SUBSET Row
  PROVE  StopRows(t, R) \in Tx
<1>1. {[r EXCEPT !.stop = t.next] : r \in R \cap t.added} \in SUBSET Row
  BY TxFields, StoppedType
<1>2. /\ t.stopped \cup (R \ t.added) \in SUBSET Row
      /\ (t.added \ R) \cup {[r EXCEPT !.stop = t.next] : r \in R \cap t.added} \in SUBSET Row
  BY <1>1, TxFields
<1> QED
  BY <1>2 DEF StopRows, Tx, TxRecord

LEMMA DoneType ==
  ASSUME NEW t \in Tx, NEW u
  PROVE  Done(t, u) \in Tx
  BY DEF Done, Tx, TxRecord

LEMMA UpdateFacts ==
  ASSUME NEW u \in Update
  PROVE  /\ u.path \in Path
         /\ u.kind \in {"put", "delete", "pack"}
         /\ u.hash \in Hash \cup {Null}
         /\ u.kind = "put" => u.hash \in Hash
         /\ u.kind = "delete" => u.hash = Null
  BY DEF Update

-----------------------------------------------------------------------------
(* Type correctness.                                                          *)

LEMMA TypeInit == Init => TypeOK
  BY IdleTx DEF Init, TypeOK

(* Steps of Fs.Update.                                                        *)
LEMMA TypeUpdateStep ==
  ASSUME TypeOK, NEW s \in Session, UpdateStep(s)
  PROVE  TypeOK'
<1> DEFINE t == tx[s]
<1>t. t \in Tx
  BY DEF TypeOK
<1>1. ASSUME NEW p \in Project, NEW batch \in Streams, LockLatestVersion(s, p, batch)
      PROVE  TypeOK'
  <2>1. batch \in SUBSET Update /\ latest[p] + 1 \in Nat \ {0}
    BY <1>1, StoreAssumption DEF TypeOK, LockLatestVersion
  <2>2. [Begin("update", p) EXCEPT !.next = latest[p] + 1, !.batch = batch, !.todo = batch] \in Tx
    BY <2>1 DEF Begin, Idle, Tx, TxRecord
  <2> QED
    BY <1>1, <2>2 DEF LockLatestVersion, TypeOK
<1>2. ASSUME NEW u \in t.todo, DeleteObject(s, u)
      PROVE  TypeOK'
  <2> DEFINE R == {r \in LiveRows(Pending(t), t.project) : r.path = u.path}
             n == [StopRows(Done(t, u), R) EXCEPT !.changed = TRUE]
  <2>1. R \in SUBSET Row
    BY <1>t, PendingType DEF LiveRows
  <2>2. StopRows(Done(t, u), R) \in Tx
    BY <1>t, <2>1, DoneType, StopRowsType
  <2>3. n \in Tx
    BY <2>2 DEF Tx, TxRecord
  <2>4. tx' = [tx EXCEPT ![s] = n]
    BY <1>2 DEF DeleteObject
  <2> QED
    BY <1>2, <2>3, <2>4 DEF DeleteObject, TypeOK
<1>3. ASSUME NEW u \in t.todo, InsertContent(s, u)
      PROVE  TypeOK'
  <2>1. u \in Update /\ u.hash \in Hash
    BY <1>t, <1>3, TxFields, UpdateFacts DEF InsertContent
  <2>2. [t EXCEPT !.staged = u] \in Tx
    BY <1>t, <2>1 DEF Tx, TxRecord
  <2>3. tx' \in [Session -> Tx]
    BY <1>3, <2>2 DEF InsertContent, TypeOK
  <2> QED
    BY <1>3, <2>1, <2>3 DEF InsertContent, TypeOK
<1>4. ASSUME NEW u \in t.todo, IdenticalObject(s, u) \/ IdenticalPack(s, u)
      PROVE  TypeOK'
  <2>1. Done(t, u) \in Tx
    BY <1>t, DoneType
  <2> QED
    BY <1>4, <2>1 DEF IdenticalObject, IdenticalPack, TypeOK
<1>5. ASSUME NEW u \in t.todo, UpdateObject(s, u)
      PROVE  TypeOK'
  <2> DEFINE i == [Done(t, u) EXCEPT !.added = @ \cup {NewRow(t.project, t.next, u.path, u.hash)}]
             R == {r \in LiveRows(Pending(i), t.project) :
                     r.path \in {u.path} \cup Parents(u.path) /\ r.start # t.next}
             n == [StopRows(i, R) EXCEPT !.changed = TRUE]
  <2>1. u \in Update /\ u.path \in Path /\ u.hash \in Hash
    BY <1>t, <1>5, TxFields, UpdateFacts DEF UpdateObject
  <2>2. t.project \in Project /\ t.next \in Nat \ {0}
    BY <1>5, <1>t, TxFields DEF UpdateObject, Current, Tx
  <2>3. i \in Tx
    <3>1. NewRow(t.project, t.next, u.path, u.hash) \in Row
      BY <2>1, <2>2, RowFacts
    <3>2. Done(t, u) \in Tx
      BY <1>t, DoneType
    <3> QED
      BY <3>1, <3>2 DEF Tx, TxRecord
  <2>4. R \in SUBSET Row
    BY <2>3, PendingType DEF LiveRows
  <2>5. StopRows(i, R) \in Tx
    BY <2>3, <2>4, StopRowsType
  <2>6. n \in Tx
    BY <2>5 DEF Tx, TxRecord
  <2>7. tx' = [tx EXCEPT ![s] = n]
    BY <1>5 DEF UpdateObject, previousRows
  <2>8. UNCHANGED <<latest, objects, contents, gcHashes, used, floor>>
    BY <1>5 DEF UpdateObject
  <2> HIDE DEF n
  <2> QED
    BY <2>6, <2>7, <2>8 DEF TypeOK
<1>6. ASSUME NEW u \in t.todo, UpdatePackedObjects(s, u)
      PROVE  TypeOK'
  <2> DEFINE R == {r \in LiveRows(Pending(t), t.project) : r.path = u.path}
             new == IF u.hash = Null THEN {} ELSE {NewRow(t.project, t.next, u.path, u.hash)}
             n == [StopRows(Done(t, u), R) EXCEPT !.added = @ \cup new, !.changed = TRUE]
  <2>1. u \in Update /\ u.path \in Path /\ u.hash \in Hash \cup {Null}
    BY <1>t, TxFields, UpdateFacts
  <2>2. t.project \in Project /\ t.next \in Nat \ {0}
    BY <1>6, <1>t, TxFields DEF UpdatePackedObjects, Current, Tx
  <2>3. new \in SUBSET Row
    BY <2>1, <2>2, RowFacts
  <2>4. R \in SUBSET Row
    BY <1>t, PendingType DEF LiveRows
  <2>5. StopRows(Done(t, u), R) \in Tx
    BY <1>t, <2>4, DoneType, StopRowsType
  <2>6. n \in Tx
    BY <2>3, <2>5 DEF Tx, TxRecord
  <2>7. tx' = [tx EXCEPT ![s] = n]
    BY <1>6 DEF UpdatePackedObjects
  <2> QED
    BY <1>6, <2>6, <2>7 DEF UpdatePackedObjects, TypeOK
<1>7. ASSUME CommitUpdate(s)
      PROVE  TypeOK'
  <2>1. objects' \in SUBSET Row
    BY <1>7, <1>t, PendingType DEF CommitUpdate
  <2>2. latest' \in [Project -> Nat \cup {Absent}]
    BY <1>7, <1>t, TxFields DEF CommitUpdate, TypeOK
  <2>3. tx' \in [Session -> Tx]
    BY <1>7, IdleTx DEF CommitUpdate, Finish, TypeOK
  <2> QED
    BY <1>7, <2>1, <2>2, <2>3 DEF CommitUpdate, TypeOK
<1>8. ASSUME UnchangedUpdate(s)
      PROVE  TypeOK'
  BY <1>8, IdleTx DEF UnchangedUpdate, Finish, TypeOK
<1> QED
  BY <1>1, <1>2, <1>3, <1>4, <1>5, <1>6, <1>7, <1>8 DEF UpdateStep

(* Steps of the calls that create, copy, clone and delete projects.           *)
LEMMA TypeProjectStep ==
  ASSUME TypeOK, NEW s \in Session, ProjectStep(s)
  PROVE  TypeOK'
<1> DEFINE t == tx[s]
<1>t. t \in Tx
  BY DEF TypeOK
<1>1. ASSUME NEW template \in Templates, NEW p \in Project, CopyAllObjects(s, template, p)
      PROVE  TypeOK'
  <2> DEFINE A == {[r EXCEPT !.project = p] : r \in LiveRows(objects, template)}
             n == [Begin("new", p) EXCEPT !.source = template, !.added = A]
  <2>1. A \in SUBSET Row
    <3> SUFFICES ASSUME NEW r \in LiveRows(objects, template)
                 PROVE  [r EXCEPT !.project = p] \in Row
      OBVIOUS
    <3>1. r \in Row
      BY DEF LiveRows, TypeOK
    <3> QED
      BY <3>1, RowFacts
  <2>2. template \in Project
    BY StoreAssumption
  <2>3. n \in Tx
    BY <2>1, <2>2 DEF Begin, Idle, Tx, TxRecord
  <2>4. tx' = [tx EXCEPT ![s] = n]
    BY <1>1 DEF CopyAllObjects
  <2> QED
    BY <1>1, <2>3, <2>4 DEF CopyAllObjects, TypeOK
<1>2. ASSUME CommitNewProject(s)
      PROVE  TypeOK'
  <2>1. objects' \in SUBSET Row
    BY <1>2, <1>t, TxFields DEF CommitNewProject, TypeOK
  <2>2. t.project \in Project /\ t.source \in Project
    BY <1>2, <1>t DEF CommitNewProject, Tx
  <2>3. latest[t.source] \in Nat
    BY <1>2, <2>2 DEF CommitNewProject, TypeOK
  <2>4. latest' \in [Project -> Nat \cup {Absent}] /\ floor' \in [Project -> Nat]
    BY <1>2, <2>2, <2>3 DEF CommitNewProject, TypeOK
  <2>5. tx' \in [Session -> Tx]
    BY <1>2, IdleTx DEF CommitNewProject, Finish, TypeOK
  <2> QED
    BY <1>2, <2>1, <2>4, <2>5 DEF CommitNewProject, TypeOK
<1>3. ASSUME NEW source \in Project, NEW p \in Project, NEW version \in Version,
             CloneRemoved(s, source, p, version)
      PROVE  TypeOK'
  <2> DEFINE wanted == View(objects, source, version)
             n == [Begin("clone", p) EXCEPT
                     !.source = source, !.version = version, !.next = latest[p] + 1,
                     !.seen = wanted,
                     !.stopped = {r \in LiveRows(objects, p) : r.path \in toRemove(source, p, version)}]
  <2>1. wanted \in SUBSET [path : Path, hash : Hash]
    BY RowFacts DEF TypeOK, View, updatedObjects, UpdatedRows
  <2>2. {r \in LiveRows(objects, p) : r.path \in toRemove(source, p, version)} \in SUBSET Row
    BY DEF TypeOK, LiveRows
  <2>3. latest[p] + 1 \in Nat \ {0}
    BY <1>3 DEF CloneRemoved, TypeOK
  <2>4. version \in Nat
    BY StoreAssumption DEF Version
  <2>5. n \in Tx
    BY <2>1, <2>2, <2>3, <2>4 DEF Begin, Idle, Tx, TxRecord
  <2>6. tx' = [tx EXCEPT ![s] = n]
    BY <1>3 DEF CloneRemoved
  <2> QED
    BY <1>3, <2>5, <2>6 DEF CloneRemoved, TypeOK
<1>4. ASSUME CommitClone(s)
      PROVE  TypeOK'
  <2> DEFINE rows == Pending(t)
             fresh == {e \in View(rows, t.source, t.version) : ~IsIdentical(rows, t.project, e)}
  <2>1. rows \in SUBSET Row
    BY <1>t, PendingType
  <2>2. fresh \in SUBSET [path : Path, hash : Hash]
    BY <2>1, RowFacts DEF View, updatedObjects, UpdatedRows
  <2>3. t.project \in Project /\ t.next \in Nat \ {0}
    BY <1>4, <1>t, TxFields DEF CommitClone, Tx
  <2>4. {NewRow(t.project, t.next, e.path, e.hash) : e \in fresh} \in SUBSET Row
    BY <2>2, <2>3, RowFacts
  <2>5. objects' \in SUBSET Row
    BY <1>4, <2>1, <2>4 DEF CommitClone
  <2>6. latest' \in [Project -> Nat \cup {Absent}]
    BY <1>4, <2>3 DEF CommitClone, TypeOK
  <2>7. tx' \in [Session -> Tx]
    BY <1>4, IdleTx DEF CommitClone, Finish, TypeOK
  <2> QED
    BY <1>4, <2>5, <2>6, <2>7 DEF CommitClone, TypeOK
<1>5. ASSUME NEW p \in Project, DeleteObjects(s, p)
      PROVE  TypeOK'
  <2>1. [Begin("delete", p) EXCEPT !.stopped = {r \in objects : r.project = p}] \in Tx
    BY DEF Begin, Idle, Tx, TxRecord, TypeOK
  <2> QED
    BY <1>5, <2>1 DEF DeleteObjects, TypeOK
<1>6. ASSUME DeleteProject(s)
      PROVE  TypeOK'
  BY <1>6, IdleTx DEF DeleteProject, Finish, TypeOK
<1>7. ASSUME Abort(s)
      PROVE  TypeOK'
  BY <1>7, IdleTx DEF Abort, Finish, TypeOK
<1> QED
  BY <1>1, <1>2, <1>3, <1>4, <1>5, <1>6, <1>7 DEF ProjectStep

(* Steps outside any transaction of the model.                                *)
LEMMA ResetRowsType ==
  ASSUME TypeOK, NEW p \in Project, NEW version \in Version
  PROVE  ResetRows(objects, p, version) \in SUBSET Row
<1> DEFINE kept == {r \in objects : r.project = p => r.start <= version}
           Revived(r) == r.project = p /\ ~Live(r) /\ r.stop > version
<1>1. {[r EXCEPT !.stop = Null] : r \in {o \in kept : Revived(o)}} \in SUBSET Row
  BY StoppedType DEF TypeOK
<1> QED
  BY <1>1 DEF ResetRows, TypeOK

LEMMA TypeOtherStep ==
  ASSUME TypeOK, AdminStep \/ GcStep
  PROVE  TypeOK'
<1>1. ASSUME NEW p \in Project, CreateProject(p)
      PROVE  TypeOK'
  BY <1>1 DEF CreateProject, TypeOK
<1>2. ASSUME NEW p \in Rollbacks, NEW version \in Version,
             Rollback(p, version) \/ Reset(p, version)
      PROVE  TypeOK'
  <2>1. p \in Project /\ version \in Nat
    BY StoreAssumption DEF Version
  <2>2. objects' \in SUBSET Row
    BY <1>2, <2>1, ResetRowsType DEF Rollback, Reset, DropOtherProjects
  <2>3. latest' \in [Project -> Nat \cup {Absent}] /\ floor' \in [Project -> Nat]
    BY <1>2, <2>1 DEF Rollback, Reset, ResetVersion, ResetFloor, TypeOK
  <2> QED
    BY <1>2, <2>2, <2>3 DEF Rollback, Reset, TypeOK
<1>3. ASSUME ResetAll
      PROVE  TypeOK'
  BY <1>3 DEF ResetAll, TypeOK
<1>4. ASSUME NEW p \in Project, NEW keep \in Keeps, NEW from \in Froms,
             GcProjectObjects(p, keep, from)
      PROVE  TypeOK'
  <2>1. keep \in Nat
    BY StoreAssumption
  <2>2. floor' \in [Project -> Nat]
    BY <1>4, <2>1 DEF GcProjectObjects, TypeOK
  <2>3. {r.hash : r \in GcDead(p, keep, from)} \in SUBSET Hash
    BY DEF GcDead, TypeOK, Row
  <2> QED
    BY <1>4, <2>2, <2>3 DEF GcProjectObjects, TypeOK
<1>5. ASSUME NEW sample \in Samples, RandomContents(sample)
      PROVE  TypeOK'
  BY <1>5 DEF RandomContents, TypeOK
<1>6. ASSUME NEW chunk \in SUBSET gcHashes, GcContentHashes(chunk)
      PROVE  TypeOK'
  BY <1>6 DEF GcContentHashes, TypeOK
<1>7. ASSUME GcFail
      PROVE  TypeOK'
  BY <1>7 DEF GcFail, TypeOK
<1> QED
  BY <1>1, <1>2, <1>3, <1>4, <1>5, <1>6, <1>7 DEF AdminStep, GcStep

(* The tables and the open transactions keep their types: every committed row *)
(* is a row, versions are numbers, and a transaction that is not idle names a *)
(* project.                                                                   *)
THEOREM TypeCorrect == Spec => []TypeOK
<1>1. TypeOK /\ [Next]_vars => TypeOK'
  <2> SUFFICES ASSUME TypeOK, [Next]_vars PROVE TypeOK'
    OBVIOUS
  <2>1. CASE Next
    BY <2>1, TypeUpdateStep, TypeProjectStep, TypeOtherStep DEF Next
  <2>2. CASE UNCHANGED vars
    BY <2>2 DEF vars, TypeOK
  <2> QED
    BY <2>1, <2>2
<1> QED
  BY TypeInit, <1>1, PTL DEF Spec

-----------------------------------------------------------------------------
(* Every committed object has its contents as long as contents are collected  *)
(* only while no transaction is open.                                         *)

(* The contents a transaction relies on: those of the rows it has written or  *)
(* stopped, and the one it has inserted for the object it is about to write.  *)
(* They are committed before the rows are, so the invariant needs them.       *)
KeptIn(t, c) ==
  /\ \A r \in t.added \cup t.stopped : r.hash \in c
  /\ t.staged # Null => t.staged.hash \in c

Kept(t) == KeptIn(t, contents)

ContentsInv == ContentsAvailable /\ \A s \in Session : Kept(tx[s])

LEMMA StoppedHash ==
  ASSUME NEW r \in Row, NEW v
  PROVE  [r EXCEPT !.stop = v].hash = r.hash
  BY DEF Row

LEMMA PendingKept ==
  ASSUME TypeOK, ContentsAvailable, NEW t \in Tx, Kept(t)
  PROVE  \A r \in Pending(t) : r.hash \in contents
<1>1. t.stopped \in SUBSET Row
  BY TxFields
<1>2. ASSUME NEW r \in t.stopped PROVE [r EXCEPT !.stop = t.next].hash \in contents
  BY <1>1, StoppedHash DEF Kept, KeptIn
<1> QED
  BY <1>2 DEF Pending, Kept, KeptIn, ContentsAvailable

LEMMA StopRowsKept ==
  ASSUME NEW t \in Tx, Kept(t), NEW R \in SUBSET Row, \A r \in R : r.hash \in contents
  PROVE  Kept(StopRows(t, R))
<1> DEFINE n == StopRows(t, R)
<1>1. /\ n.stopped = t.stopped \cup (R \ t.added) /\ n.staged = t.staged
      /\ n.added = (t.added \ R) \cup {[r EXCEPT !.stop = t.next] : r \in R \cap t.added}
  BY DEF StopRows, Tx, TxRecord
<1>2. ASSUME NEW r \in R \cap t.added PROVE [r EXCEPT !.stop = t.next].hash \in contents
  BY StoppedHash
<1> HIDE DEF n
<1>3. Kept(n)
  BY <1>1, <1>2 DEF Kept, KeptIn
<1> QED
  BY <1>3 DEF n

LEMMA DoneKept ==
  ASSUME NEW t \in Tx, Kept(t), NEW u
  PROVE  Kept(Done(t, u))
<1>1. /\ Done(t, u).added = t.added /\ Done(t, u).stopped = t.stopped
      /\ Done(t, u).staged = Null
  BY DEF Done, Tx, TxRecord
<1> QED
  BY <1>1 DEF Kept, KeptIn

(* A step that loses no contents and writes one transaction.                  *)
LEMMA KeptStep ==
  ASSUME TypeOK, ContentsInv, NEW s \in Session, NEW n,
         tx' = [tx EXCEPT ![s] = n], KeptIn(n, contents'), contents \subseteq contents',
         \A r \in objects' : r.hash \in contents'
  PROVE  ContentsInv'
<1>1. tx'[s] = n /\ \A s2 \in Session \ {s} : tx'[s2] = tx[s2]
  BY DEF TypeOK
<1>2. \A s2 \in Session \ {s} : Kept(tx[s2])'
  BY <1>1 DEF ContentsInv, Kept, KeptIn
<1>3. Kept(tx[s])'
  BY <1>1 DEF Kept, KeptIn
<1> QED
  BY <1>2, <1>3 DEF ContentsInv, ContentsAvailable

LEMMA IdleKept == Kept(Idle)
  BY DEF Kept, KeptIn, Idle

LEMMA KeptUpdateStep ==
  ASSUME TypeOK, TypeOK', ContentsInv, NEW s \in Session, UpdateStep(s)
  PROVE  ContentsInv'
<1> DEFINE t == tx[s]
<1>0. t \in Tx /\ Kept(t) /\ ContentsAvailable
  BY DEF TypeOK, ContentsInv
<1>1. \A r \in Pending(t) : r.hash \in contents
  BY <1>0, PendingKept
<1>p. Pending(t) \in SUBSET Row
  BY <1>0, PendingType
<1>2. ASSUME NEW p \in Project, NEW batch \in Streams, LockLatestVersion(s, p, batch)
      PROVE  ContentsInv'
  <2> DEFINE n == [Begin("update", p) EXCEPT
                     !.next = latest[p] + 1, !.batch = batch, !.todo = batch]
  <2>1. n.added = {} /\ n.stopped = {} /\ n.staged = Null
    BY DEF Begin, Idle
  <2>2. tx' = [tx EXCEPT ![s] = n] /\ UNCHANGED <<objects, contents>>
    BY <1>2 DEF LockLatestVersion
  <2> HIDE DEF n
  <2> QED
    BY <1>0, <2>1, <2>2, KeptStep DEF Kept, KeptIn, ContentsAvailable
<1>3. ASSUME NEW u \in t.todo, DeleteObject(s, u)
      PROVE  ContentsInv'
  <2> DEFINE R == {r \in LiveRows(Pending(t), t.project) : r.path = u.path}
             m == StopRows(Done(t, u), R)
             n == [m EXCEPT !.changed = TRUE]
  <2>1. R \in SUBSET Row /\ \A r \in R : r.hash \in contents
    BY <1>1, <1>p DEF LiveRows
  <2>2. Kept(m) /\ m \in Tx
    BY <1>0, <2>1, DoneType, DoneKept, StopRowsType, StopRowsKept
  <2>3. n.added = m.added /\ n.stopped = m.stopped /\ n.staged = m.staged
    BY <2>2 DEF Tx, TxRecord
  <2>4. tx' = [tx EXCEPT ![s] = n] /\ UNCHANGED <<objects, contents>>
    BY <1>3 DEF DeleteObject
  <2> HIDE DEF m, n
  <2>5. KeptIn(n, contents')
    BY <2>2, <2>3, <2>4 DEF Kept, KeptIn
  <2> QED
    BY <1>0, <2>4, <2>5, KeptStep DEF ContentsAvailable
<1>4. ASSUME NEW u \in t.todo, InsertContent(s, u)
      PROVE  ContentsInv'
  <2> DEFINE n == [t EXCEPT !.staged = u]
  <2>1. n.added = t.added /\ n.stopped = t.stopped /\ n.staged = u
    BY <1>0 DEF Tx, TxRecord
  <2>2. /\ tx' = [tx EXCEPT ![s] = n] /\ UNCHANGED objects
        /\ contents' = contents \cup {u.hash}
    BY <1>4 DEF InsertContent
  <2> HIDE DEF n
  <2>3. KeptIn(n, contents')
    BY <1>0, <2>1, <2>2 DEF Kept, KeptIn
  <2> QED
    BY <1>0, <2>2, <2>3, KeptStep DEF ContentsAvailable
<1>5. ASSUME NEW u \in t.todo, IdenticalObject(s, u) \/ IdenticalPack(s, u)
      PROVE  ContentsInv'
  <2>1. tx' = [tx EXCEPT ![s] = Done(t, u)] /\ UNCHANGED <<objects, contents>>
    BY <1>5 DEF IdenticalObject, IdenticalPack
  <2>2. KeptIn(Done(t, u), contents')
    BY <1>0, <2>1, DoneKept DEF Kept, KeptIn
  <2> QED
    BY <1>0, <2>1, <2>2, KeptStep DEF ContentsAvailable
<1>6. ASSUME NEW u \in t.todo, UpdateObject(s, u)
      PROVE  ContentsInv'
  <2> DEFINE a == NewRow(t.project, t.next, u.path, u.hash)
             i == [Done(t, u) EXCEPT !.added = @ \cup {a}]
             R == {r \in LiveRows(Pending(i), t.project) :
                     r.path \in {u.path} \cup Parents(u.path) /\ r.start # t.next}
             m == StopRows(i, R)
             n == [m EXCEPT !.changed = TRUE]
  <2>1. t.op = "update" /\ u.hash \in contents /\ u.path \in Path /\ u.hash \in Hash
    <3>1. u \in Update /\ t.staged = u /\ u.hash \in Hash /\ t.op = "update"
      BY <1>0, <1>6, TxFields, UpdateFacts DEF UpdateObject, Current
    <3> QED
      BY <1>0, <3>1, UpdateFacts, StoreAssumption DEF Kept, KeptIn
  <2>2. a \in Row /\ a.hash = u.hash
    BY <1>0, <2>1, TxFields, RowFacts DEF NewRow, Tx
  <2>3. Done(t, u) \in Tx /\ Kept(Done(t, u))
    BY <1>0, DoneType, DoneKept
  <2>4. i \in Tx /\ i.added = Done(t, u).added \cup {a}
        /\ i.stopped = Done(t, u).stopped /\ i.staged = Done(t, u).staged
    BY <2>2, <2>3 DEF Tx, TxRecord
  <2> HIDE DEF a, i
  <2>5. Kept(i)
    BY <2>1, <2>2, <2>3, <2>4 DEF Kept, KeptIn
  <2>6. Pending(i) \in SUBSET Row /\ \A r \in Pending(i) : r.hash \in contents
    BY <1>0, <2>4, <2>5, PendingKept, PendingType
  <2>7. R \in SUBSET Row /\ \A r \in R : r.hash \in contents
    BY <2>6 DEF LiveRows
  <2>8. m \in Tx /\ Kept(m)
    BY <2>4, <2>5, <2>7, StopRowsType, StopRowsKept
  <2>9. n.added = m.added /\ n.stopped = m.stopped /\ n.staged = m.staged
    BY <2>8 DEF Tx, TxRecord
  <2>10. tx' = [tx EXCEPT ![s] = n] /\ UNCHANGED <<objects, contents>>
    BY <1>6 DEF UpdateObject, previousRows, i, a
  <2> HIDE DEF m, n
  <2>11. KeptIn(n, contents')
    BY <2>8, <2>9, <2>10 DEF Kept, KeptIn
  <2> QED
    BY <1>0, <2>10, <2>11, KeptStep DEF ContentsAvailable
<1>7. ASSUME NEW u \in t.todo, UpdatePackedObjects(s, u)
      PROVE  ContentsInv'
  <2> DEFINE R == {r \in LiveRows(Pending(t), t.project) : r.path = u.path}
             new == IF u.hash = Null THEN {} ELSE {NewRow(t.project, t.next, u.path, u.hash)}
             m == StopRows(Done(t, u), R)
             n == [m EXCEPT !.added = @ \cup new, !.changed = TRUE]
  <2>1. R \in SUBSET Row /\ \A r \in R : r.hash \in contents
    BY <1>1, <1>p DEF LiveRows
  <2>2. Kept(m) /\ m \in Tx
    BY <1>0, <2>1, DoneType, DoneKept, StopRowsType, StopRowsKept
  <2>3. n.added = m.added \cup new /\ n.stopped = m.stopped /\ n.staged = m.staged
    BY <2>2 DEF Tx, TxRecord
  <2>4. tx' = [tx EXCEPT ![s] = n] /\ UNCHANGED <<objects, contents>>
    BY <1>7 DEF UpdatePackedObjects
  <2>5. \A x \in new : x.hash \in contents
    <3> SUFFICES ASSUME u.hash # Null PROVE u.hash \in contents
      BY DEF NewRow
    <3>1. u \in Update /\ t.staged = u
      BY <1>0, <1>7, TxFields DEF UpdatePackedObjects
    <3> QED
      BY <1>0, <3>1, StoreAssumption DEF Kept, KeptIn
  <2> HIDE DEF m, n, new
  <2>6. KeptIn(n, contents')
    BY <2>2, <2>3, <2>4, <2>5 DEF Kept, KeptIn
  <2> QED
    BY <1>0, <2>4, <2>6, KeptStep DEF ContentsAvailable
<1>8. ASSUME CommitUpdate(s) \/ UnchangedUpdate(s)
      PROVE  ContentsInv'
  <2>1. /\ tx' = [tx EXCEPT ![s] = Idle] /\ contents' = contents
        /\ objects' = Pending(t) \/ objects' = objects
    BY <1>8 DEF CommitUpdate, UnchangedUpdate, Finish
  <2>2. KeptIn(Idle, contents')
    BY <2>1, IdleKept DEF Kept, KeptIn
  <2> QED
    BY <1>0, <1>1, <2>1, <2>2, KeptStep DEF ContentsAvailable
<1> QED
  BY <1>2, <1>3, <1>4, <1>5, <1>6, <1>7, <1>8 DEF UpdateStep

LEMMA KeptProjectStep ==
  ASSUME TypeOK, TypeOK', ContentsInv, NEW s \in Session, ProjectStep(s)
  PROVE  ContentsInv'
<1> DEFINE t == tx[s]
<1>0. t \in Tx /\ Kept(t) /\ ContentsAvailable
  BY DEF TypeOK, ContentsInv
<1>1. \A r \in Pending(t) : r.hash \in contents
  BY <1>0, PendingKept
<1>2. ASSUME NEW template \in Templates, NEW p \in Project, CopyAllObjects(s, template, p)
      PROVE  ContentsInv'
  <2> DEFINE A == {[r EXCEPT !.project = p] : r \in LiveRows(objects, template)}
             n == [Begin("new", p) EXCEPT !.source = template, !.added = A]
  <2>1. n.added = A /\ n.stopped = {} /\ n.staged = Null
    BY DEF Begin, Idle
  <2>2. tx' = [tx EXCEPT ![s] = n] /\ UNCHANGED <<objects, contents>>
    BY <1>2 DEF CopyAllObjects
  <2>3. ASSUME NEW r \in LiveRows(objects, template)
        PROVE  [r EXCEPT !.project = p].hash \in contents
    BY <1>0 DEF LiveRows, TypeOK, Row, ContentsAvailable
  <2>4. \A a \in A : a.hash \in contents
    BY <2>3
  <2> HIDE DEF n, A
  <2> QED
    BY <1>0, <2>1, <2>2, <2>4, KeptStep DEF KeptIn, ContentsAvailable
<1>3. ASSUME CommitNewProject(s)
      PROVE  ContentsInv'
  <2>1. /\ tx' = [tx EXCEPT ![s] = Idle] /\ contents' = contents
        /\ objects' = objects \cup t.added
    BY <1>3 DEF CommitNewProject, Finish
  <2> QED
    BY <1>0, <2>1, IdleKept, KeptStep DEF Kept, KeptIn, ContentsAvailable
<1>4. ASSUME NEW source \in Project, NEW p \in Project, NEW version \in Version,
             CloneRemoved(s, source, p, version)
      PROVE  ContentsInv'
  <2> DEFINE wanted == View(objects, source, version)
             R == {r \in LiveRows(objects, p) : r.path \in toRemove(source, p, version)}
             n == [Begin("clone", p) EXCEPT
                     !.source = source, !.version = version, !.next = latest[p] + 1,
                     !.seen = wanted, !.stopped = R]
  <2>1. n.added = {} /\ n.stopped = R /\ n.staged = Null
    BY DEF Begin, Idle
  <2>2. tx' = [tx EXCEPT ![s] = n] /\ UNCHANGED <<objects, contents>>
    BY <1>4 DEF CloneRemoved
  <2>3. \A r \in R : r.hash \in contents
    BY <1>0 DEF LiveRows, ContentsAvailable
  <2> HIDE DEF n, R
  <2> QED
    BY <1>0, <2>1, <2>2, <2>3, KeptStep DEF KeptIn, ContentsAvailable
<1>5. ASSUME CommitClone(s)
      PROVE  ContentsInv'
  <2> DEFINE V == View(Pending(t), t.source, t.version)
             fresh == {e \in V : ~IsIdentical(Pending(t), t.project, e)}
  <2>1. /\ tx' = [tx EXCEPT ![s] = Idle] /\ contents' = contents
        /\ objects' = Pending(t) \cup {NewRow(t.project, t.next, e.path, e.hash) : e \in fresh}
    BY <1>5 DEF CommitClone, Finish
  <2>2. \A e \in fresh : e.hash \in contents
    BY <1>1 DEF View, updatedObjects, UpdatedRows, Entry
  <2>3. \A r \in objects' : r.hash \in contents
    BY <1>1, <2>1, <2>2 DEF NewRow
  <2> QED
    BY <1>0, <2>1, <2>3, IdleKept, KeptStep DEF Kept
<1>6. ASSUME NEW p \in Project, DeleteObjects(s, p)
      PROVE  ContentsInv'
  <2> DEFINE n == [Begin("delete", p) EXCEPT !.stopped = {r \in objects : r.project = p}]
  <2>1. n.added = {} /\ n.stopped \subseteq objects /\ n.staged = Null
    BY DEF Begin, Idle
  <2>2. tx' = [tx EXCEPT ![s] = n] /\ UNCHANGED <<objects, contents>>
    BY <1>6 DEF DeleteObjects
  <2> HIDE DEF n
  <2> QED
    BY <1>0, <2>1, <2>2, KeptStep DEF KeptIn, ContentsAvailable
<1>7. ASSUME DeleteProject(s) \/ Abort(s)
      PROVE  ContentsInv'
  <2>1. /\ tx' = [tx EXCEPT ![s] = Idle] /\ contents' = contents /\ objects' \subseteq objects
    BY <1>7 DEF DeleteProject, Abort, Finish
  <2> QED
    BY <1>0, <2>1, IdleKept, KeptStep DEF Kept, ContentsAvailable
<1> QED
  BY <1>2, <1>3, <1>4, <1>5, <1>6, <1>7 DEF ProjectStep

(* The steps outside the sessions: only a collection deletes contents, and it *)
(* spares those of committed rows; QuiescentGc says there are no others.      *)
LEMMA KeptOtherStep ==
  ASSUME QuiescentGc, TypeOK, ContentsInv, AdminStep \/ GcStep \/ UNCHANGED vars
  PROVE  ContentsInv'
<1>1. ASSUME UNCHANGED <<contents, tx>>, \A r \in objects' : r.hash \in contents
      PROVE  ContentsInv'
  BY <1>1 DEF ContentsInv, ContentsAvailable, Kept, KeptIn
<1>2. ASSUME NEW p, NEW v, NEW r \in ResetRows(objects, p, v)
      PROVE  r.hash \in contents
  <2>1. r \in objects \/ \E x \in objects : r = [x EXCEPT !.stop = Null]
    BY <1>2 DEF ResetRows
  <2> QED
    BY <2>1 DEF ContentsInv, ContentsAvailable, TypeOK, Row
<1>3. CASE AdminStep
  <2>1. ASSUME NEW p \in Project, CreateProject(p) PROVE ContentsInv'
    BY <1>1, <2>1 DEF CreateProject, ContentsInv, ContentsAvailable
  <2>2. ASSUME NEW p \in Rollbacks, NEW v \in Version, Rollback(p, v) \/ Reset(p, v)
        PROVE  ContentsInv'
    BY <1>1, <1>2, <2>2 DEF Rollback, Reset, DropOtherProjects
  <2>3. ASSUME ResetAll PROVE ContentsInv'
    <3>1. \A s \in Session : tx'[s] = Idle
      BY <2>3 DEF ResetAll
    <3> QED
      BY <2>3, <3>1 DEF ResetAll, ContentsInv, ContentsAvailable, Kept, KeptIn, Idle
  <2> QED
    BY <1>3, <2>1, <2>2, <2>3 DEF AdminStep
<1>4. CASE GcStep
  <2>1. ASSUME NEW p, NEW keep, NEW from, GcProjectObjects(p, keep, from) PROVE ContentsInv'
    BY <1>1, <2>1 DEF GcProjectObjects, ContentsInv, ContentsAvailable
  <2>2. ASSUME NEW chunk, GcContentHashes(chunk) PROVE ContentsInv'
    <3>1. \A s \in Session : tx'[s] = Idle
      BY <2>2 DEF GcContentHashes
    <3>2. ContentsAvailable'
      BY <2>2 DEF GcContentHashes, ContentsInv, ContentsAvailable
    <3> QED
      BY <3>1, <3>2 DEF ContentsInv, Kept, KeptIn, Idle
  <2>3. ASSUME NEW sample, RandomContents(sample) \/ GcFail PROVE ContentsInv'
    BY <1>1, <2>3 DEF RandomContents, GcFail, ContentsInv, ContentsAvailable
  <2> QED
    BY <1>4, <2>1, <2>2, <2>3 DEF GcStep
<1>5. CASE UNCHANGED vars
  BY <1>1, <1>5 DEF vars, ContentsInv, ContentsAvailable
<1> QED
  BY <1>3, <1>4, <1>5

(* When contents are collected only while nothing is being written, every     *)
(* committed object, live or old, keeps its contents, whatever the streams    *)
(* and whatever ids the callers use.                                          *)
THEOREM ContentsNeverLost == QuiescentGc => (Spec => []ContentsAvailable)
<1> SUFFICES ASSUME QuiescentGc PROVE Spec => []ContentsAvailable
  OBVIOUS
<1>1. Init => ContentsInv
  BY IdleKept DEF Init, ContentsInv, ContentsAvailable, Kept
<1>2. TypeOK /\ TypeOK' /\ ContentsInv /\ [Next]_vars => ContentsInv'
  BY KeptUpdateStep, KeptProjectStep, KeptOtherStep DEF Next
<1>3. ContentsInv => ContentsAvailable
  BY DEF ContentsInv
<1> QED
  BY <1>1, <1>2, <1>3, TypeCorrect, PTL DEF Spec

=============================================================================
