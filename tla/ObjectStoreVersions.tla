------------------------- MODULE ObjectStoreVersions -------------------------
(* What a version contains, for every choice of the constants: a published    *)
(* version stays as it is while it is complete, an update publishes exactly   *)
(* its batch, a clone is exact, and the store implements VersionedFs.         *)
EXTENDS ObjectStoreSafety

USE DEF Absent

-----------------------------------------------------------------------------
(* Views.                                                                     *)

(* Row r is one of the files of project p at version v.                       *)
InView(r, p, v) == r.project = p /\ r.start > 0 /\ r.start <= v /\ (Live(r) \/ r.stop > v)

LEMMA ViewRows ==
  ASSUME NEW rows, NEW p, NEW v
  PROVE  View(rows, p, v) = {Entry(r) : r \in {x \in rows : InView(x, p, v)}}
  BY DEF View, updatedObjects, UpdatedRows, InView

(* Every file of project p at version v in the rows A is one in the rows B.   *)
Covers(A, B, p, v) ==
  \A r \in A : InView(r, p, v) => \E x \in B : InView(x, p, v) /\ Entry(x) = Entry(r)

LEMMA SameView ==
  ASSUME NEW A, NEW B, NEW p, NEW v, Covers(A, B, p, v), Covers(B, A, p, v)
  PROVE  View(A, p, v) = View(B, p, v)
<1>1. /\ View(A, p, v) = {Entry(r) : r \in {x \in A : InView(x, p, v)}}
      /\ View(B, p, v) = {Entry(r) : r \in {x \in B : InView(x, p, v)}}
  BY ViewRows
<1> QED
  BY <1>1 DEF Covers

(* A lock holder that publishes changes nothing but the new version of its    *)
(* project: the rows it stops live on in the older ones, and the rows it adds *)
(* are too young for them.                                                    *)
LEMMA PublishKeeps ==
  ASSUME TypeOK, StoreInv, NEW s \in Session, HoldsLock(tx[s]), NEW A,
         \A a \in A : a.project = tx[s].project /\ a.start = tx[s].next,
         objects' = (objects \ tx[s].stopped)
                      \cup {[r EXCEPT !.stop = tx[s].next] : r \in tx[s].stopped} \cup A,
         NEW q, NEW v \in Nat, q # tx[s].project \/ v < tx[s].next
  PROVE  View(objects', q, v) = View(objects, q, v)
<1> DEFINE t == tx[s]
           stop(r) == [r EXCEPT !.stop = t.next]
<1>1. t \in Tx /\ LockInv(t) /\ t.next \in Nat
  BY NextIsNew DEF TypeOK, StoreInv
<1>2. ASSUME NEW r \in t.stopped
      PROVE  /\ r \in objects /\ r.project = t.project /\ Live(r)
             /\ stop(r).project = t.project /\ stop(r).start = r.start
             /\ stop(r).stop = t.next /\ Entry(stop(r)) = Entry(r)
  <2>1. r \in objects /\ r \in Row /\ r.project = t.project /\ Live(r)
    BY <1>1 DEF LockInv, LiveRows, TypeOK
  <2> QED
    BY <2>1 DEF Row, Entry
<1>3. ASSUME NEW r \in objects', InView(r, q, v)
      PROVE  \E x \in objects : InView(x, q, v) /\ Entry(x) = Entry(r)
  <2>1. CASE r \in objects
    BY <1>3, <2>1
  <2>2. CASE r \in A
    <3>1. r.project = q /\ r.start <= v
      BY <1>3 DEF InView
    <3> QED
      BY <1>1, <2>2, <3>1
  <2>3. CASE \E x \in t.stopped : r = stop(x)
    <3>1. PICK x \in t.stopped : r = stop(x)
      BY <2>3
    <3>2. InView(x, q, v)
      BY <1>2, <1>3, <3>1 DEF InView
    <3> QED
      BY <1>2, <3>1, <3>2
  <2> QED
    BY <2>1, <2>2, <2>3
<1>4. ASSUME NEW r \in objects, InView(r, q, v)
      PROVE  \E x \in objects' : InView(x, q, v) /\ Entry(x) = Entry(r)
  <2>1. CASE r \notin t.stopped
    BY <1>4, <2>1
  <2>2. CASE r \in t.stopped
    <3>1. stop(r) \in objects'
      BY <2>2
    <3>2. InView(stop(r), q, v)
      BY <1>1, <1>2, <1>4, <2>2 DEF InView
    <3> QED
      BY <1>2, <2>2, <3>1, <3>2
  <2> QED
    BY <2>1, <2>2
<1>5. Covers(objects', objects, q, v) /\ Covers(objects, objects', q, v)
  BY <1>3, <1>4 DEF Covers
<1> HIDE DEF t, stop
<1> QED
  BY <1>5, SameView

(* A rollback to version w keeps the other projects and every version up to w *)
(* as they were.                                                              *)
LEMMA ResetKeeps ==
  ASSUME TypeOK, NEW p, NEW w \in Nat, NEW q, NEW v \in Nat, q # p \/ v <= w
  PROVE  View(ResetRows(objects, p, w), q, v) = View(objects, q, v)
<1> DEFINE rows == ResetRows(objects, p, w)
<1>1. ASSUME NEW r \in rows, InView(r, q, v)
      PROVE  \E x \in objects : InView(x, q, v) /\ Entry(x) = Entry(r)
  <2>1. PICK x \in objects : r = Reverted(x, p, w) /\ (x.project = p => x.start <= w)
    BY ResetRowsFacts
  <2>2. x \in Row /\ x.start \in Nat /\ (Live(x) \/ x.stop \in Nat)
    BY DEF TypeOK, Row, Live
  <2>3. /\ r.project = x.project /\ r.path = x.path /\ r.start = x.start
        /\ r.stop = IF x.project = p /\ ~Live(x) /\ x.stop > w THEN Null ELSE x.stop
    BY <2>1, <2>2, RevertedFields
  <2>4. Entry(r) = Entry(x)
    BY <2>1, <2>2 DEF Entry, Reverted, Row
  <2>5. InView(x, q, v)
    BY <1>1, <2>2, <2>3 DEF InView, Live
  <2> QED
    BY <2>4, <2>5
<1>2. ASSUME NEW r \in objects, InView(r, q, v)
      PROVE  \E x \in rows : InView(x, q, v) /\ Entry(x) = Entry(r)
  <2>0. r \in Row /\ r.start \in Nat
    BY DEF TypeOK, Row
  <2>1. r.project = p => r.start <= w
    BY <1>2, <2>0 DEF InView
  <2>2. CASE r.project = p /\ ~Live(r) /\ r.stop > w
    <3>1. [r EXCEPT !.stop = Null] \in rows
      BY <2>1, <2>2 DEF ResetRows
    <3>2. InView([r EXCEPT !.stop = Null], q, v) /\ Entry([r EXCEPT !.stop = Null]) = Entry(r)
      BY <1>2, <2>0 DEF InView, Entry, Row, Live
    <3> QED
      BY <3>1, <3>2
  <2>3. CASE ~(r.project = p /\ ~Live(r) /\ r.stop > w)
    <3>1. r \in rows
      BY <2>1, <2>3 DEF ResetRows
    <3> QED
      BY <1>2, <3>1
  <2> QED
    BY <2>2, <2>3
<1>3. Covers(rows, objects, q, v) /\ Covers(objects, rows, q, v)
  BY <1>1, <1>2 DEF Covers
<1> HIDE DEF rows
<1>4. View(rows, q, v) = View(objects, q, v)
  BY <1>3, SameView
<1> QED
  BY <1>4 DEF rows

(* Rows that agree on the files of a version show the same version.           *)
LEMMA SameRows ==
  ASSUME NEW A, NEW B, NEW p, NEW v, \A r : InView(r, p, v) => (r \in A <=> r \in B)
  PROVE  View(A, p, v) = View(B, p, v)
<1>1. Covers(A, B, p, v) /\ Covers(B, A, p, v)
  BY DEF Covers
<1> QED
  BY <1>1, SameView

(* The steps that write the tables of projects and objects.                   *)
Writes ==
  \/ \E s \in Session : \/ CommitUpdate(s) \/ CommitClone(s)
                        \/ CommitNewProject(s) \/ DeleteProject(s)
  \/ \E p \in Project : CreateProject(p)
  \/ \E p \in Rollbacks, w \in Version : Rollback(p, w) \/ Reset(p, w)
  \/ ResetAll
  \/ \E p \in Project, keep \in Keeps, from \in Froms : GcProjectObjects(p, keep, from)

LEMMA StepWrites ==
  ASSUME [Next]_vars
  PROVE  Writes \/ UNCHANGED <<latest, objects, floor>>
<1>1. ASSUME NEW s \in Session, UpdateStep(s)
      PROVE  CommitUpdate(s) \/ UNCHANGED <<latest, objects, floor>>
  BY <1>1 DEF UpdateStep, LockLatestVersion, DeleteObject, InsertContent, IdenticalObject,
              UpdateObject, IdenticalPack, UpdatePackedObjects, UnchangedUpdate
<1>2. ASSUME NEW s \in Session, ProjectStep(s)
      PROVE  \/ CommitClone(s) \/ CommitNewProject(s) \/ DeleteProject(s)
             \/ UNCHANGED <<latest, objects, floor>>
  BY <1>2 DEF ProjectStep, CopyAllObjects, CloneRemoved, DeleteObjects, Abort
<1>3. CASE AdminStep
  BY <1>3 DEF AdminStep, Writes
<1>4. CASE GcStep
  BY <1>4 DEF GcStep, RandomContents, GcContentHashes, GcFail, Writes
<1>5. CASE UNCHANGED vars
  BY <1>5 DEF vars
<1> QED
  BY <1>1, <1>2, <1>3, <1>4, <1>5 DEF Next, Writes

(* The transactions that publish a version, and what they add to its rows.    *)
Publishes(s) == CommitUpdate(s) \/ CommitClone(s)

LEMMA Publishing ==
  ASSUME TypeOK, StoreInv, NEW s \in Session, Publishes(s)
  PROVE  /\ tx[s] \in Tx /\ HoldsLock(tx[s]) /\ LockInv(tx[s]) /\ tx[s].project \in Project
         /\ latest' = [latest EXCEPT ![tx[s].project] = tx[s].next]
         /\ floor' = floor /\ Finish(s)
         /\ \E A : /\ \A a \in A : a.project = tx[s].project /\ a.start = tx[s].next
                  /\ objects' = (objects \ tx[s].stopped)
                       \cup {[r EXCEPT !.stop = tx[s].next] : r \in tx[s].stopped} \cup A
<1> DEFINE t == tx[s]
           rows == Pending(t)
           fresh == {e \in View(rows, t.source, t.version) : ~IsIdentical(rows, t.project, e)}
           A == {NewRow(t.project, t.next, e.path, e.hash) : e \in fresh}
<1>1. t \in Tx /\ HoldsLock(t) /\ LockInv(t) /\ UpdateInv(t) /\ CloneInv(t)
  BY DEF Publishes, CommitUpdate, CommitClone, TypeOK, StoreInv, HoldsLock
<1>2. CASE CommitUpdate(s)
  <2>1. objects' = (objects \ t.stopped)
                     \cup {[r EXCEPT !.stop = t.next] : r \in t.stopped} \cup t.added
    BY <1>2 DEF CommitUpdate, Pending
  <2>2. \A a \in t.added : a.project = t.project /\ a.start = t.next
    BY <1>1, <1>2 DEF UpdateInv, CommitUpdate
  <2> QED
    BY <1>1, <1>2, <2>1, <2>2 DEF CommitUpdate, HoldsLock, Tx
<1>3. CASE CommitClone(s)
  <2>1. objects' = (objects \ t.stopped)
                     \cup {[r EXCEPT !.stop = t.next] : r \in t.stopped} \cup A
    BY <1>1, <1>3 DEF CommitClone, CloneInv, Pending
  <2>2. \A a \in A : a.project = t.project /\ a.start = t.next
    BY DEF NewRow
  <2> HIDE DEF A
  <2> QED
    BY <1>1, <1>3, <2>1, <2>2 DEF CommitClone, HoldsLock, Tx
<1> QED
  BY <1>2, <1>3 DEF Publishes

(* A version that is complete before and after a step is the same: whatever   *)
(* the step publishes, discards or collects.                                  *)
LEMMA VersionKept ==
  ASSUME SafeUse, TypeOK, StoreInv, [Next]_vars, NEW q \in Project, NEW v \in Nat,
         v <= latest[q], floor'[q] <= v, v <= latest'[q]
  PROVE  View(objects', q, v) = View(objects, q, v)
<1>0. latest[q] # Absent /\ latest'[q] # Absent
  OBVIOUS
<1>1. ASSUME NEW s \in Session, Publishes(s)
      PROVE  View(objects', q, v) = View(objects, q, v)
  <2> DEFINE t == tx[s]
  <2>1. PICK A : /\ \A a \in A : a.project = t.project /\ a.start = t.next
                 /\ objects' = (objects \ t.stopped)
                      \cup {[r EXCEPT !.stop = t.next] : r \in t.stopped} \cup A
    BY <1>1, Publishing
  <2>2. HoldsLock(t) /\ LockInv(t)
    BY <1>1, Publishing
  <2>3. q # t.project \/ v < t.next
    BY <1>0, <2>2 DEF LockInv, TypeOK
  <2> QED
    BY <2>1, <2>2, <2>3, PublishKeeps
<1>3. ASSUME NEW s \in Session, CommitNewProject(s)
      PROVE  View(objects', q, v) = View(objects, q, v)
  <2>1. /\ tx[s].project \notin used /\ objects' = objects \cup tx[s].added
        /\ \A a \in tx[s].added : a.project = tx[s].project
    BY <1>3 DEF CommitNewProject, StoreInv, NewInv
  <2>2. q # tx[s].project
    BY <1>0, <2>1 DEF StoreInv, UsedInv
  <2> QED
    BY <2>1, <2>2, SameRows DEF InView
<1>4. ASSUME NEW s \in Session, DeleteProject(s)
      PROVE  View(objects', q, v) = View(objects, q, v)
  <2>1. q # tx[s].project
    BY <1>0, <1>4 DEF DeleteProject, TypeOK
  <2> QED
    BY <1>4, <2>1, SameRows DEF InView, DeleteProject
<1>5. ASSUME NEW p \in Rollbacks, NEW w \in Version, Rollback(p, w)
      PROVE  View(objects', q, v) = View(objects, q, v)
  <2>1. w \in Nat /\ p \in Project
    BY StoreAssumption DEF Version
  <2>2. q # p \/ v <= w
    BY <1>0, <1>5, <2>1 DEF Rollback, ResetVersion, TypeOK
  <2> QED
    BY <1>5, <2>1, <2>2, ResetKeeps DEF Rollback
<1>6. ASSUME NEW p \in Rollbacks, NEW w \in Version, Reset(p, w)
      PROVE  View(objects', q, v) = View(objects, q, v)
  <2>1. w \in Nat /\ p \in Project
    BY StoreAssumption DEF Version
  <2>2. q = p /\ v <= w
    BY <1>0, <1>6, <2>1 DEF Reset, ResetVersion, TypeOK
  <2>3. View(objects', q, v) = View(ResetRows(objects, p, w), q, v)
    BY <1>6, <2>2, SameRows DEF InView, Reset, DropOtherProjects
  <2> QED
    BY <2>1, <2>2, <2>3, ResetKeeps
<1>7. ASSUME NEW p \in Project, NEW keep \in Keeps, NEW from \in Froms,
             GcProjectObjects(p, keep, from)
      PROVE  View(objects', q, v) = View(objects, q, v)
  <2>0. keep \in Nat /\ latest[p] \in Int /\ floor[p] \in Nat
    BY StoreAssumption DEF TypeOK
  <2>1. q = p => latest[p] - keep <= v
    BY <1>7, <2>0 DEF GcProjectObjects, TypeOK
  <2>2. ASSUME NEW r \in GcDead(p, keep, from) PROVE ~InView(r, q, v)
    <3>1. /\ r.project = p /\ ~Live(r) /\ r.stop <= latest[p] - keep
          /\ r.stop \in Nat
      BY DEF GcDead, TypeOK, Row, Live
    <3> QED
      BY <2>0, <2>1, <3>1 DEF InView
  <2>3. objects' = objects \ GcDead(p, keep, from)
    BY <1>7 DEF GcProjectObjects
  <2> QED
    BY <2>2, <2>3, SameRows
<1>8. CASE ResetAll
  BY <1>0, <1>8 DEF ResetAll
<1>9. CASE \E p \in Project : CreateProject(p)
  BY <1>9 DEF CreateProject
<1> QED
  BY <1>1, <1>3, <1>4, <1>5, <1>6, <1>7, <1>8, <1>9, StepWrites DEF Writes, Publishes

-----------------------------------------------------------------------------
(* A session that holds a project's lock is alone with its live rows.         *)
LEMMA LockedRows ==
  ASSUME SafeUse, TypeOK, StoreInv, [Next]_vars, NEW s \in Session,
         HoldsLock(tx[s]), tx'[s] = tx[s]
  PROVE  LiveRows(objects', tx[s].project) = LiveRows(objects, tx[s].project)
<1> DEFINE p == tx[s].project
<1>0. /\ tx[s] # Idle /\ p \in Project /\ p \in used
  <2>1. tx[s] \in Tx /\ LockInv(tx[s])
    BY DEF TypeOK, StoreInv
  <2> QED
    BY <2>1 DEF HoldsLock, Idle, Tx, LockInv, StoreInv, UsedInv
<1>1. ASSUME NEW s2 \in Session, Publishes(s2)
      PROVE  LiveRows(objects', p) = LiveRows(objects, p)
  <2> DEFINE t == tx[s2]
  <2>1. PICK A : /\ \A a \in A : a.project = t.project /\ a.start = t.next
                 /\ objects' = (objects \ t.stopped)
                      \cup {[r EXCEPT !.stop = t.next] : r \in t.stopped} \cup A
    BY <1>1, Publishing
  <2>2. HoldsLock(t) /\ LockInv(t) /\ Finish(s2)
    BY <1>1, Publishing
  <2>3. s2 # s
    BY <1>0, <2>2 DEF Finish, TypeOK
  <2>4. t.project # p
    BY <2>2, <2>3 DEF StoreInv, Alone
  <2>5. ASSUME NEW r \in t.stopped
        PROVE  r.project # p /\ [r EXCEPT !.stop = t.next].project # p
    BY <2>2, <2>4 DEF LockInv, LiveRows, TypeOK, Row
  <2> HIDE DEF p, t
  <2>6. ASSUME NEW r, r.project = p
        PROVE  r \in objects' <=> r \in objects
    BY <2>1, <2>4, <2>5, <2>6
  <2> QED
    BY <2>6 DEF LiveRows
<1>2. ASSUME NEW s2 \in Session, CommitNewProject(s2)
      PROVE  LiveRows(objects', p) = LiveRows(objects, p)
  <2>1. /\ tx[s2].project \notin used /\ objects' = objects \cup tx[s2].added
        /\ \A a \in tx[s2].added : a.project = tx[s2].project
    BY <1>2 DEF CommitNewProject, StoreInv, NewInv
  <2> QED
    BY <1>0, <2>1 DEF LiveRows
<1>3. ASSUME NEW s2 \in Session, DeleteProject(s2)
      PROVE  LiveRows(objects', p) = LiveRows(objects, p)
  <2>1. tx[s2].project # p
    BY <1>3 DEF DeleteProject, Locked, HoldsLock
  <2> QED
    BY <1>3, <2>1 DEF DeleteProject, LiveRows
<1>4. ASSUME NEW q \in Rollbacks, NEW w \in Version, Rollback(q, w)
      PROVE  LiveRows(objects', p) = LiveRows(objects, p)
  <2>1. q # p
    BY <1>4 DEF Rollback, Locked, HoldsLock
  <2>2. ASSUME NEW r \in objects, r.project # p
        PROVE  [r EXCEPT !.stop = Null].project # p
    BY <2>2 DEF TypeOK, Row
  <2> QED
    BY <1>4, <2>1, <2>2 DEF Rollback, ResetRows, LiveRows
<1>5. ASSUME NEW q \in Rollbacks, NEW w \in Version, Reset(q, w)
      PROVE  FALSE
  BY <1>0, <1>5 DEF Reset, Locked, HoldsLock
<1>6. ASSUME NEW q \in Project, NEW keep \in Keeps, NEW from \in Froms,
             GcProjectObjects(q, keep, from)
      PROVE  LiveRows(objects', p) = LiveRows(objects, p)
  BY <1>6 DEF GcProjectObjects, GcDead, LiveRows
<1>7. ~ResetAll
  BY <1>0 DEF ResetAll
<1>8. CASE \E q \in Project : CreateProject(q)
  BY <1>8 DEF CreateProject
<1> QED
  BY <1>1, <1>2, <1>3, <1>4, <1>5, <1>6, <1>7, <1>8, StepWrites DEF Writes, Publishes

-----------------------------------------------------------------------------
(* What the transactions that publish a version have done so far.             *)

(* How the transaction of a session that holds a lock may change.             *)
TxChange(s) ==
  \/ tx'[s] = tx[s]
  \/ ~HoldsLock(tx'[s])
  \/ \E p \in Project, batch \in Streams : LockLatestVersion(s, p, batch)
  \/ \E u \in tx[s].todo : InsertContent(s, u)
  \/ \E u \in tx[s].todo : \E n, R, new : Written(s, u, n, R, new)
  \/ \E source \in Project, p \in Project, version \in Version :
       CloneRemoved(s, source, p, version)

LEMMA TxChanges ==
  ASSUME TypeOK, StoreInv, [Next]_vars, NEW s \in Session
  PROVE  TxChange(s)
<1>1. ASSUME NEW s2 \in Session, UpdateStep(s2) \/ ProjectStep(s2), s2 # s
      PROVE  tx'[s] = tx[s]
  <2>1. CASE UpdateStep(s2)
    BY <1>1, <2>1 DEF UpdateStep, LockLatestVersion, DeleteObject, InsertContent,
         IdenticalObject, UpdateObject, IdenticalPack, UpdatePackedObjects,
         UnchangedUpdate, CommitUpdate, Finish, TypeOK
  <2>2. CASE ProjectStep(s2)
    BY <1>1, <2>2 DEF ProjectStep, CopyAllObjects, CommitNewProject, CloneRemoved,
         CommitClone, DeleteObjects, DeleteProject, Abort, Finish, TypeOK
  <2> QED
    BY <1>1, <2>1, <2>2
<1>2. ASSUME Finish(s) PROVE TxChange(s)
  BY <1>2 DEF Finish, TypeOK, Idle, HoldsLock, TxChange
<1>3. CASE UpdateStep(s)
  <2>1. CASE CommitUpdate(s) \/ UnchangedUpdate(s)
    BY <1>2, <2>1 DEF CommitUpdate, UnchangedUpdate
  <2>2. CASE \E u \in tx[s].todo : \/ DeleteObject(s, u) \/ UpdateObject(s, u)
                                  \/ UpdatePackedObjects(s, u)
                                  \/ IdenticalObject(s, u) \/ IdenticalPack(s, u)
    BY <2>2, WrittenDelete, WrittenObject, WrittenPack, WrittenIdentical DEF TxChange
  <2> QED
    BY <1>3, <2>1, <2>2 DEF UpdateStep, TxChange
<1>4. CASE ProjectStep(s)
  <2>1. CASE CommitNewProject(s) \/ CommitClone(s) \/ DeleteProject(s) \/ Abort(s)
    BY <1>2, <2>1 DEF CommitNewProject, CommitClone, DeleteProject, Abort
  <2>2. CASE \/ \E template \in Templates, p \in Project : CopyAllObjects(s, template, p)
             \/ \E p \in Project : DeleteObjects(s, p)
    <3>1. ASSUME NEW p, NEW template, CopyAllObjects(s, template, p)
          PROVE  tx'[s].op = "new"
      BY <3>1 DEF CopyAllObjects, Begin, Idle, TypeOK
    <3>2. ASSUME NEW p, DeleteObjects(s, p)
          PROVE  tx'[s].op = "delete"
      BY <3>2 DEF DeleteObjects, Begin, Idle, TypeOK
    <3> QED
      BY <2>2, <3>1, <3>2 DEF HoldsLock, TxChange
  <2> QED
    BY <1>4, <2>1, <2>2 DEF ProjectStep, TxChange
<1>5. CASE AdminStep \/ GcStep \/ UNCHANGED vars
  BY <1>5 DEF AdminStep, GcStep, CreateProject, Rollback, Reset, ResetAll, GcProjectObjects,
              RandomContents, GcContentHashes, GcFail, vars, TxChange
<1> QED
  BY <1>1, <1>3, <1>4, <1>5 DEF Next, TxChange

(* A clone stops only files that the source does not have.                    *)
CloneStops(t) == t.op = "clone" => \A r \in t.stopped : Entry(r) \notin t.seen

(* The files of the version that an update is about to publish.               *)
Unpublished(t) == (LiveRows(objects, t.project) \ t.stopped) \cup t.added

(* An update has written the objects of its batch that are no longer to do,   *)
(* and, directory markers aside, touched no other path.                       *)
BatchInv(t) ==
  t.op = "update" =>
    /\ DistinctPaths(t.batch) /\ t.todo \subseteq t.batch
    /\ \A u \in t.batch \ t.todo : u.path \notin Dir =>
         /\ u.hash # Null => \E r \in Unpublished(t) : Entry(r) = Entry(u)
         /\ \A r \in Unpublished(t) : r.path = u.path => Entry(r) = Entry(u)
    /\ \A r \in t.added \cup t.stopped : r.path \notin Dir =>
         \E u \in t.batch \ t.todo : u.path = r.path

WritesInv == \A s \in Session : CloneStops(tx[s]) /\ BatchInv(tx[s])

LEMMA CloneStopsKept ==
  ASSUME TypeOK, StoreInv, NEW s \in Session, CloneStops(tx[s]), TxChange(s)
  PROVE  CloneStops(tx'[s])
<1>1. CASE tx'[s] = tx[s] \/ ~HoldsLock(tx'[s])
  BY <1>1 DEF CloneStops, HoldsLock
<1>2. ASSUME NEW p \in Project, NEW batch \in Streams, LockLatestVersion(s, p, batch)
      PROVE  CloneStops(tx'[s])
  BY <1>2 DEF LockLatestVersion, Begin, Idle, TypeOK, CloneStops
<1>3. ASSUME NEW u \in tx[s].todo, InsertContent(s, u)
      PROVE  CloneStops(tx'[s])
  BY <1>3 DEF InsertContent, Current, TypeOK, Tx, TxRecord, CloneStops
<1>4. ASSUME NEW u \in tx[s].todo, NEW n, NEW R, NEW new, Written(s, u, n, R, new)
      PROVE  CloneStops(tx'[s])
  BY <1>4 DEF Written, TypeOK, CloneStops
<1>5. ASSUME NEW source \in Project, NEW p \in Project, NEW version \in Version,
             CloneRemoved(s, source, p, version)
      PROVE  CloneStops(tx'[s])
  <2> DEFINE R == {r \in LiveRows(objects, p) : r.path \in toRemove(source, p, version)}
             seen == View(objects, source, version)
  <2>1. tx'[s].stopped = R /\ tx'[s].seen = seen
    BY <1>5 DEF CloneRemoved, Begin, Idle, TypeOK
  <2>2. latest[p] \in Nat
    BY <1>5 DEF CloneRemoved, TypeOK
  <2>3. ASSUME NEW r \in R PROVE Entry(r) \notin seen
    <3>1. r \in objects /\ r \in Row /\ Live(r) /\ r.project = p
      BY DEF LiveRows, TypeOK
    <3>2. r.start > 0 /\ r.start <= latest[p]
      BY <2>2, <3>1 DEF StoreInv, NoFutureRows, Row
    <3>3. Entry(r) \in View(objects, p, latest[p]) /\ Entry(r).path = r.path
      BY <3>1, <3>2 DEF View, updatedObjects, UpdatedRows, Entry
    <3>4. PICK e \in View(objects, p, latest[p]) \ seen : e.path = r.path
      BY DEF toRemove
    <3>5. Entry(r) = e
      BY <2>2, <3>3, <3>4, ViewUnique DEF StoreInv
    <3> QED
      BY <3>4, <3>5
  <2> QED
    BY <2>1, <2>3 DEF CloneStops
<1> QED
  BY <1>1, <1>2, <1>3, <1>4, <1>5 DEF TxChange

(* Writing an object settles its path and no other.                           *)
LEMMA BatchWritten ==
  ASSUME TypeOK, StoreInv, NEW s \in Session, BatchInv(tx[s]),
         NEW u \in tx[s].todo, NEW n, NEW R, NEW new, Written(s, u, n, R, new)
  PROVE  BatchInv(tx[s])'
<1> DEFINE t == tx[s]
           a == NewRow(t.project, t.next, u.path, u.hash)
           old == Unpublished(t)
           rows == Unpublished(n)
<1>1. /\ t \in Tx /\ t.op = "update" /\ LockInv(t) /\ UpdateInv(t)
      /\ tx'[s] = n /\ objects' = objects
  BY DEF TypeOK, StoreInv, Written
<1>2. /\ DistinctPaths(t.batch) /\ t.todo \subseteq t.batch
      /\ n.batch = t.batch /\ n.todo = t.todo \ {u} /\ n.project = t.project
      /\ n.stopped = t.stopped \cup R /\ n.added = t.added \cup new
  BY <1>1 DEF BatchInv, Written
<1>3. /\ \A r \in R : r.path = u.path \/ r.path \in Dir
      /\ \A r \in new : r.path = u.path /\ Entry(r) = Entry(u)
      /\ R \subseteq LiveRows(objects, t.project)
  BY DEF Written, NewRow, Entry
<1>4. \A r : r.path # u.path /\ r.path \notin Dir => (r \in rows <=> r \in old)
  BY <1>2, <1>3 DEF Unpublished
<1>5. ASSUME NEW w \in t.batch \ n.todo, w.path \notin Dir
      PROVE  /\ w.hash # Null => \E r \in rows : Entry(r) = Entry(w)
             /\ \A r \in rows : r.path = w.path => Entry(r) = Entry(w)
  <2>1. CASE w # u
    <3>1. w \in t.batch \ t.todo /\ w.path # u.path
      BY <1>2, <1>5, <2>1 DEF DistinctPaths
    <3>2. /\ w.hash # Null => \E r \in old : Entry(r) = Entry(w)
          /\ \A r \in old : r.path = w.path => Entry(r) = Entry(w)
      BY <1>1, <1>5, <3>1 DEF BatchInv
    <3>3. \A r : Entry(r) = Entry(w) => r.path = w.path
      BY DEF Entry
    <3> HIDE DEF rows, old
    <3> QED
      BY <1>4, <1>5, <3>1, <3>2, <3>3
  <2>2. CASE w = u
    <3>1. \A b \in t.added : b.path # u.path
      BY <1>1 DEF UpdateInv
    <3>2. CASE /\ R = {} /\ new = {}
               /\ \E r \in LiveRows(objects, t.project) \ t.stopped : Entry(r) = Entry(u)
      <4>1. PICK r \in LiveRows(objects, t.project) \ t.stopped : Entry(r) = Entry(u)
        BY <3>2
      <4>2. r.path = u.path
        BY <4>1 DEF Entry
      <4>3. r \in rows
        BY <1>2, <3>2 DEF Unpublished
      <4>4. \A x \in rows : x.path = u.path => x = r
        BY <1>2, <3>1, <3>2, <4>2, LiveUnique DEF Unpublished, StoreInv
      <4> QED
        BY <2>2, <4>1, <4>3, <4>4
    <3>3. CASE /\ new = IF u.hash = Null THEN {} ELSE {a}
               /\ \A r \in LiveRows(objects, t.project) : r.path = u.path => r \in t.stopped \cup R
      <4>1. \A x \in rows : x.path = u.path => x \in new
        BY <1>2, <3>1, <3>3 DEF Unpublished
      <4>2. new \subseteq rows
        BY <1>2 DEF Unpublished
      <4> QED
        BY <1>3, <2>2, <3>3, <4>1, <4>2
    <3> QED
      BY <3>2, <3>3 DEF Written
  <2> QED
    BY <2>1, <2>2
<1>6. ASSUME NEW r \in n.added \cup n.stopped, r.path \notin Dir
      PROVE  \E w \in t.batch \ n.todo : w.path = r.path
  <2>1. CASE r \in t.added \cup t.stopped
    BY <1>1, <1>2, <1>6, <2>1 DEF BatchInv
  <2>2. CASE r \in R \cup new
    BY <1>2, <1>3, <1>6, <2>2
  <2> QED
    BY <1>2, <1>6, <2>1, <2>2
<1> HIDE DEF rows, old
<1>7. rows = Unpublished(tx[s])'
  BY <1>1 DEF rows, Unpublished
<1> QED
  BY <1>1, <1>2, <1>5, <1>6, <1>7 DEF BatchInv

LEMMA BatchKept ==
  ASSUME SafeUse, TypeOK, StoreInv, [Next]_vars, NEW s \in Session, BatchInv(tx[s]), TxChange(s)
  PROVE  BatchInv(tx[s])'
<1>1. CASE tx'[s] = tx[s]
  <2>1. SUFFICES ASSUME tx[s].op = "update" PROVE BatchInv(tx[s])'
    BY <1>1 DEF BatchInv
  <2>2. LiveRows(objects', tx[s].project) = LiveRows(objects, tx[s].project)
    BY <1>1, <2>1, LockedRows DEF HoldsLock
  <2> QED
    BY <1>1, <2>2 DEF BatchInv, Unpublished
<1>2. CASE ~HoldsLock(tx'[s])
  BY <1>2 DEF BatchInv, HoldsLock
<1>3. ASSUME NEW p \in Project, NEW batch \in Streams, LockLatestVersion(s, p, batch)
      PROVE  BatchInv(tx[s])'
  <2>1. /\ tx'[s].batch = batch /\ tx'[s].todo = batch
        /\ tx'[s].added = {} /\ tx'[s].stopped = {}
    BY <1>3 DEF LockLatestVersion, Begin, Idle, TypeOK
  <2> QED
    BY <2>1 DEF SafeUse, BatchInv
<1>4. ASSUME NEW u \in tx[s].todo, InsertContent(s, u)
      PROVE  BatchInv(tx[s])'
  <2>1. /\ tx'[s].op = tx[s].op /\ tx'[s].project = tx[s].project
        /\ tx'[s].batch = tx[s].batch /\ tx'[s].todo = tx[s].todo
        /\ tx'[s].added = tx[s].added /\ tx'[s].stopped = tx[s].stopped
        /\ objects' = objects
    BY <1>4 DEF InsertContent, TypeOK, Tx, TxRecord
  <2> QED
    BY <2>1 DEF BatchInv, Unpublished
<1>5. ASSUME NEW source \in Project, NEW p \in Project, NEW version \in Version,
             CloneRemoved(s, source, p, version)
      PROVE  BatchInv(tx[s])'
  <2>1. tx'[s].op = "clone"
    BY <1>5 DEF CloneRemoved, Begin, Idle, TypeOK
  <2> QED
    BY <2>1 DEF BatchInv
<1> QED
  BY <1>1, <1>2, <1>3, <1>4, <1>5, BatchWritten DEF TxChange

(* Under SafeUse every open update has written what is no longer to do.       *)
THEOREM WritesInvariant == SafeUse => (Spec => []WritesInv)
<1> SUFFICES ASSUME SafeUse PROVE Spec => []WritesInv
  OBVIOUS
<1>1. Init => WritesInv
  BY DEF Init, Idle, WritesInv, CloneStops, BatchInv
<1>2. TypeOK /\ StoreInv /\ WritesInv /\ [Next]_vars => WritesInv'
  <2> SUFFICES ASSUME TypeOK, StoreInv, WritesInv, [Next]_vars, NEW s \in Session
               PROVE  CloneStops(tx'[s]) /\ BatchInv(tx[s])'
    BY DEF WritesInv, CloneStops
  <2> QED
    BY TxChanges, CloneStopsKept, BatchKept DEF WritesInv
<1> QED
  BY <1>1, <1>2, TypeCorrect, StructureInvariant, PTL DEF Spec

(* The rows of a version that a lock holder publishes are the live ones.      *)
LEMMA PublishedRows ==
  ASSUME TypeOK, StoreInv, NEW s \in Session, HoldsLock(tx[s]), NEW A,
         \A a \in A : a.project = tx[s].project /\ a.start = tx[s].next /\ Live(a),
         objects' = (objects \ tx[s].stopped)
                      \cup {[r EXCEPT !.stop = tx[s].next] : r \in tx[s].stopped} \cup A,
         NEW r
  PROVE  (r \in objects' /\ InView(r, tx[s].project, tx[s].next)) <=>
         (r \in (LiveRows(objects, tx[s].project) \ tx[s].stopped) \cup A)
<1> DEFINE t == tx[s]
<1>1. t \in Tx /\ LockInv(t) /\ t.next \in Nat \ {0}
  BY NextIsNew DEF TypeOK, StoreInv, HoldsLock, Tx
<1>2. ASSUME NEW x \in t.stopped
      PROVE  ~InView([x EXCEPT !.stop = t.next], t.project, t.next)
  <2>1. x \in Row
    BY <1>1 DEF LockInv, LiveRows, TypeOK
  <2>2. [x EXCEPT !.stop = t.next].stop = t.next
    BY <2>1 DEF Row
  <2> QED
    BY <1>1, <2>2, PathAssumption DEF InView, Live
<1>3. ASSUME r \in objects \ t.stopped
      PROVE  InView(r, t.project, t.next) <=> r \in LiveRows(objects, t.project)
  <2>1. r \in Row /\ r.start \in Nat \ {0} /\ (Live(r) \/ r.stop \in Nat)
    BY <1>3 DEF TypeOK, Row, Live
  <2>2. r.project = t.project => r.start < t.next /\ (Live(r) \/ r.stop < t.next)
    BY <1>3, NextIsNew
  <2> QED
    BY <1>1, <1>3, <2>1, <2>2 DEF InView, LiveRows
<1>4. ASSUME r \in A PROVE InView(r, t.project, t.next)
  BY <1>1, <1>4 DEF InView
<1>5. LiveRows(objects, t.project) \subseteq objects
  BY DEF LiveRows
<1> HIDE DEF t
<1> QED
  BY <1>2, <1>3, <1>4, <1>5 DEF t

LEMMA CommittedClone ==
  ASSUME SafeUse, TypeOK, StoreInv, WritesInv, NEW s \in Session, CommitClone(s)
  PROVE  View(objects', tx[s].project, tx[s].next) = tx[s].seen
<1> DEFINE t == tx[s]
           rows == Pending(t)
           fresh == {e \in View(rows, t.source, t.version) : ~IsIdentical(rows, t.project, e)}
           A == {NewRow(t.project, t.next, e.path, e.hash) : e \in fresh}
           new == {x \in objects' : InView(x, t.project, t.next)}
<1>1. /\ t \in Tx /\ HoldsLock(t) /\ LockInv(t) /\ CloneInv(t) /\ t.op = "clone"
      /\ t.added = {} /\ CloneStops(t)
  BY DEF CommitClone, TypeOK, StoreInv, HoldsLock, CloneInv, WritesInv
<1>2. t.seen = View(objects, t.source, t.version)
  BY DEF CommitClone, SafeUse
<1>3. objects' = (objects \ t.stopped)
                   \cup {[r EXCEPT !.stop = t.next] : r \in t.stopped} \cup A
  BY <1>1 DEF CommitClone, Pending
<1>4. \A a \in A : a.project = t.project /\ a.start = t.next /\ Live(a)
  BY DEF NewRow, Live
<1>5. \A r : r \in new <=> r \in (LiveRows(objects, t.project) \ t.stopped) \cup A
  <2> HIDE DEF A
  <2> QED
    BY <1>1, <1>3, <1>4, PublishedRows
<1>6. ASSUME NEW r \in new PROVE Entry(r) \in t.seen
  <2>1. CASE r \in LiveRows(objects, t.project) \ t.stopped
    BY <1>1, <2>1 DEF CloneInv
  <2>2. CASE r \in A
    <3>1. PICK e \in fresh : r = NewRow(t.project, t.next, e.path, e.hash)
      BY <2>2
    <3>2. e \in t.seen
      BY <1>1, <1>2, CloneReads
    <3>3. e \in [path : Path, hash : Hash]
      BY <1>1, <3>2 DEF Tx, TxRecord
    <3>4. Entry(r) = e
      BY <3>1, <3>3 DEF NewRow, Entry
    <3> QED
      BY <3>2, <3>4
  <2> QED
    BY <1>5, <2>1, <2>2
<1>7. ASSUME NEW e \in t.seen PROVE \E r \in new : Entry(r) = e
  <2>1. PICK x \in objects : InView(x, t.source, t.version) /\ Entry(x) = e
    BY <1>2, ViewRows
  <2>2. x \in rows
    BY <1>1, <2>1 DEF CloneStops, Pending
  <2>3. e \in View(rows, t.source, t.version)
    BY <2>1, <2>2, ViewRows
  <2>4. CASE IsIdentical(rows, t.project, e)
    <3>1. PICK r \in LiveRows(rows, t.project) : Entry(r) = e
      BY <2>4 DEF IsIdentical
    <3>2. r \in LiveRows(objects, t.project) \ t.stopped
      BY <1>1, <3>1, PendingLive DEF LiveRows
    <3> QED
      BY <1>5, <3>1, <3>2
  <2>5. CASE ~IsIdentical(rows, t.project, e)
    <3> DEFINE a == NewRow(t.project, t.next, e.path, e.hash)
    <3>1. a \in A
      BY <2>3, <2>5
    <3>2. e \in [path : Path, hash : Hash]
      BY <1>1 DEF Tx, TxRecord
    <3>3. Entry(a) = e
      BY <3>2 DEF NewRow, Entry
    <3> QED
      BY <1>5, <3>1, <3>3
  <2> QED
    BY <2>4, <2>5
<1>8. View(objects', t.project, t.next) = {Entry(r) : r \in new}
  BY ViewRows
<1> HIDE DEF t, new
<1>9. {Entry(r) : r \in new} = t.seen
  BY <1>6, <1>7
<1> QED
  BY <1>8, <1>9 DEF t

(* Under SafeUse a clone publishes exactly the files its source had at the    *)
(* version asked for: CloneToProject's two statements read them apart.        *)
THEOREM ClonesExact == SafeUse => (Spec => CloneExact)
<1> SUFFICES ASSUME SafeUse PROVE Spec => CloneExact
  OBVIOUS
<1>1. TypeOK /\ StoreInv /\ WritesInv /\ [Next]_vars =>
        [\A s \in Session :
           CommitClone(s) => View(objects', tx[s].project, tx[s].next) = tx[s].seen]_vars
  BY CommittedClone
<1> QED
  BY <1>1, TypeCorrect, StructureInvariant, WritesInvariant, PTL DEF Spec, CloneExact

(* The files of the latest version, and of any later one, are the live rows.  *)
LEMMA LatestView ==
  ASSUME TypeOK, NoFutureRows, NEW p \in Project, latest[p] # Absent,
         NEW v \in Nat, latest[p] <= v
  PROVE  View(objects, p, v) = {Entry(r) : r \in LiveRows(objects, p)}
<1>1. ASSUME NEW r \in objects
      PROVE  InView(r, p, v) <=> r.project = p /\ Live(r)
  <2>1. r.start \in Nat \ {0} /\ (Live(r) \/ r.stop \in Nat) /\ latest[p] \in Nat
    BY DEF TypeOK, Row, Live
  <2>2. r.project = p => r.start <= latest[p] /\ (Live(r) \/ r.stop <= latest[p])
    BY DEF NoFutureRows
  <2> QED
    BY <2>1, <2>2 DEF InView
<1>2. {x \in objects : InView(x, p, v)} = LiveRows(objects, p)
  BY <1>1 DEF LiveRows
<1> QED
  BY <1>2, ViewRows

LEMMA CommittedUpdate ==
  ASSUME TypeOK, StoreInv, WritesInv, NEW s \in Session, CommitUpdate(s), NEW path \in Path \ Dir
  PROVE  EntriesAt(View(objects', tx[s].project, tx[s].next), path) =
           IF \E u \in tx[s].batch : u.path = path
           THEN {Entry(u) : u \in {w \in tx[s].batch : w.path = path /\ w.hash # Null}}
           ELSE EntriesAt(View(objects, tx[s].project, tx[s].next - 1), path)
<1> DEFINE t == tx[s]
           p == t.project
           live == LiveRows(objects, p)
           new == Unpublished(t)
<1>1. /\ t \in Tx /\ HoldsLock(t) /\ LockInv(t) /\ UpdateInv(t) /\ t.op = "update"
      /\ t.todo = {} /\ BatchInv(t)
  BY DEF CommitUpdate, TypeOK, StoreInv, HoldsLock, WritesInv
<1>2. /\ p \in Project /\ latest[p] \in Nat /\ t.next - 1 = latest[p]
  BY <1>1 DEF Tx, HoldsLock, LockInv, TypeOK
<1>3. View(objects, p, t.next - 1) = {Entry(r) : r \in live}
  BY <1>2, LatestView DEF StoreInv
<1>4. View(objects', p, t.next) = {Entry(r) : r \in new}
  <2>1. objects' = (objects \ t.stopped)
                     \cup {[r EXCEPT !.stop = t.next] : r \in t.stopped} \cup t.added
    BY DEF CommitUpdate, Pending
  <2>2. \A a \in t.added : a.project = p /\ a.start = t.next /\ Live(a)
    BY <1>1 DEF UpdateInv
  <2>3. {x \in objects' : InView(x, p, t.next)} = new
    BY <1>1, <2>1, <2>2, PublishedRows DEF Unpublished
  <2> QED
    BY <2>3, ViewRows
<1>5. ASSUME NEW r \in new \cup live
      PROVE  r \in Row /\ Entry(r).path = r.path /\ Entry(r).hash \in Hash
  BY <1>1, TxFields DEF Unpublished, LiveRows, TypeOK, Row, Entry
<1>6. CASE \E u \in t.batch : u.path = path
  <2>1. PICK u \in t.batch : u.path = path
    BY <1>6
  <2>2. /\ \A w \in t.batch : w.path = path => w = u
        /\ u.hash # Null => \E r \in new : Entry(r) = Entry(u)
        /\ \A r \in new : r.path = path => Entry(r) = Entry(u)
    BY <1>1, <2>1 DEF BatchInv, DistinctPaths
  <2>3. Entry(u).path = path /\ Entry(u).hash = u.hash
    BY <2>1 DEF Entry
  <2> DEFINE lhs == {e \in {Entry(r) : r \in new} : e.path = path}
             rhs == {Entry(w) : w \in {x \in t.batch : x.path = path /\ x.hash # Null}}
  <2>4. ASSUME NEW e \in lhs PROVE e \in rhs
    <3>1. PICK r \in new : e = Entry(r)
      OBVIOUS
    <3>2. e = Entry(u)
      BY <1>5, <2>2, <3>1
    <3>3. u.hash # Null
      BY <1>5, <2>3, <3>1, <3>2, StoreAssumption
    <3> QED
      BY <2>1, <3>2, <3>3
  <2>5. ASSUME NEW e \in rhs PROVE e \in lhs
    BY <2>2, <2>3, <2>5
  <2>6. lhs = rhs
    BY <2>4, <2>5
  <2> QED
    BY <1>4, <1>6, <2>6 DEF EntriesAt
<1>7. CASE ~\E u \in t.batch : u.path = path
  <2>1. \A r \in t.added \cup t.stopped : r.path # path
    BY <1>1, <1>7 DEF BatchInv
  <2>2. \A r : r.path = path => (r \in new <=> r \in live)
    BY <2>1 DEF Unpublished
  <2> HIDE DEF new, live
  <2>3. {e \in {Entry(r) : r \in new} : e.path = path} = {e \in {Entry(r) : r \in live} : e.path = path}
    BY <1>5, <2>2
  <2> QED
    BY <1>3, <1>4, <1>7, <2>3 DEF EntriesAt
<1> QED
  BY <1>6, <1>7

(* Under SafeUse an update publishes exactly its batch, directory markers     *)
(* aside, however its statements interleave with other calls.                 *)
THEOREM UpdatesExact == SafeUse => (Spec => BatchPublished)
<1> SUFFICES ASSUME SafeUse PROVE Spec => BatchPublished
  OBVIOUS
<1> DEFINE Exact ==
      \A s \in Session : CommitUpdate(s) =>
        LET t == tx[s]
            old == View(objects, t.project, t.next - 1)
            new == View(objects', t.project, t.next)
        IN  \A path \in Path \ Dir :
              EntriesAt(new, path) =
                IF \E u \in t.batch : u.path = path
                THEN {Entry(u) : u \in {w \in t.batch : w.path = path /\ w.hash # Null}}
                ELSE EntriesAt(old, path)
<1>1. TypeOK /\ StoreInv /\ WritesInv => Exact
  BY CommittedUpdate
<1> QED
  BY <1>1, TypeCorrect, StructureInvariant, WritesInvariant, PTL DEF Spec, BatchPublished

-----------------------------------------------------------------------------
(* The store implements VersionedFs.                                          *)

(* The versions that are complete are a window that ends with the latest one, *)
(* and the bound on versions is respected.                                    *)
WindowInv ==
  /\ \A p \in Project : latest[p] # Absent => floor[p] <= latest[p] /\ latest[p] \in Version
  /\ \A s \in Session : HoldsLock(tx[s]) => tx[s].next \in Version

LEMMA WindowTx ==
  ASSUME TypeOK, NEW s \in Session, HoldsLock(tx[s]) => tx[s].next \in Version, TxChange(s)
  PROVE  HoldsLock(tx'[s]) => tx'[s].next \in Version
<1>1. CASE tx'[s] = tx[s] \/ ~HoldsLock(tx'[s])
  BY <1>1
<1>2. ASSUME NEW p \in Project, NEW batch \in Streams, LockLatestVersion(s, p, batch)
      PROVE  tx'[s].next \in Version
  <2>1. tx'[s].next = latest[p] + 1
    BY <1>2 DEF LockLatestVersion, Begin, Idle, TypeOK
  <2> QED
    BY <1>2, <2>1, StoreAssumption DEF LockLatestVersion, Version, TypeOK
<1>3. ASSUME NEW u \in tx[s].todo, InsertContent(s, u)
      PROVE  HoldsLock(tx[s]) /\ tx'[s].next = tx[s].next
  BY <1>3 DEF InsertContent, Current, HoldsLock, TypeOK, Tx, TxRecord
<1>4. ASSUME NEW u \in tx[s].todo, NEW n, NEW R, NEW new, Written(s, u, n, R, new)
      PROVE  HoldsLock(tx[s]) /\ tx'[s].next = tx[s].next
  BY <1>4 DEF Written, HoldsLock, TypeOK
<1>5. ASSUME NEW source \in Project, NEW p \in Project, NEW version \in Version,
             CloneRemoved(s, source, p, version)
      PROVE  tx'[s].next \in Version
  <2>1. tx'[s].next = latest[p] + 1
    BY <1>5 DEF CloneRemoved, Begin, Idle, TypeOK
  <2> QED
    BY <1>5, <2>1, StoreAssumption DEF CloneRemoved, Version, TypeOK
<1> QED
  BY <1>1, <1>2, <1>3, <1>4, <1>5 DEF TxChange

LEMMA WindowTables ==
  ASSUME TypeOK, StoreInv, WindowInv, [Next]_vars, NEW p \in Project, latest'[p] # Absent
  PROVE  floor'[p] <= latest'[p] /\ latest'[p] \in Version
<1>0. /\ latest[p] \in Nat \cup {-1} /\ floor[p] \in Nat
      /\ latest[p] # Absent => floor[p] <= latest[p] /\ latest[p] \in Version
  BY DEF TypeOK, WindowInv
<1>1. ASSUME NEW s \in Session, Publishes(s)
      PROVE  floor'[p] <= latest'[p] /\ latest'[p] \in Version
  <2>1. /\ HoldsLock(tx[s]) /\ LockInv(tx[s]) /\ floor' = floor
        /\ latest' = [latest EXCEPT ![tx[s].project] = tx[s].next]
    BY <1>1, Publishing
  <2>2. CASE p = tx[s].project
    BY <1>0, <2>1, <2>2 DEF LockInv, WindowInv, TypeOK
  <2>3. CASE p # tx[s].project
    BY <1>0, <2>1, <2>3 DEF TypeOK
  <2> QED
    BY <2>2, <2>3
<1>2. ASSUME NEW s \in Session, CommitNewProject(s)
      PROVE  floor'[p] <= latest'[p] /\ latest'[p] \in Version
  <2>1. /\ tx[s].source \in Project /\ tx[s].project \in Project
        /\ latest[tx[s].source] # Absent /\ latest[tx[s].source] \in Nat
        /\ latest' = [latest EXCEPT ![tx[s].project] = latest[tx[s].source]]
        /\ floor' = [floor EXCEPT ![tx[s].project] = latest[tx[s].source]]
    BY <1>2 DEF CommitNewProject, TypeOK, Tx
  <2>2. latest[tx[s].source] \in Version
    BY <2>1 DEF WindowInv
  <2> QED
    BY <1>0, <2>1, <2>2 DEF TypeOK
<1>3. ASSUME NEW s \in Session, DeleteProject(s)
      PROVE  floor'[p] <= latest'[p] /\ latest'[p] \in Version
  BY <1>0, <1>3 DEF DeleteProject, TypeOK
<1>4. ASSUME NEW q \in Project, CreateProject(q)
      PROVE  floor'[p] <= latest'[p] /\ latest'[p] \in Version
  BY <1>0, <1>4, StoreAssumption DEF CreateProject, TypeOK, Version
<1>5. ASSUME NEW q \in Rollbacks, NEW w \in Version, Rollback(q, w) \/ Reset(q, w)
      PROVE  floor'[p] <= latest'[p] /\ latest'[p] \in Version
  <2>1. q \in Project /\ w \in Nat
    BY StoreAssumption DEF Version
  <2>2. CASE p = q
    <3>1. latest'[p] = ResetVersion(p, w) /\ floor'[p] = ResetFloor(p, w)
      BY <1>5, <2>1, <2>2 DEF Rollback, Reset, DropOtherProjects, TypeOK
    <3> QED
      BY <1>0, <2>1, <3>1 DEF ResetVersion, ResetFloor
  <2>3. CASE p # q
    <3>1. latest'[p] = Absent \/ (latest'[p] = latest[p] /\ floor'[p] = floor[p])
      BY <1>5, <2>1, <2>3 DEF Rollback, Reset, TypeOK
    <3> QED
      BY <1>0, <3>1
  <2> QED
    BY <2>2, <2>3
<1>6. ASSUME NEW q \in Project, NEW keep \in Keeps, NEW from \in Froms,
             GcProjectObjects(q, keep, from)
      PROVE  floor'[p] <= latest'[p] /\ latest'[p] \in Version
  <2>1. keep \in Nat
    BY StoreAssumption
  <2> QED
    BY <1>0, <1>6, <2>1 DEF GcProjectObjects, TypeOK
<1>7. CASE ResetAll
  BY <1>7 DEF ResetAll
<1>8. CASE UNCHANGED <<latest, objects, floor>>
  BY <1>0, <1>8
<1> QED
  BY <1>1, <1>2, <1>3, <1>4, <1>5, <1>6, <1>7, <1>8, StepWrites DEF Writes, Publishes

(* Under SafeUse the newest version is always complete, and versions stay     *)
(* within the bound.                                                          *)
THEOREM WindowInvariant == SafeUse => (Spec => []WindowInv)
<1> SUFFICES ASSUME SafeUse PROVE Spec => []WindowInv
  OBVIOUS
<1>1. Init => WindowInv
  BY DEF Init, Idle, HoldsLock, WindowInv
<1>2. TypeOK /\ StoreInv /\ WindowInv /\ [Next]_vars => WindowInv'
  <2> SUFFICES ASSUME TypeOK, StoreInv, WindowInv, [Next]_vars PROVE WindowInv'
    OBVIOUS
  <2>1. \A s \in Session : HoldsLock(tx'[s]) => tx'[s].next \in Version
    BY TxChanges, WindowTx DEF WindowInv
  <2>2. \A p \in Project : latest'[p] # Absent => floor'[p] <= latest'[p] /\ latest'[p] \in Version
    BY WindowTables
  <2> QED
    BY <2>1, <2>2 DEF WindowInv, HoldsLock, Version
<1> QED
  BY <1>1, <1>2, TypeCorrect, StructureInvariant, PTL DEF Spec

(* The ends of a window.                                                      *)
LEMMA WindowEnds ==
  ASSUME NEW a \in Int, NEW b \in Int, a <= b, NEW h, DOMAIN h = a .. b
  PROVE  Fs!First(h) = a /\ Fs!Last(h) = b /\ h # Fs!Nothing
<1>1. a \in DOMAIN h /\ b \in DOMAIN h /\ \A v \in DOMAIN h : a <= v /\ v <= b /\ v \in Int
  OBVIOUS
<1>2. \A v \in DOMAIN h : (\A w \in DOMAIN h : v <= w) <=> v = a
  BY <1>1
<1>3. ASSUME NEW v \in DOMAIN h PROVE (\A w \in DOMAIN h : w <= v) <=> v = b
  <2>1. v \in Int /\ v <= b
    BY <1>1
  <2>2. (\A w \in DOMAIN h : w <= v) => b <= v
    BY <1>1
  <2> QED
    BY <1>1, <2>1, <2>2
<1>4. Fs!First(h) = a
  BY <1>1, <1>2 DEF Fs!First
<1>5. Fs!Last(h) = b
  BY <1>1, <1>3 DEF Fs!Last
<1>6. h # Fs!Nothing
  BY <1>1 DEF Fs!Nothing
<1> QED
  BY <1>4, <1>5, <1>6

LEMMA ViewType ==
  ASSUME NEW rows \in SUBSET Row, NEW p, NEW v
  PROVE  View(rows, p, v) \in SUBSET [path : Path, hash : Hash]
  BY RowFacts DEF View, updatedObjects, UpdatedRows

(* The window of a project.                                                   *)
LEMMA WindowFacts ==
  ASSUME TypeOK, WindowInv, NEW p \in Project
  PROVE  /\ latest[p] = Absent => Windows[p] = Fs!Nothing
         /\ latest[p] # Absent =>
              /\ floor[p] \in Nat /\ latest[p] \in Nat /\ floor[p] <= latest[p]
              /\ Windows[p] # Fs!Nothing
              /\ DOMAIN Windows[p] = floor[p] .. latest[p]
              /\ \A v \in floor[p] .. latest[p] : Windows[p][v] = View(objects, p, v)
              /\ Fs!First(Windows[p]) = floor[p] /\ Fs!Last(Windows[p]) = latest[p]
<1>1. latest[p] = Absent => Windows[p] = Fs!Nothing
  BY DEF Windows, Fs!Nothing
<1>2. ASSUME latest[p] # Absent
      PROVE  /\ floor[p] \in Nat /\ latest[p] \in Nat /\ floor[p] <= latest[p]
             /\ DOMAIN Windows[p] = floor[p] .. latest[p]
             /\ \A v \in floor[p] .. latest[p] : Windows[p][v] = View(objects, p, v)
  <2>1. floor[p] \in Nat /\ latest[p] \in Nat /\ floor[p] <= latest[p]
    BY <1>2 DEF TypeOK, WindowInv
  <2>2. Windows[p] = [v \in floor[p] .. latest[p] |-> View(objects, p, v)]
    BY <1>2 DEF Windows
  <2> QED
    BY <2>1, <2>2
<1>3. ASSUME latest[p] # Absent
      PROVE  /\ Fs!First(Windows[p]) = floor[p] /\ Fs!Last(Windows[p]) = latest[p]
             /\ Windows[p] # Fs!Nothing
  BY <1>2, <1>3, WindowEnds
<1> QED
  BY <1>1, <1>2, <1>3

LEMMA WindowAfter ==
  ASSUME NEW p \in Project, latest'[p] # Absent
  PROVE  Windows'[p] = [v \in floor'[p] .. latest'[p] |-> View(objects', p, v)]
  BY DEF Windows

(* A project whose versions a step leaves alone.                              *)
LEMMA WindowSame ==
  ASSUME SafeUse, TypeOK, TypeOK', StoreInv, [Next]_vars, NEW p \in Project,
         latest'[p] = latest[p], latest[p] = Absent \/ floor'[p] = floor[p]
  PROVE  Windows'[p] = Windows[p]
<1>1. CASE latest[p] = Absent
  BY <1>1 DEF Windows
<1>2. CASE latest[p] # Absent
  <2>1. floor[p] \in Nat /\ latest[p] \in Nat /\ floor'[p] = floor[p]
    BY <1>2 DEF TypeOK
  <2>2. \A v \in floor[p] .. latest[p] : View(objects', p, v) = View(objects, p, v)
    BY <2>1, VersionKept
  <2>3. Windows[p] = [v \in floor[p] .. latest[p] |-> View(objects, p, v)]
    BY <1>2 DEF Windows
  <2> QED
    BY <1>2, <2>1, <2>2, <2>3, WindowAfter
<1> QED
  BY <1>1, <1>2

LEMMA OthersSame ==
  ASSUME NEW p \in Project, \A q \in Project \ {p} : Windows'[q] = Windows[q]
  PROVE  Fs!Others(p)
<1>1. DOMAIN Windows = Project /\ DOMAIN Windows' = Project
  BY DEF Windows
<1>2. Windows = [q \in Project |-> Windows[q]] /\ Windows' = [q \in Project |-> Windows'[q]]
  BY DEF Windows
<1>3. Windows' = [Windows EXCEPT ![p] = Windows'[p]]
  BY <1>1, <1>2
<1> QED
  BY <1>3 DEF Fs!Others

-----------------------------------------------------------------------------
(* What the steps do to the windows.                                          *)

LEMMA RefinesCreate ==
  ASSUME SafeUse, TypeOK, TypeOK', StoreInv, WindowInv, WindowInv', [Next]_vars,
         NEW p \in Project, latest[p] = Absent,
         latest'[p] # Absent, floor'[p] = latest'[p],
         \A q \in Project \ {p} : latest'[q] = latest[q] /\ floor'[q] = floor[q]
  PROVE  Fs!Create(p)
<1>1. Windows[p] = Fs!Nothing
  BY WindowFacts
<1>2. latest'[p] \in Version /\ latest'[p] \in Nat
  BY DEF WindowInv, TypeOK
<1>3. Windows'[p] = [v \in {latest'[p]} |-> View(objects', p, v)]
  <2>1. floor'[p] .. latest'[p] = {latest'[p]}
    BY <1>2
  <2>2. Windows'[p] = [v \in floor'[p] .. latest'[p] |-> View(objects', p, v)]
    BY WindowAfter
  <2> QED
    BY <2>1, <2>2
<1>4. \A v : View(objects', p, v) \in SUBSET [path : Path, hash : Hash]
  BY ViewType DEF TypeOK
<1>5. Fs!Window(Windows'[p], {latest'[p]}, Fs!Nothing)
  BY <1>3, <1>4 DEF Fs!Window, Fs!Nothing
<1>6. Fs!Others(p)
  BY WindowSame, OthersSame
<1> QED
  BY <1>1, <1>2, <1>5, <1>6 DEF Fs!Create

LEMMA RefinesPublish ==
  ASSUME SafeUse, TypeOK, TypeOK', StoreInv, WindowInv, WindowInv', [Next]_vars,
         NEW p \in Project, latest[p] # Absent,
         latest'[p] = latest[p] + 1, floor' = floor,
         \A q \in Project \ {p} : latest'[q] = latest[q]
  PROVE  Fs!Publish(p)
<1>1. /\ floor[p] \in Nat /\ latest[p] \in Nat /\ floor[p] <= latest[p]
      /\ Windows[p] # Fs!Nothing
      /\ DOMAIN Windows[p] = floor[p] .. latest[p]
      /\ \A v \in floor[p] .. latest[p] : Windows[p][v] = View(objects, p, v)
      /\ Fs!First(Windows[p]) = floor[p] /\ Fs!Last(Windows[p]) = latest[p]
  BY WindowFacts
<1>2. Windows'[p] = [v \in floor[p] .. latest[p] + 1 |-> View(objects', p, v)]
  BY <1>1, WindowAfter
<1>3. \A v : View(objects', p, v) \in SUBSET [path : Path, hash : Hash]
  BY ViewType DEF TypeOK
<1>4. \A v \in floor[p] .. latest[p] : View(objects', p, v) = View(objects, p, v)
  BY <1>1, VersionKept
<1>5. Fs!Window(Windows'[p], floor[p] .. latest[p] + 1, Windows[p])
  BY <1>1, <1>2, <1>3, <1>4 DEF Fs!Window
<1>6. Fs!Others(p)
  BY WindowSame, OthersSame
<1> QED
  BY <1>1, <1>5, <1>6 DEF Fs!Publish

LEMMA RefinesRolledBack ==
  ASSUME TypeOK, TypeOK', StoreInv, WindowInv, NEW p \in Project, latest[p] # Absent,
         NEW w \in Nat, latest'[p] = w, floor'[p] = ResetFloor(p, w),
         \A v \in 0 .. w : View(objects', p, v) = View(objects, p, v)
  PROVE  Fs!RolledBack(Windows'[p], Windows[p], w)
<1>1. /\ floor[p] \in Nat /\ latest[p] \in Nat /\ floor[p] <= latest[p]
      /\ DOMAIN Windows[p] = floor[p] .. latest[p]
      /\ \A v \in floor[p] .. latest[p] : Windows[p][v] = View(objects, p, v)
      /\ Fs!First(Windows[p]) = floor[p] /\ Fs!Last(Windows[p]) = latest[p]
  BY WindowFacts
<1>2. Windows'[p] = [v \in floor'[p] .. w |-> View(objects', p, v)]
  BY WindowAfter
<1>3. CASE w < floor[p]
  <2>1. floor'[p] = w
    BY <1>3 DEF ResetFloor
  <2>2. Windows'[p] = [v \in {w} |-> View(objects', p, v)]
    BY <1>2, <2>1
  <2>3. \A v : View(objects', p, v) \in SUBSET [path : Path, hash : Hash]
    BY ViewType DEF TypeOK
  <2>4. Fs!Window(Windows'[p], {w}, Fs!Nothing)
    BY <2>2, <2>3 DEF Fs!Window, Fs!Nothing
  <2> QED
    BY <1>1, <1>3, <2>4 DEF Fs!RolledBack
<1>4. CASE ~(w < floor[p])
  <2>1. floor'[p] = floor[p]
    BY <1>4 DEF ResetFloor
  <2>2. ASSUME NEW v \in floor[p] .. w
        PROVE  View(objects', p, v) =
                 IF v \in DOMAIN Windows[p] THEN Windows[p][v] ELSE Windows[p][latest[p]]
    <3>1. v \in Nat /\ View(objects', p, v) = View(objects, p, v)
      BY <1>1
    <3>2. CASE v \in floor[p] .. latest[p]
      BY <1>1, <3>1, <3>2
    <3>3. CASE v \notin floor[p] .. latest[p]
      <4>1. latest[p] <= v
        BY <1>1, <3>1, <3>3
      <4>2. View(objects, p, v) = View(objects, p, latest[p])
        <5>1. View(objects, p, v) = {Entry(r) : r \in LiveRows(objects, p)}
          BY <3>1, <4>1, LatestView DEF StoreInv
        <5>2. View(objects, p, latest[p]) = {Entry(r) : r \in LiveRows(objects, p)}
          BY <1>1, LatestView DEF StoreInv
        <5> QED
          BY <5>1, <5>2
      <4>3. latest[p] \in floor[p] .. latest[p]
        BY <1>1
      <4> QED
        BY <1>1, <3>1, <3>3, <4>2, <4>3
    <3> QED
      BY <3>2, <3>3
  <2> DEFINE h == [v \in floor[p] .. w |->
                     IF v \in DOMAIN Windows[p] THEN Windows[p][v] ELSE Windows[p][latest[p]]]
  <2>3. Windows'[p] = h
    BY <1>2, <2>1, <2>2
  <2> QED
    BY <1>1, <1>4, <2>3 DEF Fs!RolledBack
<1> QED
  BY <1>3, <1>4

LEMMA RefinesForget ==
  ASSUME SafeUse, TypeOK, TypeOK', StoreInv, WindowInv, [Next]_vars, NEW p \in Project,
         latest[p] # Absent, latest' = latest, NEW w \in Nat, floor[p] <= w, w < latest[p],
         floor'[p] = w, \A q \in Project \ {p} : floor'[q] = floor[q]
  PROVE  Fs!Forget(p, w)
<1>1. /\ floor[p] \in Nat /\ latest[p] \in Nat /\ floor[p] <= latest[p]
      /\ Windows[p] # Fs!Nothing
      /\ \A v \in floor[p] .. latest[p] : Windows[p][v] = View(objects, p, v)
      /\ Fs!First(Windows[p]) = floor[p] /\ Fs!Last(Windows[p]) = latest[p]
  BY WindowFacts
<1>2. \A v \in w .. latest[p] : View(objects', p, v) = Windows[p][v]
  BY <1>1, VersionKept
<1>3. Windows'[p] = [v \in w .. latest[p] |-> Windows[p][v]]
  BY <1>2, WindowAfter
<1>4. Windows' = [Windows EXCEPT ![p] = Windows'[p]]
  BY WindowSame, OthersSame DEF Fs!Others
<1>5. Windows' = [Windows EXCEPT ![p] = [v \in w .. latest[p] |-> Windows[p][v]]]
  BY <1>3, <1>4
<1> QED
  BY <1>1, <1>5 DEF Fs!Forget

LEMMA RefinesDrop ==
  ASSUME NEW gone \in SUBSET Project,
         \A p \in gone : latest'[p] = Absent,
         \A p \in Project \ gone : Windows'[p] = Windows[p]
  PROVE  Fs!Drop(gone)
<1>1. \A p \in gone : Windows'[p] = Fs!Nothing
  BY DEF Windows, Fs!Nothing
<1>2. Windows' = [p \in Project |-> Windows'[p]]
  BY DEF Windows
<1>3. Windows' = [p \in Project |-> IF p \in gone THEN Fs!Nothing ELSE Windows[p]]
  BY <1>1, <1>2
<1> QED
  BY <1>3 DEF Fs!Drop

(* Every step of the store is a step of VersionedFs or leaves the windows.    *)
LEMMA RefinesNext ==
  ASSUME SafeUse, TypeOK, TypeOK', StoreInv, WindowInv, WindowInv', [Next]_vars
  PROVE  [Fs!Next]_Windows
<1>1. ASSUME NEW s \in Session, Publishes(s)
      PROVE  Fs!Publish(tx[s].project) /\ tx[s].project \in Project
  <2>1. /\ LockInv(tx[s]) /\ HoldsLock(tx[s]) /\ tx[s].project \in Project /\ floor' = floor
        /\ latest' = [latest EXCEPT ![tx[s].project] = tx[s].next]
    BY <1>1, Publishing
  <2>2. /\ latest[tx[s].project] # Absent
        /\ latest'[tx[s].project] = latest[tx[s].project] + 1
        /\ \A q \in Project \ {tx[s].project} : latest'[q] = latest[q]
    BY <2>1 DEF LockInv, TypeOK
  <2> QED
    BY <2>1, <2>2, RefinesPublish
<1>2. ASSUME NEW s \in Session, CommitNewProject(s)
      PROVE  Fs!Create(tx[s].project) /\ tx[s].project \in Project
  <2> DEFINE p == tx[s].project
  <2>1. p \in Project /\ p \notin used
    BY <1>2 DEF CommitNewProject, TypeOK, Tx, StoreInv, NewInv
  <2>2. latest[p] = Absent
    BY <2>1 DEF StoreInv, UsedInv
  <2>3. /\ latest'[p] # Absent /\ floor'[p] = latest'[p]
        /\ \A q \in Project \ {p} : latest'[q] = latest[q] /\ floor'[q] = floor[q]
    BY <1>2, <2>1 DEF CommitNewProject, TypeOK
  <2> QED
    BY <2>1, <2>2, <2>3, RefinesCreate
<1>3. ASSUME NEW p \in Project, CreateProject(p)
      PROVE  Fs!Create(p)
  <2>1. /\ latest[p] = Absent /\ latest'[p] # Absent /\ floor'[p] = latest'[p]
        /\ \A q \in Project \ {p} : latest'[q] = latest[q] /\ floor'[q] = floor[q]
    BY <1>3 DEF CreateProject, CanCreate, TypeOK
  <2> QED
    BY <2>1, RefinesCreate
<1>4. ASSUME NEW s \in Session, DeleteProject(s)
      PROVE  Fs!Drop({tx[s].project}) /\ tx[s].project \in Project
  <2> DEFINE p == tx[s].project
  <2>1. /\ p \in Project /\ latest'[p] = Absent
        /\ \A q \in Project \ {p} : latest'[q] = latest[q] /\ floor'[q] = floor[q]
    BY <1>4 DEF DeleteProject, TypeOK, Tx
  <2>2. \A q \in Project \ {p} : Windows'[q] = Windows[q]
    BY <2>1, WindowSame
  <2> QED
    BY <2>1, <2>2, RefinesDrop
<1>5. ASSUME NEW p \in Rollbacks, NEW w \in Version, Rollback(p, w)
      PROVE  Fs!Rollback(p, w) \/ Windows' = Windows
  <2>0. p \in Project /\ w \in Nat
    BY StoreAssumption DEF Version
  <2>1. /\ latest'[p] = ResetVersion(p, w) /\ floor'[p] = ResetFloor(p, w)
        /\ objects' = ResetRows(objects, p, w)
        /\ \A q \in Project \ {p} : latest'[q] = latest[q] /\ floor'[q] = floor[q]
    BY <1>5, <2>0 DEF Rollback, TypeOK
  <2>2. \A q \in Project \ {p} : Windows'[q] = Windows[q]
    BY <2>1, WindowSame
  <2>3. CASE latest[p] = Absent
    <3>1. Windows'[p] = Windows[p]
      BY <2>0, <2>1, <2>3, WindowSame DEF ResetVersion
    <3> QED
      BY <2>0, <2>2, <3>1 DEF Windows
  <2>4. CASE latest[p] # Absent
    <3>1. \A v \in 0 .. w : View(objects', p, v) = View(objects, p, v)
      BY <2>0, <2>1, ResetKeeps
    <3>2. Fs!RolledBack(Windows'[p], Windows[p], w)
      BY <2>0, <2>1, <2>4, <3>1, RefinesRolledBack DEF ResetVersion
    <3>3. Fs!Others(p) /\ Windows[p] # Fs!Nothing
      BY <2>0, <2>2, <2>4, OthersSame, WindowFacts
    <3> QED
      BY <3>2, <3>3 DEF Fs!Rollback
  <2> QED
    BY <2>3, <2>4
<1>6. ASSUME NEW p \in Rollbacks, NEW w \in Version, Reset(p, w)
      PROVE  Fs!Reset(p, w)
  <2>0. p \in Project /\ w \in Nat
    BY StoreAssumption DEF Version
  <2>1. /\ latest'[p] = ResetVersion(p, w) /\ floor'[p] = ResetFloor(p, w)
        /\ objects' = {r \in ResetRows(objects, p, w) : r.project = p}
        /\ \A q \in Project \ {p} : latest'[q] = Absent
    BY <1>6, <2>0 DEF Reset, DropOtherProjects
  <2>2. Windows' = [q \in Project |-> IF q = p THEN Windows'[p] ELSE Fs!Nothing]
    <3>1. \A q \in Project \ {p} : Windows'[q] = Fs!Nothing
      BY <2>1 DEF Windows, Fs!Nothing
    <3>2. Windows' = [q \in Project |-> Windows'[q]]
      BY DEF Windows
    <3> QED
      BY <3>1, <3>2
  <2>3. CASE latest[p] = Absent
    <3>1. Windows[p] = Fs!Nothing /\ Windows'[p] = Fs!Nothing
      BY <2>0, <2>1, <2>3 DEF Windows, ResetVersion, Fs!Nothing
    <3> QED
      BY <2>2, <3>1 DEF Fs!Reset
  <2>4. CASE latest[p] # Absent
    <3>1. ASSUME NEW v \in 0 .. w PROVE View(objects', p, v) = View(objects, p, v)
      <4>1. View(objects', p, v) = View(ResetRows(objects, p, w), p, v)
        BY <2>1, SameRows DEF InView
      <4> QED
        BY <2>0, <4>1, ResetKeeps
    <3>2. Fs!RolledBack(Windows'[p], Windows[p], w)
      BY <2>0, <2>1, <2>4, <3>1, RefinesRolledBack DEF ResetVersion
    <3>3. Windows[p] # Fs!Nothing
      BY <2>0, <2>4, WindowFacts
    <3> QED
      BY <2>2, <3>2, <3>3 DEF Fs!Reset
  <2> QED
    BY <2>3, <2>4
<1>7. ASSUME ResetAll
      PROVE  Fs!Drop(Project)
  <2>1. \A p \in Project : latest'[p] = Absent
    BY <1>7 DEF ResetAll
  <2> QED
    BY <2>1, RefinesDrop
<1>8. ASSUME NEW p \in Project, NEW keep \in Keeps, NEW from \in Froms,
             GcProjectObjects(p, keep, from)
      PROVE  Windows' = Windows \/ \E w \in Version : Fs!Forget(p, w)
  <2> DEFINE horizon == latest[p] - keep
  <2>0. keep \in Nat \ {0} /\ latest[p] \in Nat /\ floor[p] \in Nat /\ latest[p] \in Version
    BY <1>8, StoreAssumption DEF TypeOK, GcProjectObjects, WindowInv
  <2>1. /\ latest' = latest /\ latest[p] # Absent
        /\ floor'[p] = IF floor[p] < horizon THEN horizon ELSE floor[p]
        /\ \A q \in Project \ {p} : floor'[q] = floor[q]
    BY <1>8 DEF GcProjectObjects, TypeOK
  <2>2. CASE floor[p] < horizon
    <3>1. horizon \in Nat /\ horizon < latest[p] /\ horizon \in Version
      BY <2>0, <2>2, StoreAssumption DEF Version
    <3>2. Fs!Forget(p, horizon)
      BY <2>0, <2>1, <2>2, <3>1, RefinesForget
    <3> QED
      BY <3>1, <3>2
  <2>3. CASE ~(floor[p] < horizon)
    <3>1. \A q \in Project : Windows'[q] = Windows[q]
      BY <2>1, <2>3, WindowSame
    <3> QED
      BY <3>1 DEF Windows
  <2> QED
    BY <2>2, <2>3
<1>9. CASE UNCHANGED <<latest, objects, floor>>
  BY <1>9 DEF Windows
<1>10. \A p \in Rollbacks : p \in Project
  BY StoreAssumption
<1>11. CASE Writes
  <2>1. CASE \E s \in Session : \/ CommitUpdate(s) \/ CommitClone(s)
                               \/ CommitNewProject(s) \/ DeleteProject(s)
    BY <1>1, <1>2, <1>4, <2>1 DEF Publishes, Fs!Next
  <2>2. CASE \E p \in Rollbacks, w \in Version : Rollback(p, w) \/ Reset(p, w)
    BY <1>5, <1>6, <1>10, <2>2 DEF Fs!Next
  <2> QED
    BY <1>3, <1>7, <1>8, <1>11, <2>1, <2>2 DEF Writes, Fs!Next
<1> QED
  BY <1>9, <1>11, StepWrites

(* Under SafeUse the store implements VersionedFs: a version that is complete *)
(* is what it was when it was published, and a rollback restores it.          *)
THEOREM ImplementsVersionedFs == SafeUse => (Spec => StableVersions)
<1> SUFFICES ASSUME SafeUse PROVE Spec => StableVersions
  OBVIOUS
<1>1. Init => Fs!Init
  BY DEF Init, Fs!Init, Windows, Fs!Nothing
<1>2. TypeOK /\ TypeOK' /\ StoreInv /\ WindowInv /\ WindowInv' /\ [Next]_vars => [Fs!Next]_Windows
  BY RefinesNext
<1> QED
  BY <1>1, <1>2, TypeCorrect, StructureInvariant, WindowInvariant, PTL
     DEF Spec, StableVersions, Fs!Spec

-----------------------------------------------------------------------------
(* The version queries.                                                       *)

LEMMA QueryRows ==
  ASSUME TypeOK, DisjointLives, NEW p \in Project, NEW from \in Nat, NEW to \in Nat, from <= to
  PROVE  DifferenceExact(p, from, to)
<1> DEFINE old == View(objects, p, from)
           new == View(objects, p, to)
           updated == updatedObjects(objects, p, from, to)
           removed == removedObjects(objects, p, from, to)
           paths == {u.path : u \in updated}
           Covered(path) == \E u \in updated : u.path \in {path} \cup Inside[path]
           Sent(r) == r.project = p /\ r.start > from /\ r.start <= to /\ (Live(r) \/ r.stop > to)
           Gone(r) == r.project = p /\ r.start <= from /\ ~Live(r) /\ r.stop > from /\ r.stop <= to
           Skipped(q) == (q \notin Dir /\ q \in paths) \/ Inside[q] \cap paths # {}
<1>1. /\ old = {Entry(r) : r \in {x \in objects : InView(x, p, from)}}
      /\ new = {Entry(r) : r \in {x \in objects : InView(x, p, to)}}
  BY ViewRows
<1>2. updated = {Entry(r) : r \in {x \in objects : Sent(x)}}
  BY DEF updatedObjects, UpdatedRows
<1>3. removed = {q \in {r.path : r \in {x \in objects : Gone(x)}} : ~Skipped(q)}
  BY DEF removedObjects
<1>4. ASSUME NEW r \in objects
      PROVE  /\ r.start \in Nat /\ r.start > 0 /\ (Live(r) \/ r.stop \in Nat)
             /\ Entry(r).path = r.path
  BY DEF TypeOK, Row, Entry, Live
<1> HIDE DEF old, new, updated, removed, paths
<1>5. new \ old \subseteq updated
  <2> SUFFICES ASSUME NEW r \in objects, InView(r, p, to), Entry(r) \notin old
               PROVE  Sent(r)
    BY <1>1, <1>2
  <2>1. ~InView(r, p, from)
    BY <1>1
  <2> QED
    BY <1>4, <2>1 DEF InView
<1>6. updated \subseteq new
  <2> SUFFICES ASSUME NEW r \in objects, Sent(r)
               PROVE  InView(r, p, to)
    BY <1>1, <1>2
  <2> QED
    BY <1>4 DEF InView
<1>7. ASSUME NEW e \in old, e \notin new
      PROVE  e.path \in removed \/ Covered(e.path)
  <2>1. PICK r \in objects : InView(r, p, from) /\ e = Entry(r)
    BY <1>1
  <2>2. Gone(r) /\ e.path = r.path
    <3>1. ~InView(r, p, to)
      BY <1>1, <1>7, <2>1
    <3> QED
      BY <1>4, <2>1, <3>1 DEF InView
  <2>3. Skipped(e.path) => Covered(e.path)
    BY DEF paths
  <2> QED
    BY <1>3, <2>2, <2>3
<1>8. ASSUME NEW e \in new, e.path \in removed
      PROVE  e.path \in Dir /\ e \in updated
  <2>1. PICK r \in objects : InView(r, p, to) /\ e = Entry(r)
    BY <1>1
  <2>2. PICK x \in objects : Gone(x) /\ x.path = e.path /\ ~Skipped(e.path)
    BY <1>3, <1>8
  <2>3. r.path = x.path /\ r # x
    BY <1>4, <2>1, <2>2 DEF InView
  <2>4. r.start > from
    <3>1. Before(r, x) \/ Before(x, r)
      BY <2>1, <2>2, <2>3 DEF DisjointLives, InView
    <3> QED
      BY <1>4, <2>1, <2>2, <3>1 DEF Before, InView
  <2>5. e \in updated
    BY <1>2, <2>1, <2>4 DEF InView
  <2> QED
    BY <2>2, <2>5 DEF paths
<1> QED
  BY <1>5, <1>6, <1>7, <1>8 DEF DifferenceExact, old, new, updated, removed

(* Under SafeUse the queries of queryBuilder.go send a client at any complete *)
(* version exactly what leads it to any later one: removed_objects never      *)
(* misses a path that is gone and never names a file that should stay.        *)
THEOREM DifferencesExact == SafeUse => (Spec => []QueriesExact)
<1> SUFFICES ASSUME SafeUse PROVE Spec => []QueriesExact
  OBVIOUS
<1>1. TypeOK /\ DisjointLives => QueriesExact
  <2> SUFFICES ASSUME TypeOK, DisjointLives, NEW p \in Project, latest[p] # Absent,
                      NEW from \in floor[p] .. latest[p], NEW to \in floor[p] .. latest[p], from <= to
               PROVE  DifferenceExact(p, from, to)
    BY DEF QueriesExact
  <2>1. from \in Nat /\ to \in Nat
    BY DEF TypeOK
  <2> QED
    BY <2>1, QueryRows
<1> QED
  BY <1>1, TypeCorrect, LivesNeverOverlap, PTL

=============================================================================
