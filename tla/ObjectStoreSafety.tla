-------------------------- MODULE ObjectStoreSafety --------------------------
(* The lives of a path's objects never overlap, and no row is ahead of its    *)
(* project, for every number of projects, sessions, paths and versions: the   *)
(* proof that StoreInv is inductive under SafeUse.                            *)
EXTENDS ObjectStoreProofs

USE DEF Absent

SessionInv(s) ==
  /\ LockInv(tx[s]) /\ UpdateInv(tx[s])
  /\ CloneInv(tx[s]) /\ NewInv(tx[s])

(* A transaction another one does not disturb: its project's live rows and    *)
(* version are as they were, a project being created is still not there, and  *)
(* its template has not lost versions.                                        *)
Undisturbed(s) ==
  /\ tx'[s] = tx[s]
  /\ HoldsLock(tx[s]) =>
       /\ LiveRows(objects', tx[s].project) = LiveRows(objects, tx[s].project)
       /\ latest'[tx[s].project] = latest[tx[s].project]
  /\ tx[s].op = "new" =>
       /\ used \subseteq used'
       /\ tx[s].project \notin used'
       /\ latest'[tx[s].source] # Absent =>
            \/ tx[s].source \notin used
            \/ latest[tx[s].source] # Absent /\ latest[tx[s].source] <= latest'[tx[s].source]

LEMMA Frame ==
  ASSUME TypeOK, TypeOK', NEW s \in Session, SessionInv(s), Undisturbed(s)
  PROVE  SessionInv(s)'
<1>t. tx[s] \in Tx /\ tx'[s] = tx[s]
  BY DEF TypeOK, Undisturbed
<1>1. LockInv(tx[s])'
  BY <1>t DEF SessionInv, Undisturbed, LockInv, HoldsLock
<1>2. UpdateInv(tx[s])'
  BY <1>t DEF SessionInv, Undisturbed, UpdateInv, HoldsLock
<1>3. CloneInv(tx[s])'
  BY <1>t DEF SessionInv, Undisturbed, CloneInv, HoldsLock
<1>4. NewInv(tx[s])'
  <2> SUFFICES ASSUME tx[s].op = "new" PROVE NewInv(tx[s])'
    BY <1>t DEF NewInv
  <2>1. NewInv(tx[s]) /\ tx[s].added \in SUBSET Row /\ tx[s].source \in Project
    BY <1>t, TxFields DEF SessionInv, Tx
  <2>2. ASSUME NEW a \in tx[s].added, latest'[tx[s].source] # Absent
        PROVE  a.start <= latest'[tx[s].source]
    <3>0. tx[s].source \in used
      BY <2>1, <2>2 DEF NewInv
    <3>1. latest[tx[s].source] # Absent /\ latest[tx[s].source] <= latest'[tx[s].source]
      BY <2>2, <3>0 DEF Undisturbed
    <3>2. a.start <= latest[tx[s].source] /\ a.start \in Nat
      BY <2>1, <3>1 DEF NewInv, Row
    <3>3. latest[tx[s].source] \in Int /\ latest'[tx[s].source] \in Int
      BY <2>1 DEF TypeOK
    <3> QED
      BY <3>1, <3>2, <3>3
  <2> QED
    BY <1>t, <2>1, <2>2 DEF Undisturbed, NewInv
<1> QED
  BY <1>1, <1>2, <1>3, <1>4 DEF SessionInv

-----------------------------------------------------------------------------
(* Steps that write nothing but their own transaction.                        *)

Conflict(n, t) ==
  /\ n.project = t.project
  /\ \/ HoldsLock(n) /\ HoldsLock(t)
     \/ n.op = "new" /\ t.op = "new"

LEMMA TxStep ==
  ASSUME TypeOK, TypeOK', StoreInv, NEW s \in Session, NEW n,
         tx' = [tx EXCEPT ![s] = n],
         UNCHANGED <<latest, objects, used>>,
         SessionInv(s)',
         \A s2 \in Session \ {s} : ~Conflict(n, tx[s2])
  PROVE  StoreInv'
<1>0. tx'[s] = n /\ \A s2 \in Session \ {s} : tx'[s2] = tx[s2]
  BY DEF TypeOK
<1>1. DisjointLives' /\ NoFutureRows' /\ UsedInv'
  BY DEF StoreInv, DisjointLives, NoFutureRows, UsedInv, Live, Before
<1>2. ASSUME NEW s2 \in Session \ {s}
      PROVE  SessionInv(s2)'
  <2>1. SessionInv(s2)
    BY DEF StoreInv, SessionInv
  <2>2. tx[s2] \in Tx
    BY DEF TypeOK
  <2>3. Undisturbed(s2)
    <3>1. tx[s2].op = "new" => tx[s2].source \in Project
      BY <2>2 DEF Tx
    <3> QED
      BY <1>0, <2>1, <3>1 DEF Undisturbed, SessionInv, NewInv, TypeOK
  <2> QED
    BY <2>1, <2>3, Frame
<1>3. ASSUME NEW s1 \in Session, NEW s2 \in Session
      PROVE  Alone(s1, s2)'
  BY <1>0 DEF StoreInv, Alone, Conflict, HoldsLock
<1> QED
  BY <1>1, <1>2, <1>3 DEF StoreInv, SessionInv

(* A step within a transaction conflicts with nobody the transaction did not  *)
(* conflict with before, and the end of a transaction with nobody at all.     *)
LEMMA NoConflict ==
  ASSUME StoreInv, NEW s \in Session, NEW n,
         \/ n.op = tx[s].op /\ n.project = tx[s].project
         \/ n.op \in {"idle", "delete"}
  PROVE  \A s2 \in Session \ {s} : ~Conflict(n, tx[s2])
  BY DEF StoreInv, Alone, Conflict, HoldsLock

LEMMA FinishStep ==
  ASSUME TypeOK, TypeOK', StoreInv, NEW s \in Session, Finish(s),
         UNCHANGED <<latest, objects, used>>
  PROVE  StoreInv'
<1>1. tx' = [tx EXCEPT ![s] = Idle] /\ tx'[s] = Idle
  BY DEF Finish, TypeOK
<1>2. Idle.op = "idle"
  BY DEF Idle
<1>3. SessionInv(s)'
  BY <1>1, <1>2 DEF SessionInv, LockInv, HoldsLock, UpdateInv, CloneInv, NewInv
<1>4. \A s2 \in Session \ {s} : ~Conflict(Idle, tx[s2])
  BY <1>2, NoConflict
<1> QED
  BY <1>1, <1>3, <1>4, TxStep

(* What a transaction sees live: the committed live rows it has not stopped,  *)
(* and the live rows it has added.                                            *)
LEMMA PendingLive ==
  ASSUME TypeOK, NEW t \in Tx, NEW p
  PROVE  LiveRows(Pending(t), p) =
           (LiveRows(objects, p) \ t.stopped) \cup LiveRows(t.added, p)
<1>1. \A x \in {[r EXCEPT !.stop = t.next] : r \in t.stopped} : ~Live(x)
  <2> SUFFICES ASSUME NEW r \in t.stopped PROVE ~Live([r EXCEPT !.stop = t.next])
    OBVIOUS
  <2>1. r \in Row /\ t.next \in Nat
    BY TxFields
  <2>2. [r EXCEPT !.stop = t.next].stop = t.next
    BY <2>1 DEF Row
  <2> QED
    BY <2>1, <2>2, PathAssumption DEF Live
<1> QED
  BY <1>1 DEF LiveRows, Pending

(* The lock holder's version is ahead of every committed row of its project.  *)
LEMMA NextIsNew ==
  ASSUME TypeOK, StoreInv, NEW s \in Session, HoldsLock(tx[s])
  PROVE  /\ tx[s].next \in Nat
         /\ tx[s].project \in Project
         /\ \A r \in objects : r.project = tx[s].project =>
              r.start < tx[s].next /\ (Live(r) \/ r.stop < tx[s].next)
<1>1. tx[s] \in Tx /\ LockInv(tx[s])
  BY DEF TypeOK, StoreInv
<1>2. tx[s].next \in Nat /\ tx[s].project \in Project
  BY <1>1 DEF Tx, TxRecord, HoldsLock
<1>3. latest[tx[s].project] \in Nat /\ tx[s].next = latest[tx[s].project] + 1
  BY <1>1, <1>2 DEF LockInv, TypeOK
<1>4. ASSUME NEW r \in objects, r.project = tx[s].project
      PROVE  r.start < tx[s].next /\ (Live(r) \/ r.stop < tx[s].next)
  <2>1. r.start \in Nat /\ r.stop \in Nat \cup {Null}
    BY DEF TypeOK, Row
  <2>2. r.start <= latest[tx[s].project] /\ (Live(r) \/ r.stop <= latest[tx[s].project])
    BY <1>3, <1>4 DEF StoreInv, NoFutureRows
  <2> QED
    BY <1>3, <2>1, <2>2 DEF Live
<1> QED
  BY <1>2, <1>4

LEMMA InvLock ==
  ASSUME SafeUse, TypeOK, TypeOK', StoreInv, NEW s \in Session,
         NEW p \in Project, NEW batch \in Streams, LockLatestVersion(s, p, batch)
  PROVE  StoreInv'
<1> DEFINE n == [Begin("update", p) EXCEPT
                   !.next = latest[p] + 1, !.batch = batch, !.todo = batch]
<1>1. tx' = [tx EXCEPT ![s] = n] /\ tx'[s] = n
  BY DEF LockLatestVersion, TypeOK
<1>2. /\ n.op = "update" /\ n.project = p /\ n.next = latest[p] + 1
      /\ n.todo = batch /\ n.stopped = {} /\ n.added = {}
  BY DEF Begin, Idle
<1>3. SessionInv(s)'
  BY <1>1, <1>2 DEF LockLatestVersion, SafeUse, SessionInv, LockInv, HoldsLock,
                    UpdateInv, CloneInv, NewInv
<1>4. \A s2 \in Session \ {s} : ~Conflict(n, tx[s2])
  BY <1>2 DEF LockLatestVersion, Locked, Conflict, HoldsLock
<1> QED
  BY <1>1, <1>3, <1>4, TxStep DEF LockLatestVersion

(* What writing the object u does to the transaction of session s, which      *)
(* becomes n: the rows R it stops are committed and at the object's path, or  *)
(* directory markers, and the row it adds, if any, replaces them; or the      *)
(* object is there already.                                                   *)
Written(s, u, n, R, new) ==
  LET t == tx[s]
  IN  /\ t.op = "update"
      /\ tx' = [tx EXCEPT ![s] = n] /\ UNCHANGED <<latest, objects, used>>
      /\ n.op = t.op /\ n.project = t.project /\ n.next = t.next /\ n.batch = t.batch
      /\ n.todo = t.todo \ {u} /\ n.stopped = t.stopped \cup R /\ n.added = t.added \cup new
      /\ R \subseteq LiveRows(objects, t.project)
      /\ \A r \in R : r.path = u.path \/ r.path \in Dir
      /\ \/ /\ R = {} /\ new = {}
            /\ \E r \in LiveRows(objects, t.project) \ t.stopped : Entry(r) = Entry(u)
         \/ /\ new = IF u.hash = Null THEN {} ELSE {NewRow(t.project, t.next, u.path, u.hash)}
            /\ \A r \in LiveRows(objects, t.project) : r.path = u.path => r \in t.stopped \cup R

LEMMA InvWritten ==
  ASSUME TypeOK, TypeOK', StoreInv, NEW s \in Session, NEW u \in tx[s].todo,
         NEW n, NEW R, NEW new, Written(s, u, n, R, new)
  PROVE  StoreInv'
<1> DEFINE t == tx[s]
           a == NewRow(t.project, t.next, u.path, u.hash)
<1>0. tx'[s] = n /\ t \in Tx /\ LockInv(t) /\ UpdateInv(t)
  BY DEF TypeOK, StoreInv, Written
<1>1. LockInv(tx[s])'
  BY <1>0 DEF LockInv, HoldsLock, LiveRows, Written
<1>2. UpdateInv(tx[s])'
  <2>1. DistinctPaths(n.todo)
    BY <1>0 DEF UpdateInv, DistinctPaths, Written
  <2>2. a.project = t.project /\ a.start = t.next /\ Live(a) /\ a.path = u.path
    BY DEF NewRow, Live
  <2>3. \A w \in n.todo : w.path # u.path
    BY <1>0 DEF UpdateInv, DistinctPaths, Written
  <2>4. \A b \in t.added : b.path # u.path
    BY <1>0 DEF UpdateInv, Written
  <2>5. ASSUME NEW b \in n.added
        PROVE  /\ b.project = n.project /\ b.start = n.next /\ Live(b)
               /\ \A w \in n.todo : w.path # b.path
               /\ \A c \in n.added : b.path = c.path => b = c
               /\ \A r \in LiveRows(objects, n.project) : r.path = b.path => r \in n.stopped
    <3>0. new = {} \/ new = {a}
      BY DEF Written
    <3>1. CASE b \in t.added
      BY <1>0, <2>2, <2>4, <3>0, <3>1 DEF UpdateInv, Written
    <3>2. CASE b \notin t.added
      <4>1. b = a /\ new # {}
        BY <2>5, <3>0, <3>2 DEF Written
      <4> QED
        BY <2>2, <2>3, <2>4, <3>0, <3>2, <4>1 DEF Written
    <3> QED
      BY <3>1, <3>2
  <2> QED
    BY <1>0, <2>1, <2>5 DEF UpdateInv, Written
<1>3. SessionInv(s)'
  BY <1>0, <1>1, <1>2 DEF SessionInv, CloneInv, NewInv, Written
<1>4. \A s2 \in Session \ {s} : ~Conflict(n, tx[s2])
  BY NoConflict DEF Written
<1> QED
  BY <1>3, <1>4, TxStep DEF Written

(* The fields of a transaction after a write.                                 *)
LEMMA StopRowsFields ==
  ASSUME NEW t \in Tx, NEW R
  PROVE  LET n == StopRows(t, R)
         IN  /\ n.op = t.op /\ n.project = t.project /\ n.next = t.next
             /\ n.batch = t.batch /\ n.todo = t.todo
             /\ n.stopped = t.stopped \cup (R \ t.added)
             /\ R \cap t.added = {} => n.added = t.added
<1>1. R \cap t.added = {} =>
        (t.added \ R) \cup {[r EXCEPT !.stop = t.next] : r \in R \cap t.added} = t.added
  OBVIOUS
<1> QED
  BY <1>1 DEF StopRows, Tx, TxRecord

LEMMA DoneFields ==
  ASSUME NEW t \in Tx, NEW u
  PROVE  LET n == Done(t, u)
         IN  /\ n.op = t.op /\ n.project = t.project /\ n.next = t.next /\ n.batch = t.batch
             /\ n.todo = t.todo \ {u} /\ n.stopped = t.stopped /\ n.added = t.added
  BY DEF Done, Tx, TxRecord

LEMMA WrittenDelete ==
  ASSUME TypeOK, StoreInv, NEW s \in Session, NEW u \in tx[s].todo, DeleteObject(s, u)
  PROVE  \E n, R, new : Written(s, u, n, R, new)
<1> DEFINE t == tx[s]
           R == {r \in LiveRows(Pending(t), t.project) : r.path = u.path}
           m == StopRows(Done(t, u), R)
           n == [m EXCEPT !.changed = TRUE]
<1>1. t \in Tx /\ UpdateInv(t) /\ t.op = "update"
  BY DEF TypeOK, StoreInv, DeleteObject, Current
<1>2. \A a \in t.added : a.path # u.path
  BY <1>1 DEF UpdateInv
<1>3. /\ R \subseteq LiveRows(objects, t.project) /\ R \cap t.added = {}
      /\ \A r \in LiveRows(objects, t.project) : r.path = u.path => r \in t.stopped \cup R
  BY <1>1, <1>2, PendingLive DEF LiveRows
<1>4. R \in SUBSET Row /\ Done(t, u) \in Tx
  BY <1>1, <1>3, DoneType DEF LiveRows, TypeOK
<1>5. m \in Tx
  BY <1>4, StopRowsType
<1>6. /\ m.op = t.op /\ m.project = t.project /\ m.next = t.next /\ m.batch = t.batch
      /\ m.todo = t.todo \ {u} /\ m.stopped = t.stopped \cup R /\ m.added = t.added
  BY <1>1, <1>3, <1>4, DoneFields, StopRowsFields
<1>7. /\ n.op = t.op /\ n.project = t.project /\ n.next = t.next /\ n.batch = t.batch
      /\ n.todo = t.todo \ {u} /\ n.stopped = t.stopped \cup R /\ n.added = t.added \cup {}
  BY <1>5, <1>6 DEF Tx, TxRecord
<1>8. tx' = [tx EXCEPT ![s] = n] /\ UNCHANGED <<latest, objects, used>>
  BY DEF DeleteObject
<1>9. u.hash = Null /\ \A r \in R : r.path = u.path
  BY <1>1, TxFields, UpdateFacts DEF DeleteObject
<1> HIDE DEF n, R
<1>10. Written(s, u, n, R, {})
  BY <1>1, <1>3, <1>7, <1>8, <1>9 DEF Written
<1> QED
  BY <1>10

LEMMA WrittenObject ==
  ASSUME TypeOK, StoreInv, NEW s \in Session, NEW u \in tx[s].todo, UpdateObject(s, u)
  PROVE  \E n, R, new : Written(s, u, n, R, new)
<1> DEFINE t == tx[s]
           a == NewRow(t.project, t.next, u.path, u.hash)
           i == [Done(t, u) EXCEPT !.added = @ \cup {a}]
           R == {r \in LiveRows(Pending(i), t.project) :
                   r.path \in {u.path} \cup Parents(u.path) /\ r.start # t.next}
           m == StopRows(i, R)
           n == [m EXCEPT !.changed = TRUE]
<1>1. t \in Tx /\ UpdateInv(t) /\ t.op = "update" /\ HoldsLock(t)
  BY DEF TypeOK, StoreInv, UpdateObject, Current, HoldsLock
<1>2. u \in Update /\ u.path \in Path /\ u.hash \in Hash
  BY <1>1, TxFields, UpdateFacts DEF UpdateObject
<1>3. a \in Row /\ a.start = t.next
  BY <1>1, <1>2, TxFields, RowFacts DEF NewRow, Tx
<1>4. Done(t, u) \in Tx
  BY <1>1, DoneType
<1>5. /\ i \in Tx /\ i.op = t.op /\ i.project = t.project /\ i.next = t.next
      /\ i.batch = t.batch /\ i.todo = t.todo \ {u} /\ i.stopped = t.stopped
      /\ i.added = t.added \cup {a}
  BY <1>1, <1>3, <1>4, DoneFields DEF Tx, TxRecord
<1>6. \A b \in i.added : b.start = t.next
  BY <1>1, <1>3, <1>5 DEF UpdateInv
<1>7. LiveRows(Pending(i), t.project) =
        (LiveRows(objects, t.project) \ t.stopped) \cup LiveRows(i.added, t.project)
  BY <1>5, PendingLive
<1>8. R \subseteq LiveRows(objects, t.project) /\ R \cap i.added = {}
  BY <1>6, <1>7 DEF LiveRows
<1>9. \A r \in LiveRows(objects, t.project) : r.path = u.path => r \in t.stopped \cup R
  <2> SUFFICES ASSUME NEW r \in LiveRows(objects, t.project), r.path = u.path, r \notin t.stopped
               PROVE  r \in R
    OBVIOUS
  <2>1. r.start # t.next
    BY <1>1, NextIsNew DEF LiveRows, TypeOK, Row
  <2> QED
    BY <1>7, <2>1
<1>10. R \in SUBSET Row
  BY <1>8 DEF LiveRows, TypeOK
<1>11. m \in Tx
  BY <1>5, <1>10, StopRowsType
<1>12. /\ m.op = t.op /\ m.project = t.project /\ m.next = t.next /\ m.batch = t.batch
       /\ m.todo = t.todo \ {u} /\ m.stopped = t.stopped \cup R /\ m.added = t.added \cup {a}
  <2>1. R \ i.added = R
    BY <1>8
  <2> HIDE DEF i, R
  <2> QED
    BY <1>5, <1>8, <2>1, StopRowsFields
<1>13. /\ n.op = t.op /\ n.project = t.project /\ n.next = t.next /\ n.batch = t.batch
       /\ n.todo = t.todo \ {u} /\ n.stopped = t.stopped \cup R /\ n.added = t.added \cup {a}
  BY <1>11, <1>12 DEF Tx, TxRecord
<1>14. tx' = [tx EXCEPT ![s] = n] /\ UNCHANGED <<latest, objects, used>>
  BY DEF UpdateObject, previousRows
<1>15. u.hash # Null /\ \A r \in R : r.path = u.path \/ r.path \in Dir
  BY <1>2, StoreAssumption DEF Parents
<1> HIDE DEF n, R, a
<1>16. Written(s, u, n, R, {a})
  BY <1>1, <1>8, <1>9, <1>13, <1>14, <1>15 DEF Written, a
<1> QED
  BY <1>16

LEMMA WrittenPack ==
  ASSUME TypeOK, StoreInv, NEW s \in Session, NEW u \in tx[s].todo, UpdatePackedObjects(s, u)
  PROVE  \E n, R, new : Written(s, u, n, R, new)
<1> DEFINE t == tx[s]
           R == {r \in LiveRows(Pending(t), t.project) : r.path = u.path}
           new == IF u.hash = Null THEN {} ELSE {NewRow(t.project, t.next, u.path, u.hash)}
           m == StopRows(Done(t, u), R)
           n == [m EXCEPT !.added = @ \cup new, !.changed = TRUE]
<1>1. t \in Tx /\ UpdateInv(t) /\ t.op = "update"
  BY DEF TypeOK, StoreInv, UpdatePackedObjects, Current
<1>2. \A b \in t.added : b.path # u.path
  BY <1>1 DEF UpdateInv
<1>3. R \subseteq LiveRows(objects, t.project) /\ R \cap t.added = {}
  BY <1>1, <1>2, PendingLive DEF LiveRows
<1>4. \A r \in LiveRows(objects, t.project) : r.path = u.path => r \in t.stopped \cup R
  BY <1>1, PendingLive
<1>5. R \in SUBSET Row /\ Done(t, u) \in Tx
  BY <1>1, <1>3, DoneType DEF LiveRows, TypeOK
<1>6. m \in Tx
  BY <1>5, StopRowsType
<1>7. /\ m.op = t.op /\ m.project = t.project /\ m.next = t.next /\ m.batch = t.batch
      /\ m.todo = t.todo \ {u} /\ m.stopped = t.stopped \cup R /\ m.added = t.added
  BY <1>1, <1>3, <1>5, DoneFields, StopRowsFields
<1>8. /\ n.op = t.op /\ n.project = t.project /\ n.next = t.next /\ n.batch = t.batch
      /\ n.todo = t.todo \ {u} /\ n.stopped = t.stopped \cup R /\ n.added = t.added \cup new
  BY <1>6, <1>7 DEF Tx, TxRecord
<1>9. tx' = [tx EXCEPT ![s] = n] /\ UNCHANGED <<latest, objects, used>>
  BY DEF UpdatePackedObjects
<1>10. \A r \in R : r.path = u.path
  OBVIOUS
<1> HIDE DEF n, R
<1>11. Written(s, u, n, R, new)
  BY <1>1, <1>3, <1>4, <1>8, <1>9, <1>10 DEF Written
<1> QED
  BY <1>11

LEMMA WrittenIdentical ==
  ASSUME TypeOK, StoreInv, NEW s \in Session, NEW u \in tx[s].todo,
         IdenticalObject(s, u) \/ IdenticalPack(s, u)
  PROVE  \E n, R, new : Written(s, u, n, R, new)
<1> DEFINE t == tx[s]
           n == Done(t, u)
<1>1. t \in Tx /\ UpdateInv(t) /\ t.op = "update"
  BY DEF TypeOK, StoreInv, IdenticalObject, IdenticalPack, Current
<1>2. /\ n.op = t.op /\ n.project = t.project /\ n.next = t.next /\ n.batch = t.batch
      /\ n.todo = t.todo \ {u} /\ n.stopped = t.stopped \cup {} /\ n.added = t.added \cup {}
  BY <1>1, DoneFields
<1>3. tx' = [tx EXCEPT ![s] = n] /\ UNCHANGED <<latest, objects, used>>
  BY DEF IdenticalObject, IdenticalPack
<1>4. \E r \in LiveRows(Pending(t), t.project) : Entry(r) = Entry(u)
  BY DEF IdenticalObject, IdenticalPack, IsIdentical, SamePack, Entry
<1>5. PICK r \in LiveRows(Pending(t), t.project) : Entry(r) = Entry(u)
  BY <1>4
<1>6. r.path = u.path
  BY <1>5 DEF Entry
<1>7. r \in LiveRows(objects, t.project) \ t.stopped
  BY <1>1, <1>6, PendingLive DEF UpdateInv, LiveRows
<1> HIDE DEF n
<1>8. Written(s, u, n, {}, {})
  BY <1>1, <1>2, <1>3, <1>5, <1>7 DEF Written
<1> QED
  BY <1>8

LEMMA InvInsertContent ==
  ASSUME TypeOK, TypeOK', StoreInv, NEW s \in Session,
         NEW u \in tx[s].todo, InsertContent(s, u)
  PROVE  StoreInv'
<1> DEFINE t == tx[s]
           n == [t EXCEPT !.staged = u]
<1>1. t \in Tx /\ SessionInv(s) /\ t.op = "update"
  BY DEF TypeOK, StoreInv, SessionInv, InsertContent, Current
<1>2. /\ n.op = t.op /\ n.project = t.project /\ n.next = t.next
      /\ n.todo = t.todo /\ n.stopped = t.stopped /\ n.added = t.added
  BY <1>1 DEF Tx, TxRecord
<1>3. tx' = [tx EXCEPT ![s] = n] /\ UNCHANGED <<latest, objects, used>>
  BY DEF InsertContent
<1>4. tx'[s] = n
  BY <1>3 DEF TypeOK
<1> HIDE DEF n
<1>5. SessionInv(s)'
  BY <1>1, <1>2, <1>3, <1>4 DEF SessionInv, LockInv, HoldsLock, UpdateInv, CloneInv, NewInv
<1>6. \A s2 \in Session \ {s} : ~Conflict(n, tx[s2])
  BY <1>2, NoConflict
<1> QED
  BY <1>3, <1>5, <1>6, TxStep

LEMMA InvCloneRemoved ==
  ASSUME TypeOK, TypeOK', StoreInv, NEW s \in Session, NEW source \in Project,
         NEW p \in Project, NEW version \in Version, CloneRemoved(s, source, p, version)
  PROVE  StoreInv'
<1> DEFINE wanted == View(objects, source, version)
           R == {r \in LiveRows(objects, p) : r.path \in toRemove(source, p, version)}
           n == [Begin("clone", p) EXCEPT
                   !.source = source, !.version = version, !.next = latest[p] + 1,
                   !.seen = wanted, !.stopped = R]
<1>1. tx' = [tx EXCEPT ![s] = n] /\ tx'[s] = n /\ UNCHANGED <<latest, objects, used>>
  BY DEF CloneRemoved, TypeOK
<1>2. /\ n.op = "clone" /\ n.project = p /\ n.next = latest[p] + 1
      /\ n.stopped = R /\ n.added = {} /\ n.seen = wanted
  BY DEF Begin, Idle
<1>3. ASSUME NEW r \in LiveRows(objects, p), r \notin R
      PROVE  Entry(r) \in wanted
  <2>1. latest[p] \in Nat /\ r \in Row /\ r \in objects /\ Live(r) /\ r.project = p
    BY DEF CloneRemoved, TypeOK, LiveRows
  <2>2. r.start > 0 /\ r.start <= latest[p]
    BY <2>1 DEF StoreInv, NoFutureRows, Row
  <2>3. Entry(r) \in View(objects, p, latest[p])
    BY <2>1, <2>2 DEF View, updatedObjects, UpdatedRows
  <2>4. Entry(r).path = r.path
    BY DEF Entry
  <2> QED
    BY <1>3, <2>3, <2>4 DEF toRemove
<1>n. latest[p] # Absent /\ R \subseteq LiveRows(objects, p)
  BY DEF CloneRemoved
<1> HIDE DEF n, R, wanted
<1>4. SessionInv(s)'
  BY <1>1, <1>2, <1>3, <1>n DEF SessionInv, LockInv, HoldsLock, UpdateInv, CloneInv, NewInv
<1>5. \A s2 \in Session \ {s} : ~Conflict(n, tx[s2])
  BY <1>2 DEF CloneRemoved, Locked, Conflict, HoldsLock
<1> QED
  BY <1>1, <1>4, <1>5, TxStep

(* Two live rows of a path are one row.                                       *)
LEMMA LiveUnique ==
  ASSUME DisjointLives, NEW p, NEW r1 \in LiveRows(objects, p), NEW r2 \in LiveRows(objects, p),
         r1.path = r2.path
  PROVE  r1 = r2
  BY DEF DisjointLives, LiveRows, Before

LEMMA InvCopyAllObjects ==
  ASSUME SafeUse, TypeOK, TypeOK', StoreInv, NEW s \in Session, NEW template \in Templates,
         NEW p \in Project, CopyAllObjects(s, template, p)
  PROVE  StoreInv'
<1> DEFINE A == {[r EXCEPT !.project = p] : r \in LiveRows(objects, template)}
           n == [Begin("new", p) EXCEPT !.source = template, !.added = A]
<1>1. tx' = [tx EXCEPT ![s] = n] /\ tx'[s] = n /\ UNCHANGED <<latest, objects, used>>
  BY DEF CopyAllObjects, TypeOK
<1>2. n.op = "new" /\ n.project = p /\ n.source = template /\ n.added = A
  BY DEF Begin, Idle
<1>3. p \notin used
  BY DEF CopyAllObjects, CanCreate, SafeUse
<1>4. template \notin used => A = {}
  BY DEF StoreInv, UsedInv, LiveRows
<1>5. ASSUME NEW a \in A
      PROVE  /\ a.project = p /\ Live(a)
             /\ latest[template] # Absent => a.start <= latest[template]
             /\ \A b \in A : a.path = b.path => a = b
  <2>1. PICK r \in LiveRows(objects, template) : a = [r EXCEPT !.project = p]
    BY <1>5
  <2>2. r \in Row /\ r \in objects /\ Live(r) /\ r.project = template
    BY DEF LiveRows, TypeOK
  <2>3. a.project = p /\ a.path = r.path /\ a.start = r.start /\ a.stop = r.stop
    BY <2>1, <2>2 DEF Row
  <2>4. latest[template] # Absent => a.start <= latest[template]
    BY <2>2, <2>3 DEF StoreInv, NoFutureRows
  <2>5. ASSUME NEW b \in A, a.path = b.path
        PROVE  a = b
    <3>1. PICK q \in LiveRows(objects, template) : b = [q EXCEPT !.project = p]
      BY <2>5
    <3>2. b.path = q.path
      BY <3>1 DEF LiveRows, TypeOK, Row
    <3>3. r = q
      BY <2>3, <2>5, <3>2, LiveUnique DEF StoreInv
    <3> QED
      BY <2>1, <3>1, <3>3
  <2> QED
    BY <2>2, <2>3, <2>4, <2>5 DEF Live
<1> HIDE DEF n, A
<1>6. SessionInv(s)'
  BY <1>1, <1>2, <1>3, <1>4, <1>5 DEF SessionInv, LockInv, HoldsLock, UpdateInv, CloneInv, NewInv
<1>7. \A s2 \in Session \ {s} : ~Conflict(n, tx[s2])
  BY <1>2 DEF CopyAllObjects, CanCreate, Conflict, HoldsLock
<1> QED
  BY <1>1, <1>6, <1>7, TxStep

LEMMA InvDeleteObjects ==
  ASSUME TypeOK, TypeOK', StoreInv, NEW s \in Session, NEW p \in Project, DeleteObjects(s, p)
  PROVE  StoreInv'
<1> DEFINE n == [Begin("delete", p) EXCEPT !.stopped = {r \in objects : r.project = p}]
<1>1. tx' = [tx EXCEPT ![s] = n] /\ tx'[s] = n /\ UNCHANGED <<latest, objects, used>>
  BY DEF DeleteObjects, TypeOK
<1>2. n.op = "delete"
  BY DEF Begin, Idle
<1> HIDE DEF n
<1>3. SessionInv(s)'
  BY <1>1, <1>2 DEF SessionInv, LockInv, HoldsLock, UpdateInv, CloneInv, NewInv
<1>4. \A s2 \in Session \ {s} : ~Conflict(n, tx[s2])
  BY <1>2, NoConflict
<1> QED
  BY <1>1, <1>3, <1>4, TxStep

-----------------------------------------------------------------------------
(* Steps that commit.                                                         *)

(* A step on project p leaves the transactions on other projects alone.       *)
LEMMA OtherSessions ==
  ASSUME TypeOK, TypeOK', StoreInv, NEW p \in Project, NEW S \in SUBSET Session,
         \A s \in S : tx'[s] = tx[s],
         used' \in {used, used \cup {p}},
         \A r \in Row : r.project # p => (r \in objects' <=> r \in objects),
         \A q \in Project \ {p} : latest'[q] = latest[q],
         \A s \in S : tx[s].project = p =>
           ~HoldsLock(tx[s]) /\ (tx[s].op = "new" => used' = used),
         \/ latest'[p] = Absent
         \/ latest[p] # Absent /\ latest[p] <= latest'[p]
         \/ p \notin Templates
         \/ p \notin used
  PROVE  \A s \in S : SessionInv(s)'
<1> SUFFICES ASSUME NEW s \in S PROVE SessionInv(s)'
  OBVIOUS
<1>1. s \in Session /\ tx[s] \in Tx /\ SessionInv(s)
  BY DEF TypeOK, StoreInv, SessionInv
<1>2. HoldsLock(tx[s]) =>
       /\ LiveRows(objects', tx[s].project) = LiveRows(objects, tx[s].project)
       /\ latest'[tx[s].project] = latest[tx[s].project]
  <2> SUFFICES ASSUME HoldsLock(tx[s])
               PROVE  /\ LiveRows(objects', tx[s].project) = LiveRows(objects, tx[s].project)
                      /\ latest'[tx[s].project] = latest[tx[s].project]
    OBVIOUS
  <2>1. tx[s].project \in Project \ {p}
    BY <1>1 DEF Tx, HoldsLock
  <2>2. objects \in SUBSET Row /\ objects' \in SUBSET Row
    BY DEF TypeOK
  <2> QED
    BY <2>1, <2>2 DEF LiveRows
<1>3. tx[s].op = "new" =>
       /\ used \subseteq used'
       /\ tx[s].project \notin used'
       /\ latest'[tx[s].source] # Absent =>
            \/ tx[s].source \notin used
            \/ latest[tx[s].source] # Absent /\ latest[tx[s].source] <= latest'[tx[s].source]
  <2> SUFFICES ASSUME tx[s].op = "new", latest'[tx[s].source] # Absent
               PROVE  \/ tx[s].source \notin used
                      \/ latest[tx[s].source] # Absent /\ latest[tx[s].source] <= latest'[tx[s].source]
    BY <1>1 DEF SessionInv, NewInv
  <2>1. tx[s].source \in Project /\ tx[s].source \in Templates
    BY <1>1 DEF Tx, SessionInv, NewInv
  <2>2. CASE tx[s].source = p
    BY <2>1, <2>2
  <2>3. CASE tx[s].source # p
    <3>1. latest'[tx[s].source] = latest[tx[s].source] /\ latest[tx[s].source] \in Int
      BY <2>1, <2>3 DEF TypeOK
    <3> QED
      BY <3>1
  <2> QED
    BY <2>2, <2>3
<1>4. Undisturbed(s)
  BY <1>2, <1>3 DEF Undisturbed
<1> QED
  BY <1>1, <1>4, Frame

(* No two transactions meet when one ends and the others stay.                *)
LEMMA AloneAfter ==
  ASSUME TypeOK, StoreInv, NEW s \in Session, Finish(s)
  PROVE  \A s1, s2 \in Session : Alone(s1, s2)'
<1>1. /\ tx'[s].op = "idle"
      /\ \A s2 \in Session \ {s} : tx'[s2] = tx[s2]
  BY DEF Finish, TypeOK, Idle
<1> QED
  BY <1>1 DEF StoreInv, Alone, HoldsLock

LEMMA IdleAfter ==
  ASSUME TypeOK, NEW s \in Session, Finish(s)
  PROVE  SessionInv(s)' /\ \A s2 \in Session \ {s} : tx'[s2] = tx[s2]
<1>1. /\ tx'[s].op = "idle"
      /\ \A s2 \in Session \ {s} : tx'[s2] = tx[s2]
  BY DEF Finish, TypeOK, Idle
<1> QED
  BY <1>1 DEF SessionInv, LockInv, HoldsLock, UpdateInv, CloneInv, NewInv

(* The rows a lock holder publishes: committed rows, some live ones of which  *)
(* it stops at the next version, and one new row for paths that have no live  *)
(* row left.                                                                  *)
LEMMA PublishRows ==
  ASSUME TypeOK, StoreInv, NEW s \in Session, HoldsLock(tx[s]), NEW A \in SUBSET Row,
         objects' = (objects \ tx[s].stopped)
                      \cup {[r EXCEPT !.stop = tx[s].next] : r \in tx[s].stopped} \cup A,
         latest' = [latest EXCEPT ![tx[s].project] = tx[s].next],
         used' = used,
         \A a \in A : /\ a.project = tx[s].project /\ a.start = tx[s].next /\ Live(a)
                      /\ \A b \in A : a.path = b.path => a = b
                      /\ \A r \in LiveRows(objects, tx[s].project) \ tx[s].stopped : r.path # a.path
  PROVE  /\ DisjointLives' /\ NoFutureRows' /\ UsedInv'
         /\ \A r \in Row : r.project # tx[s].project => (r \in objects' <=> r \in objects)
<1> DEFINE t == tx[s]
           p == t.project
           next == t.next
           stop(r) == [r EXCEPT !.stop = next]
<1>1. /\ t \in Tx /\ LockInv(t) /\ p \in Project /\ next \in Nat
      /\ latest[p] \in Nat /\ next = latest[p] + 1
  BY NextIsNew DEF TypeOK, StoreInv, LockInv
<1>2. \A r \in objects : r.project = p => r.start < next /\ (Live(r) \/ r.stop < next)
  BY NextIsNew
<1>3. ASSUME NEW r \in t.stopped
      PROVE  /\ r \in objects /\ r \in Row /\ r.project = p /\ Live(r)
             /\ stop(r).project = p /\ stop(r).start = r.start /\ stop(r).path = r.path
             /\ stop(r).stop = next /\ ~Live(stop(r)) /\ stop(r) \in Row
  <2>1. r \in objects /\ r \in Row /\ r.project = p /\ Live(r)
    BY <1>1 DEF LockInv, LiveRows, TypeOK
  <2> QED
    BY <1>1, <2>1, RowFacts, PathAssumption DEF Row, Live
<1>4. ASSUME NEW r \in objects'
      PROVE  \/ r \in objects \ t.stopped
             \/ \E x \in t.stopped : r = stop(x)
             \/ r \in A
  BY <1>4
<1>h. \A r \in (objects \ t.stopped) \cup A : r \in objects'
  OBVIOUS
<1> HIDE DEF stop
<1>5. \A r \in Row : r.project # p => (r \in objects' <=> r \in objects)
  <2> SUFFICES ASSUME NEW r \in Row, r.project # p PROVE r \in objects' <=> r \in objects
    OBVIOUS
  <2>1. r \notin t.stopped
    BY <1>3
  <2>2. r \notin A
    OBVIOUS
  <2>3. ASSUME NEW x \in t.stopped PROVE r # stop(x)
    BY <1>3
  <2> QED
    BY <1>4, <1>h, <2>1, <2>2, <2>3
<1>6. NoFutureRows'
  <2> SUFFICES ASSUME NEW r \in objects', latest'[r.project] # Absent
               PROVE  r.start <= latest'[r.project] /\ (Live(r) \/ r.stop <= latest'[r.project])
    BY DEF NoFutureRows, Live
  <2>0. latest'[p] = next /\ \A q \in Project \ {p} : latest'[q] = latest[q]
    BY <1>1 DEF TypeOK
  <2>1. CASE r \in objects \ t.stopped
    <3>1. r.project \in Project /\ r.start \in Nat /\ r.stop \in Nat \cup {Null}
      BY <2>1 DEF TypeOK, Row
    <3>2. CASE r.project = p
      BY <1>1, <1>2, <2>0, <2>1, <3>1, <3>2 DEF Live
    <3>3. CASE r.project # p
      BY <2>0, <2>1, <3>1, <3>3 DEF StoreInv, NoFutureRows
    <3> QED
      BY <3>2, <3>3
  <2>2. CASE \E x \in t.stopped : r = stop(x)
    <3>1. PICK x \in t.stopped : r = stop(x)
      BY <2>2
    <3>2. x.start \in Nat /\ x.start < next
      BY <1>2, <1>3 DEF Row
    <3> QED
      BY <1>1, <1>3, <2>0, <3>1, <3>2
  <2>3. CASE r \in A
    BY <1>1, <2>0, <2>3
  <2> QED
    BY <1>4, <2>1, <2>2, <2>3
<1>7. UsedInv'
  <2>0. latest'[p] = next /\ \A q \in Project \ {p} : latest'[q] = latest[q]
    BY <1>1 DEF TypeOK
  <2>1. p \in used
    BY <1>1 DEF StoreInv, UsedInv
  <2>2. ASSUME NEW q \in Project, latest'[q] # Absent PROVE q \in used
    BY <2>0, <2>1, <2>2 DEF StoreInv, UsedInv
  <2>3. ASSUME NEW r \in objects' PROVE r.project \in used
    BY <1>3, <1>4, <2>1, <2>3 DEF StoreInv, UsedInv
  <2> QED
    BY <2>2, <2>3 DEF UsedInv
<1>8. DisjointLives'
  <2>1. ASSUME NEW r \in objects'
        PROVE  Live(r) \/ r.start < r.stop
    <3>1. CASE r \in objects \ t.stopped
      BY <3>1 DEF StoreInv, DisjointLives
    <3>2. CASE \E x \in t.stopped : r = stop(x)
      BY <1>2, <1>3, <3>2
    <3>3. CASE r \in A
      BY <3>3
    <3> QED
      BY <1>4, <3>1, <3>2, <3>3
  <2>2. ASSUME NEW r1 \in objects', NEW r2 \in objects',
               r1.project = r2.project, r1.path = r2.path, r1 # r2
        PROVE  Before(r1, r2) \/ Before(r2, r1)
    <3> DEFINE From(r, x) == \/ r = x /\ x \notin t.stopped
                             \/ r = stop(x) /\ x \in t.stopped
    <3>1. \A r \in objects' : r \in A \/ \E x \in objects : From(r, x)
      BY <1>3, <1>4
    <3>2. ASSUME NEW r, NEW x \in objects, From(r, x)
          PROVE  /\ r.project = x.project /\ r.path = x.path /\ r.start = x.start
                 /\ ~Live(x) => r = x
      BY <1>3, <3>2
    <3>3. ASSUME NEW a \in A, NEW r, NEW x \in objects, From(r, x),
                 r.project = a.project, r.path = a.path
          PROVE  Before(r, a)
      <4>1. a.project = p /\ a.start = next /\ x.project = p /\ x.path = a.path
        BY <3>2, <3>3
      <4>2. CASE r = x /\ x \notin t.stopped
        <5>1. ~Live(x)
          BY <4>1, <4>2 DEF LiveRows
        <5>2. x.stop < next /\ x.stop \in Nat
          BY <1>2, <4>1, <5>1 DEF TypeOK, Row, Live
        <5> QED
          BY <1>1, <4>1, <4>2, <5>1, <5>2 DEF Before
      <4>3. CASE r = stop(x) /\ x \in t.stopped
        BY <1>1, <1>3, <4>1, <4>3 DEF Before
      <4> QED
        BY <3>3, <4>2, <4>3
    <3>4. ASSUME NEW x1 \in objects, NEW x2 \in objects, From(r1, x1), From(r2, x2)
          PROVE  Before(r1, r2) \/ Before(r2, r1)
      <4>1. x1 # x2
        BY <2>2, <3>4
      <4>2. Before(x1, x2) \/ Before(x2, x1)
        BY <2>2, <3>2, <3>4, <4>1 DEF StoreInv, DisjointLives
      <4> QED
        BY <3>2, <3>4, <4>2 DEF Before
    <3> HIDE DEF From
    <3>5. CASE r1 \in A /\ r2 \in A
      BY <2>2, <3>5
    <3>6. CASE r1 \in A /\ r2 \notin A
      BY <2>2, <3>1, <3>3, <3>6
    <3>7. CASE r1 \notin A /\ r2 \in A
      BY <2>2, <3>1, <3>3, <3>7
    <3>8. CASE r1 \notin A /\ r2 \notin A
      BY <2>2, <3>1, <3>4, <3>8
    <3> QED
      BY <3>5, <3>6, <3>7, <3>8
  <2> QED
    BY <2>1, <2>2 DEF DisjointLives, Live, Before
<1> QED
  BY <1>5, <1>6, <1>7, <1>8

LEMMA InvCommitUpdate ==
  ASSUME TypeOK, TypeOK', StoreInv, NEW s \in Session, CommitUpdate(s)
  PROVE  StoreInv'
<1> DEFINE t == tx[s]
<1>1. t \in Tx /\ t.op = "update" /\ HoldsLock(t) /\ UpdateInv(t) /\ LockInv(t)
  BY DEF TypeOK, StoreInv, CommitUpdate, HoldsLock
<1>2. /\ objects' = (objects \ t.stopped)
                      \cup {[r EXCEPT !.stop = t.next] : r \in t.stopped} \cup t.added
      /\ latest' = [latest EXCEPT ![t.project] = t.next]
      /\ used' = used /\ Finish(s)
  BY DEF CommitUpdate, Pending
<1>3. t.added \in SUBSET Row /\ t.project \in Project /\ t.next \in Nat
  BY <1>1, TxFields, NextIsNew
<1>4. \A a \in t.added : /\ a.project = t.project /\ a.start = t.next /\ Live(a)
                         /\ \A b \in t.added : a.path = b.path => a = b
                         /\ \A r \in LiveRows(objects, t.project) \ t.stopped : r.path # a.path
  BY <1>1 DEF UpdateInv
<1>5. /\ DisjointLives' /\ NoFutureRows' /\ UsedInv'
      /\ \A r \in Row : r.project # t.project => (r \in objects' <=> r \in objects)
  BY <1>1, <1>2, <1>3, <1>4, PublishRows
<1>6. \A s2 \in Session \ {s} : SessionInv(s2)'
  <2>1. \A s2 \in Session \ {s} : tx[s2].project = t.project =>
          ~HoldsLock(tx[s2]) /\ tx[s2].op # "new"
    <3> SUFFICES ASSUME NEW s2 \in Session \ {s}, tx[s2].project = t.project
                 PROVE  ~HoldsLock(tx[s2]) /\ tx[s2].op # "new"
      OBVIOUS
    <3>1. t.project \in used
      BY <1>1, <1>3 DEF StoreInv, UsedInv, LockInv
    <3> QED
      BY <1>1, <3>1 DEF StoreInv, Alone, NewInv
  <2>2. \A s2 \in Session \ {s} : tx'[s2] = tx[s2]
    BY <1>2, IdleAfter
  <2>3. /\ latest'[t.project] = t.next
        /\ latest[t.project] # Absent /\ latest[t.project] <= latest'[t.project]
        /\ \A q \in Project \ {t.project} : latest'[q] = latest[q]
    BY <1>1, <1>2, <1>3 DEF TypeOK, LockInv
  <2> QED
    BY <1>2, <1>3, <1>5, <2>1, <2>2, <2>3, OtherSessions
<1>7. SessionInv(s)' /\ \A s1, s2 \in Session : Alone(s1, s2)'
  BY <1>2, IdleAfter, AloneAfter
<1> QED
  BY <1>5, <1>6, <1>7 DEF StoreInv, SessionInv

(* A version has one object at a path.                                        *)
LEMMA ViewUnique ==
  ASSUME TypeOK, DisjointLives, NEW p, NEW v \in Nat,
         NEW e \in View(objects, p, v), NEW f \in View(objects, p, v), e.path = f.path
  PROVE  e = f
<1>1. PICK r \in UpdatedRows(objects, p, 0, v) : e = Entry(r)
  BY DEF View, updatedObjects
<1>2. PICK q \in UpdatedRows(objects, p, 0, v) : f = Entry(q)
  BY DEF View, updatedObjects
<1>3. r.path = q.path
  BY <1>1, <1>2 DEF Entry
<1>4. /\ r \in objects /\ q \in objects /\ r.project = p /\ q.project = p
      /\ r.start <= v /\ q.start <= v /\ (Live(r) \/ r.stop > v) /\ (Live(q) \/ q.stop > v)
      /\ r.start \in Nat /\ q.start \in Nat
      /\ Live(r) \/ r.stop \in Nat
      /\ Live(q) \/ q.stop \in Nat
  BY DEF UpdatedRows, TypeOK, Row, Live
<1>5. r = q
  BY <1>3, <1>4 DEF DisjointLives, Before
<1> QED
  BY <1>1, <1>2, <1>5

(* What a clone reads again is in what it read first: stopping a row takes it *)
(* out of the source's version, at most.                                      *)
LEMMA CloneReads ==
  ASSUME TypeOK, NEW t \in Tx, t.added = {}, LockInv(t), HoldsLock(t)
  PROVE  View(Pending(t), t.source, t.version) \subseteq View(objects, t.source, t.version)
<1> SUFFICES ASSUME NEW y \in UpdatedRows(Pending(t), t.source, 0, t.version)
             PROVE  Entry(y) \in View(objects, t.source, t.version)
  BY DEF View, updatedObjects
<1>1. CASE y \in objects
  BY <1>1 DEF View, updatedObjects, UpdatedRows
<1>2. CASE y \notin objects
  <2>1. PICK x \in t.stopped : y = [x EXCEPT !.stop = t.next]
    BY <1>2 DEF UpdatedRows, Pending
  <2>2. x \in objects /\ x \in Row /\ Live(x)
    BY <2>1 DEF LockInv, LiveRows, TypeOK
  <2>3. y.project = x.project /\ y.start = x.start /\ Entry(y) = Entry(x)
    BY <2>1, <2>2 DEF Row, Entry
  <2>4. x \in UpdatedRows(objects, t.source, 0, t.version)
    BY <2>2, <2>3 DEF UpdatedRows
  <2> QED
    BY <2>3, <2>4 DEF View, updatedObjects
<1> QED
  BY <1>1, <1>2

LEMMA InvCommitClone ==
  ASSUME SafeUse, TypeOK, TypeOK', StoreInv, NEW s \in Session, CommitClone(s)
  PROVE  StoreInv'
<1> DEFINE t == tx[s]
           rows == Pending(t)
           fresh == {e \in View(rows, t.source, t.version) : ~IsIdentical(rows, t.project, e)}
           A == {NewRow(t.project, t.next, e.path, e.hash) : e \in fresh}
<1>1. t \in Tx /\ t.op = "clone" /\ HoldsLock(t) /\ CloneInv(t) /\ LockInv(t)
  BY DEF TypeOK, StoreInv, CommitClone, HoldsLock
<1>2. t.project \in Project /\ t.next \in Nat \ {0} /\ t.version \in Nat
  BY <1>1, TxFields DEF Tx
<1>3. View(objects, t.source, t.version) = t.seen /\ t.added = {}
  BY <1>1 DEF CommitClone, SafeUse, CloneInv
<1>4. View(rows, t.source, t.version) \subseteq t.seen
  BY <1>1, <1>3, CloneReads
<1>5. rows \in SUBSET Row
  BY <1>1, PendingType
<1>6. fresh \in SUBSET [path : Path, hash : Hash]
  BY <1>5, RowFacts DEF View, updatedObjects, UpdatedRows
<1>7. A \in SUBSET Row
  BY <1>2, <1>6, RowFacts
<1>8. /\ objects' = (objects \ t.stopped)
                      \cup {[r EXCEPT !.stop = t.next] : r \in t.stopped} \cup A
      /\ latest' = [latest EXCEPT ![t.project] = t.next]
      /\ used' = used /\ Finish(s)
  BY <1>3 DEF CommitClone, Pending
<1>9. ASSUME NEW a \in A
      PROVE  /\ a.project = t.project /\ a.start = t.next /\ Live(a)
             /\ \A b \in A : a.path = b.path => a = b
             /\ \A r \in LiveRows(objects, t.project) \ t.stopped : r.path # a.path
  <2>1. PICK e \in fresh : a = NewRow(t.project, t.next, e.path, e.hash)
    BY <1>9
  <2>2. a.project = t.project /\ a.start = t.next /\ Live(a) /\ a.path = e.path
    BY <2>1 DEF NewRow, Live
  <2>3. ASSUME NEW b \in A, a.path = b.path PROVE a = b
    <3>1. PICK f \in fresh : b = NewRow(t.project, t.next, f.path, f.hash)
      BY <2>3
    <3>2. f.path = e.path
      BY <2>2, <2>3, <3>1 DEF NewRow
    <3>3. e = f
      BY <1>2, <1>3, <1>4, <3>2, ViewUnique DEF StoreInv
    <3> QED
      BY <2>1, <3>1, <3>3
  <2>4. ASSUME NEW r \in LiveRows(objects, t.project) \ t.stopped, r.path = a.path PROVE FALSE
    <3>1. Entry(r) \in t.seen /\ Entry(r).path = e.path
      BY <1>1, <2>2, <2>4 DEF CloneInv, Entry
    <3>2. Entry(r) = e
      BY <1>2, <1>3, <1>4, <3>1, ViewUnique DEF StoreInv
    <3>3. r \in LiveRows(rows, t.project)
      BY <1>1, PendingLive
    <3> QED
      BY <3>2, <3>3 DEF IsIdentical
  <2> QED
    BY <2>2, <2>3, <2>4
<1> HIDE DEF A
<1>10. /\ DisjointLives' /\ NoFutureRows' /\ UsedInv'
       /\ \A r \in Row : r.project # t.project => (r \in objects' <=> r \in objects)
  BY <1>1, <1>2, <1>7, <1>8, <1>9, PublishRows
<1>11. \A s2 \in Session \ {s} : SessionInv(s2)'
  <2>1. \A s2 \in Session \ {s} : tx[s2].project = t.project =>
          ~HoldsLock(tx[s2]) /\ tx[s2].op # "new"
    <3> SUFFICES ASSUME NEW s2 \in Session \ {s}, tx[s2].project = t.project
                 PROVE  ~HoldsLock(tx[s2]) /\ tx[s2].op # "new"
      OBVIOUS
    <3>1. t.project \in used
      BY <1>1, <1>2 DEF StoreInv, UsedInv, LockInv
    <3> QED
      BY <1>1, <3>1 DEF StoreInv, Alone, NewInv
  <2>2. \A s2 \in Session \ {s} : tx'[s2] = tx[s2]
    BY <1>8, IdleAfter
  <2>3. /\ latest'[t.project] = t.next
        /\ latest[t.project] # Absent /\ latest[t.project] <= latest'[t.project]
        /\ \A q \in Project \ {t.project} : latest'[q] = latest[q]
    BY <1>1, <1>2, <1>8 DEF TypeOK, LockInv
  <2> QED
    BY <1>2, <1>8, <1>10, <2>1, <2>2, <2>3, OtherSessions
<1>12. SessionInv(s)' /\ \A s1, s2 \in Session : Alone(s1, s2)'
  BY <1>8, IdleAfter, AloneAfter
<1> QED
  BY <1>10, <1>11, <1>12 DEF StoreInv, SessionInv

LEMMA InvCommitNewProject ==
  ASSUME TypeOK, TypeOK', StoreInv, NEW s \in Session, CommitNewProject(s)
  PROVE  StoreInv'
<1> DEFINE t == tx[s]
           p == t.project
<1>1. t \in Tx /\ t.op = "new" /\ NewInv(t) /\ p \in Project /\ t.source \in Project
  BY DEF TypeOK, StoreInv, CommitNewProject, Tx
<1>2. /\ objects' = objects \cup t.added
      /\ latest' = [latest EXCEPT ![p] = latest[t.source]]
      /\ used' = used \cup {p} /\ Finish(s)
  BY DEF CommitNewProject
<1>3. /\ latest[t.source] \in Nat
      /\ latest'[p] = latest[t.source]
      /\ \A q \in Project \ {p} : latest'[q] = latest[q]
  BY <1>1, <1>2 DEF CommitNewProject, TypeOK
<1>4. p \notin used /\ \A r \in objects : r.project # p
  BY <1>1 DEF NewInv, StoreInv, UsedInv
<1>5. \A a \in t.added : /\ a.project = p /\ Live(a) /\ a.start <= latest[t.source]
                         /\ \A b \in t.added : a.path = b.path => a = b
  BY <1>1, <1>3 DEF NewInv
<1>6. DisjointLives'
  <2>1. \A r \in objects' : Live(r) \/ r.start < r.stop
    BY <1>2, <1>5 DEF StoreInv, DisjointLives
  <2>2. ASSUME NEW r1 \in objects', NEW r2 \in objects',
               r1.project = r2.project, r1.path = r2.path, r1 # r2
        PROVE  Before(r1, r2) \/ Before(r2, r1)
    BY <1>2, <1>4, <1>5, <2>2 DEF StoreInv, DisjointLives
  <2> QED
    BY <2>1, <2>2 DEF DisjointLives, Live, Before
<1>7. NoFutureRows'
  <2> SUFFICES ASSUME NEW r \in objects', latest'[r.project] # Absent
               PROVE  r.start <= latest'[r.project] /\ (Live(r) \/ r.stop <= latest'[r.project])
    BY DEF NoFutureRows, Live
  <2>1. CASE r \in objects
    <3>1. r.project \in Project \ {p}
      BY <1>4, <2>1 DEF TypeOK, Row
    <3> QED
      BY <1>3, <2>1, <3>1 DEF StoreInv, NoFutureRows
  <2>2. CASE r \in t.added
    BY <1>3, <1>5, <2>2
  <2> QED
    BY <1>2, <2>1, <2>2
<1>8. UsedInv'
  <2>1. \A q \in Project : latest'[q] # Absent => q \in used'
    BY <1>2, <1>3 DEF StoreInv, UsedInv
  <2>2. \A r \in objects' : r.project \in used'
    BY <1>2, <1>5 DEF StoreInv, UsedInv
  <2> QED
    BY <2>1, <2>2 DEF UsedInv
<1>9. \A s2 \in Session \ {s} : SessionInv(s2)'
  <2>1. ASSUME NEW s2 \in Session \ {s}, tx[s2].project = p
        PROVE  ~HoldsLock(tx[s2]) /\ tx[s2].op # "new"
    <3>1. latest[p] = Absent
      BY <1>1, <1>4 DEF StoreInv, UsedInv
    <3>2. ~HoldsLock(tx[s2])
      BY <2>1, <3>1 DEF StoreInv, LockInv
    <3>3. tx[s2].op # "new"
      BY <1>1, <2>1 DEF StoreInv, Alone
    <3> QED
      BY <3>2, <3>3
  <2>2. \A s2 \in Session \ {s} : tx'[s2] = tx[s2]
    BY <1>2, IdleAfter
  <2>3. \A r \in Row : r.project # p => (r \in objects' <=> r \in objects)
    BY <1>2, <1>5
  <2>4. used' \in {used, used \cup {p}}
    BY <1>2
  <2>5. \A s2 \in Session \ {s} : tx[s2].project = p =>
          ~HoldsLock(tx[s2]) /\ (tx[s2].op = "new" => used' = used)
    BY <2>1
  <2> HIDE DEF p
  <2> QED
    BY <1>1, <1>3, <1>4, <2>2, <2>3, <2>4, <2>5, OtherSessions
<1>10. SessionInv(s)' /\ \A s1, s2 \in Session : Alone(s1, s2)'
  BY <1>2, IdleAfter, AloneAfter
<1> QED
  BY <1>6, <1>7, <1>8, <1>9, <1>10 DEF StoreInv, SessionInv

(* Rows that only go keep the rows' order.                                    *)
LEMMA FewerRows ==
  ASSUME TypeOK, StoreInv, objects' \subseteq objects,
         \A q \in Project : latest'[q] \in {Absent, latest[q]},
         used \subseteq used'
  PROVE  DisjointLives' /\ NoFutureRows' /\ UsedInv'
<1>1. DisjointLives'
  BY DEF StoreInv, DisjointLives, Live, Before
<1>2. NoFutureRows'
  <2> SUFFICES ASSUME NEW r \in objects', latest'[r.project] # Absent
               PROVE  r.start <= latest'[r.project] /\ (Live(r) \/ r.stop <= latest'[r.project])
    BY DEF NoFutureRows, Live
  <2>1. r \in objects /\ r.project \in Project
    BY DEF TypeOK, Row
  <2>2. latest'[r.project] = latest[r.project]
    BY <2>1
  <2> QED
    BY <2>1, <2>2 DEF StoreInv, NoFutureRows
<1>3. UsedInv'
  BY DEF StoreInv, UsedInv
<1> QED
  BY <1>1, <1>2, <1>3

LEMMA InvDeleteProject ==
  ASSUME TypeOK, TypeOK', StoreInv, NEW s \in Session, DeleteProject(s)
  PROVE  StoreInv'
<1> DEFINE t == tx[s]
           p == t.project
<1>1. t \in Tx /\ t.op = "delete" /\ p \in Project
  BY DEF TypeOK, DeleteProject, Tx
<1>2. /\ objects' = {r \in objects : r.project = p => \A d \in t.stopped : ~SameRow(r, d)}
      /\ latest' = [latest EXCEPT ![p] = Absent]
      /\ used' = used /\ Finish(s)
  BY DEF DeleteProject
<1>3. latest'[p] = Absent /\ \A q \in Project \ {p} : latest'[q] = latest[q]
  BY <1>1, <1>2 DEF TypeOK
<1>4. DisjointLives' /\ NoFutureRows' /\ UsedInv'
  BY <1>2, <1>3, FewerRows
<1>5. \A s2 \in Session \ {s} : tx'[s2] = tx[s2]
  BY <1>2, IdleAfter
<1>6. \A s2 \in Session \ {s} : SessionInv(s2)'
  <2>1. \A s2 \in Session \ {s} : tx[s2].project = p => ~HoldsLock(tx[s2])
    BY DEF DeleteProject, Locked, HoldsLock
  <2>2. \A r \in Row : r.project # p => (r \in objects' <=> r \in objects)
    BY <1>2
  <2>3. used' = used
    BY <1>2
  <2> HIDE DEF p
  <2> QED
    BY <1>1, <1>3, <1>5, <2>1, <2>2, <2>3, OtherSessions
<1>7. SessionInv(s)' /\ \A s1, s2 \in Session : Alone(s1, s2)'
  BY <1>2, IdleAfter, AloneAfter
<1> QED
  BY <1>4, <1>6, <1>7 DEF StoreInv, SessionInv

-----------------------------------------------------------------------------
(* Steps outside the sessions' transactions.                                  *)

LEMMA AloneUnchanged ==
  ASSUME StoreInv, tx' = tx
  PROVE  \A s1, s2 \in Session : Alone(s1, s2)'
  BY DEF StoreInv, Alone, HoldsLock

LEMMA InvCreateProject ==
  ASSUME SafeUse, TypeOK, TypeOK', StoreInv, NEW p \in Project, CreateProject(p)
  PROVE  StoreInv'
<1>1. /\ tx' = tx /\ objects' = objects /\ used' = used \cup {p}
      /\ latest'[p] = 0 /\ \A q \in Project \ {p} : latest'[q] = latest[q]
  BY DEF CreateProject, TypeOK
<1>2. p \notin used /\ latest[p] = Absent
  BY DEF CreateProject, CanCreate, SafeUse
<1>3. \A r \in objects : r.project \in Project \ {p}
  BY <1>2 DEF StoreInv, UsedInv, TypeOK, Row
<1>4. DisjointLives'
  BY <1>1 DEF StoreInv, DisjointLives, Live, Before
<1>5. NoFutureRows'
  BY <1>1, <1>3 DEF StoreInv, NoFutureRows, Live
<1>6. UsedInv'
  BY <1>1 DEF StoreInv, UsedInv
<1>7. \A s \in Session : SessionInv(s)'
  <2>1. \A s \in Session : tx[s].project = p => ~HoldsLock(tx[s]) /\ tx[s].op # "new"
    BY <1>2 DEF StoreInv, LockInv, CreateProject, CanCreate
  <2>2. \A s \in Session : tx'[s] = tx[s]
    BY <1>1
  <2>3. used' \in {used, used \cup {p}} /\ Session \in SUBSET Session
    BY <1>1
  <2>4. \A r \in Row : r.project # p => (r \in objects' <=> r \in objects)
    BY <1>1
  <2> QED
    BY <1>1, <1>2, <2>1, <2>2, <2>3, <2>4, OtherSessions
<1> QED
  BY <1>1, <1>4, <1>5, <1>6, <1>7, AloneUnchanged DEF StoreInv, SessionInv

(* Rolling back leaves every row that was there at the version as it was then *)
(* and drops the others, so the lives of a path's rows stay apart.            *)
Reverted(x, p, v) ==
  [x EXCEPT !.stop = IF x.project = p /\ ~Live(x) /\ x.stop > v THEN Null ELSE @]

LEMMA RevertedFields ==
  ASSUME NEW p, NEW v, NEW x \in Row
  PROVE  LET r == Reverted(x, p, v)
         IN  /\ r.project = x.project /\ r.path = x.path /\ r.start = x.start
             /\ r.stop = IF x.project = p /\ ~Live(x) /\ x.stop > v THEN Null ELSE x.stop
  BY DEF Reverted, Row

LEMMA ResetRowsFacts ==
  ASSUME TypeOK, NEW p, NEW v, NEW r \in ResetRows(objects, p, v)
  PROVE  \E x \in objects : r = Reverted(x, p, v) /\ (x.project = p => x.start <= v)
<1> DEFINE Revived(x) == x.project = p /\ ~Live(x) /\ x.stop > v
<1>1. \/ r \in objects /\ (r.project = p => r.start <= v) /\ ~Revived(r)
      \/ \E x \in objects : /\ (x.project = p => x.start <= v) /\ Revived(x)
                            /\ r = [x EXCEPT !.stop = Null]
  BY DEF ResetRows
<1>2. CASE r \in objects /\ (r.project = p => r.start <= v) /\ ~Revived(r)
  <2>1. r \in Row
    BY <1>2 DEF TypeOK
  <2>2. r = Reverted(r, p, v)
    BY <1>2, <2>1 DEF Reverted, Row
  <2> QED
    BY <1>2, <2>2
<1>3. ASSUME NEW x \in objects, (x.project = p => x.start <= v), Revived(x),
             r = [x EXCEPT !.stop = Null]
      PROVE  r = Reverted(x, p, v)
  BY <1>3 DEF Reverted
<1> HIDE DEF Revived
<1> QED
  BY <1>1, <1>2, <1>3

LEMMA ResetRowsSafe ==
  ASSUME TypeOK, StoreInv, NEW p \in Project, NEW v \in Nat,
         objects' \subseteq ResetRows(objects, p, v),
         latest'[p] \in {Absent, v},
         \A q \in Project \ {p} : latest'[q] \in {Absent, latest[q]},
         latest'[p] # Absent => latest[p] # Absent,
         used' = used
  PROVE  DisjointLives' /\ NoFutureRows' /\ UsedInv'
<1> DEFINE From(r, x) ==
             /\ r = Reverted(x, p, v) /\ (x.project = p => x.start <= v)
             /\ r.project = x.project /\ r.path = x.path /\ r.start = x.start
             /\ r.stop = IF x.project = p /\ ~Live(x) /\ x.stop > v THEN Null ELSE x.stop
<1>1. \A r \in objects' : \E x \in objects : From(r, x)
  BY ResetRowsFacts, RevertedFields DEF TypeOK
<1>2. \A x \in objects : /\ x.start \in Nat /\ (Live(x) \/ x.stop \in Nat)
                         /\ Live(x) \/ x.start < x.stop
                         /\ x.project \in Project /\ x.project \in used
  BY DEF TypeOK, Row, Live, StoreInv, DisjointLives, UsedInv
<1>3. ASSUME NEW r \in objects' PROVE Live(r) \/ r.start < r.stop
  <2>1. PICK x \in objects : From(r, x)
    BY <1>1
  <2> QED
    BY <1>2, <2>1 DEF Live
<1>4. ASSUME NEW r1 \in objects', NEW r2 \in objects',
             r1.project = r2.project, r1.path = r2.path, r1 # r2
      PROVE  Before(r1, r2) \/ Before(r2, r1)
  <2>1. PICK x1 \in objects : From(r1, x1)
    BY <1>1
  <2>2. PICK x2 \in objects : From(r2, x2)
    BY <1>1
  <2>3. ASSUME Before(x1, x2) PROVE Before(r1, r2)
    BY <1>2, <2>1, <2>2, <2>3, <1>4 DEF Before, Live
  <2>4. ASSUME Before(x2, x1) PROVE Before(r2, r1)
    BY <1>2, <2>1, <2>2, <2>4, <1>4 DEF Before, Live
  <2>5. x1 # x2
    BY <1>4, <2>1, <2>2
  <2> QED
    BY <1>4, <2>1, <2>2, <2>3, <2>4, <2>5 DEF StoreInv, DisjointLives
<1>5. DisjointLives'
  BY <1>3, <1>4 DEF DisjointLives, Live, Before
<1>6. NoFutureRows'
  <2> SUFFICES ASSUME NEW r \in objects', latest'[r.project] # Absent
               PROVE  r.start <= latest'[r.project] /\ (Live(r) \/ r.stop <= latest'[r.project])
    BY DEF NoFutureRows, Live
  <2>1. PICK x \in objects : From(r, x)
    BY <1>1
  <2>2. CASE x.project = p
    BY <1>2, <2>1, <2>2 DEF Live
  <2>3. CASE x.project # p
    <3>1. latest'[r.project] = latest[x.project]
      BY <1>2, <2>1, <2>3
    <3>2. x.start <= latest[x.project] /\ (Live(x) \/ x.stop <= latest[x.project])
      BY <2>1, <3>1 DEF StoreInv, NoFutureRows
    <3> QED
      BY <2>1, <2>3, <3>1, <3>2 DEF Live
  <2> QED
    BY <2>2, <2>3
<1>7. UsedInv'
  <2>1. \A q \in Project : latest'[q] # Absent => q \in used'
    BY DEF StoreInv, UsedInv
  <2>2. \A r \in objects' : r.project \in used'
    BY <1>1, <1>2
  <2> QED
    BY <2>1, <2>2 DEF UsedInv
<1> QED
  BY <1>5, <1>6, <1>7

LEMMA InvRollback ==
  ASSUME SafeUse, TypeOK, TypeOK', StoreInv,
         NEW p \in Rollbacks, NEW v \in Version, Rollback(p, v)
  PROVE  StoreInv'
<1>0. p \in Project /\ p \notin Templates /\ v \in Nat
  BY StoreAssumption DEF SafeUse, Version
<1>1. /\ objects' = ResetRows(objects, p, v) /\ tx' = tx /\ used' = used
      /\ latest'[p] = ResetVersion(p, v) /\ \A q \in Project \ {p} : latest'[q] = latest[q]
  BY <1>0 DEF Rollback, TypeOK
<1>2. latest'[p] \in {Absent, v} /\ (latest'[p] # Absent => latest[p] # Absent)
  BY <1>1 DEF ResetVersion
<1>3. DisjointLives' /\ NoFutureRows' /\ UsedInv'
  BY <1>0, <1>1, <1>2, ResetRowsSafe
<1>4. \A s \in Session : SessionInv(s)'
  <2>1. \A s \in Session : tx[s].project = p => ~HoldsLock(tx[s])
    BY DEF Rollback, Locked, HoldsLock
  <2>2. \A s \in Session : tx'[s] = tx[s]
    BY <1>1
  <2>3. \A r \in Row : r.project # p => (r \in objects' <=> r \in objects)
    <3> SUFFICES ASSUME NEW r \in Row, r.project # p PROVE r \in objects' <=> r \in objects
      OBVIOUS
    <3>1. r \in objects => r \in objects'
      BY <1>1 DEF ResetRows
    <3>2. ASSUME r \in objects' PROVE r \in objects
      <4>1. PICK x \in objects : r = Reverted(x, p, v)
        BY <1>1, <3>2, ResetRowsFacts
      <4>2. x \in Row /\ x.project # p
        BY <4>1, RevertedFields DEF TypeOK
      <4>3. Reverted(x, p, v) = x
        BY <4>2 DEF Reverted, Row
      <4> QED
        BY <4>1, <4>3
    <3> QED
      BY <3>1, <3>2
  <2>4. used' = used /\ Session \in SUBSET Session
    BY <1>1
  <2> QED
    BY <1>0, <1>1, <2>1, <2>2, <2>3, <2>4, OtherSessions
<1> QED
  BY <1>1, <1>3, <1>4, AloneUnchanged DEF StoreInv, SessionInv

(* Reset deletes every template, so a copy of one in progress fails.          *)
LEMMA InvReset ==
  ASSUME SafeUse, TypeOK, TypeOK', StoreInv,
         NEW p \in Rollbacks, NEW v \in Version, Reset(p, v)
  PROVE  StoreInv'
<1>0. p \in Project /\ p \notin Templates /\ v \in Nat
  BY StoreAssumption DEF SafeUse, Version
<1>1. /\ objects' \subseteq ResetRows(objects, p, v) /\ tx' = tx /\ used' = used
      /\ latest'[p] = ResetVersion(p, v) /\ \A q \in Project \ {p} : latest'[q] = Absent
  BY <1>0 DEF Reset, DropOtherProjects
<1>2. latest'[p] \in {Absent, v} /\ (latest'[p] # Absent => latest[p] # Absent)
  BY <1>1 DEF ResetVersion
<1>3. DisjointLives' /\ NoFutureRows' /\ UsedInv'
  BY <1>0, <1>1, <1>2, ResetRowsSafe
<1>4. ASSUME NEW s \in Session PROVE SessionInv(s)'
  <2>1. tx[s] \in Tx /\ SessionInv(s)
    BY DEF TypeOK, StoreInv, SessionInv
  <2>2. ~HoldsLock(tx[s])
    BY <2>1 DEF Reset, Locked, HoldsLock, Tx
  <2>3. tx[s].op = "new" => tx[s].source \in Project \ {p} /\ tx[s].project \notin used
    BY <1>0, <2>1 DEF SessionInv, NewInv, Tx
  <2>4. Undisturbed(s)
    BY <1>1, <2>2, <2>3 DEF Undisturbed
  <2> QED
    BY <2>1, <2>4, Frame
<1> QED
  BY <1>1, <1>3, <1>4, AloneUnchanged DEF StoreInv, SessionInv

LEMMA InvResetAll ==
  ASSUME TypeOK, StoreInv, ResetAll
  PROVE  StoreInv'
<1>1. \A s \in Session : tx'[s] = tx[s] /\ tx[s].op = "idle"
  BY DEF ResetAll, Idle
<1>2. DisjointLives' /\ NoFutureRows' /\ UsedInv'
  BY DEF ResetAll, DisjointLives, NoFutureRows, UsedInv
<1>3. \A s \in Session : SessionInv(s)'
  BY <1>1 DEF SessionInv, LockInv, HoldsLock, UpdateInv, CloneInv, NewInv
<1>4. \A s1, s2 \in Session : Alone(s1, s2)'
  BY <1>1 DEF Alone, HoldsLock
<1> QED
  BY <1>2, <1>3, <1>4 DEF StoreInv, SessionInv

(* Collecting old objects touches no live row, so the open transactions do    *)
(* not notice it.                                                             *)
LEMMA InvGcProjectObjects ==
  ASSUME TypeOK, TypeOK', StoreInv, NEW p \in Project, NEW keep, NEW from,
         GcProjectObjects(p, keep, from)
  PROVE  StoreInv'
<1>1. /\ objects' \subseteq objects /\ \A r \in objects : Live(r) => r \in objects'
      /\ tx' = tx /\ used' = used /\ latest' = latest
  BY DEF GcProjectObjects, GcDead
<1>2. DisjointLives' /\ NoFutureRows' /\ UsedInv'
  BY <1>1, FewerRows
<1>3. ASSUME NEW s \in Session PROVE SessionInv(s)'
  <2>1. tx[s] \in Tx /\ SessionInv(s)
    BY DEF TypeOK, StoreInv, SessionInv
  <2>2. \A q : LiveRows(objects', q) = LiveRows(objects, q)
    BY <1>1 DEF LiveRows
  <2>3. tx[s].op = "new" => tx[s].source \in Project /\ tx[s].project \notin used
    BY <2>1 DEF SessionInv, NewInv, Tx
  <2>4. tx[s].op = "new" => latest[tx[s].source] \in Int
    BY <2>3 DEF TypeOK
  <2>5. Undisturbed(s)
    BY <1>1, <2>2, <2>3, <2>4 DEF Undisturbed
  <2> QED
    BY <2>1, <2>5, Frame
<1> QED
  BY <1>1, <1>2, <1>3, AloneUnchanged DEF StoreInv, SessionInv

(* Steps that write only the contents, or the collector's memory.             *)
LEMMA InvUnchanged ==
  ASSUME StoreInv, UNCHANGED <<latest, objects, used, tx>>
  PROVE  StoreInv'
  BY DEF StoreInv, DisjointLives, NoFutureRows, UsedInv, LockInv, UpdateInv, CloneInv,
         NewInv, Alone, HoldsLock, LiveRows, Live, Before

LEMMA InvInit ==
  ASSUME Init
  PROVE  StoreInv
<1>1. \A s \in Session : tx[s].op = "idle"
  BY DEF Init, Idle
<1>2. objects = {} /\ \A p \in Project : latest[p] = Absent
  BY DEF Init
<1> QED
  BY <1>1, <1>2 DEF StoreInv, DisjointLives, NoFutureRows, UsedInv, LockInv, HoldsLock,
                    UpdateInv, CloneInv, NewInv, Alone

LEMMA InvNext ==
  ASSUME SafeUse, TypeOK, TypeOK', StoreInv, [Next]_vars
  PROVE  StoreInv'
<1>1. ASSUME NEW s \in Session, UpdateStep(s)
      PROVE  StoreInv'
  <2>1. CASE \E p \in Project, batch \in Streams : LockLatestVersion(s, p, batch)
    BY <2>1, InvLock
  <2>2. CASE \E u \in tx[s].todo : DeleteObject(s, u)
    BY <2>2, WrittenDelete, InvWritten
  <2>3. CASE \E u \in tx[s].todo : InsertContent(s, u)
    BY <2>3, InvInsertContent
  <2>4. CASE \E u \in tx[s].todo : IdenticalObject(s, u) \/ IdenticalPack(s, u)
    BY <2>4, WrittenIdentical, InvWritten
  <2>5. CASE \E u \in tx[s].todo : UpdateObject(s, u)
    BY <2>5, WrittenObject, InvWritten
  <2>6. CASE \E u \in tx[s].todo : UpdatePackedObjects(s, u)
    BY <2>6, WrittenPack, InvWritten
  <2>7. CASE CommitUpdate(s)
    BY <2>7, InvCommitUpdate
  <2>8. CASE UnchangedUpdate(s)
    BY <2>8, FinishStep DEF UnchangedUpdate
  <2> QED
    BY <1>1, <2>1, <2>2, <2>3, <2>4, <2>5, <2>6, <2>7, <2>8 DEF UpdateStep
<1>2. ASSUME NEW s \in Session, ProjectStep(s)
      PROVE  StoreInv'
  <2>1. CASE \E template \in Templates, p \in Project : CopyAllObjects(s, template, p)
    BY <2>1, InvCopyAllObjects
  <2>2. CASE CommitNewProject(s)
    BY <2>2, InvCommitNewProject
  <2>3. CASE \E source \in Project, p \in Project, version \in Version :
               CloneRemoved(s, source, p, version)
    BY <2>3, InvCloneRemoved
  <2>4. CASE CommitClone(s)
    BY <2>4, InvCommitClone
  <2>5. CASE \E p \in Project : DeleteObjects(s, p)
    BY <2>5, InvDeleteObjects
  <2>6. CASE DeleteProject(s)
    BY <2>6, InvDeleteProject
  <2>7. CASE Abort(s)
    BY <2>7, FinishStep DEF Abort
  <2> QED
    BY <1>2, <2>1, <2>2, <2>3, <2>4, <2>5, <2>6, <2>7 DEF ProjectStep
<1>3. CASE AdminStep
  BY <1>3, InvCreateProject, InvRollback, InvReset, InvResetAll DEF AdminStep
<1>4. CASE GcStep
  <2>1. CASE \E p \in Project, keep \in Keeps, from \in Froms : GcProjectObjects(p, keep, from)
    BY <2>1, InvGcProjectObjects
  <2>2. CASE GcFail \/ \E c : RandomContents(c) \/ GcContentHashes(c)
    BY <2>2, InvUnchanged DEF GcFail, RandomContents, GcContentHashes
  <2> QED
    BY <1>4, <2>1, <2>2 DEF GcStep
<1>5. CASE UNCHANGED vars
  BY <1>5, InvUnchanged DEF vars
<1> QED
  BY <1>1, <1>2, <1>3, <1>4, <1>5 DEF Next

(* Under SafeUse every reachable state has the structure StoreInv describes.  *)
THEOREM StructureInvariant == SafeUse => (Spec => []StoreInv)
<1> SUFFICES ASSUME SafeUse PROVE Spec => []StoreInv
  OBVIOUS
<1>1. TypeOK /\ TypeOK' /\ StoreInv /\ [Next]_vars => StoreInv'
  BY InvNext
<1>2. Init => StoreInv
  BY InvInit
<1> QED
  BY <1>1, <1>2, TypeCorrect, PTL DEF Spec

(* The lives of the objects of a path never overlap: whatever updates,        *)
(* clones, copies, rollbacks, deletions and collections run concurrently.     *)
THEOREM LivesNeverOverlap == SafeUse => (Spec => []DisjointLives)
<1> SUFFICES ASSUME SafeUse PROVE Spec => []DisjointLives
  OBVIOUS
<1>1. StoreInv => DisjointLives
  BY DEF StoreInv
<1> QED
  BY <1>1, StructureInvariant, PTL

(* No committed row is ahead of the version of its project.                   *)
THEOREM RowsNeverAhead == SafeUse => (Spec => []NoFutureRows)
<1> SUFFICES ASSUME SafeUse PROVE Spec => []NoFutureRows
  OBVIOUS
<1>1. StoreInv => NoFutureRows
  BY DEF StoreInv
<1> QED
  BY <1>1, StructureInvariant, PTL

=============================================================================
