-------------------------- MODULE ClientSyncProofs --------------------------
(* Proofs about ClientSync, for any tree of names, any files and any number   *)
(* of versions: the state is well typed; a rebuild that was cut short         *)
(* anywhere is completed by calling it again for the same version; and        *)
(* between calls the directory is what its version file says, apart from      *)
(* edits that the next Update finds.                                          *)
EXTENDS ClientSync, TLAPS

(* The rows.  A row of one path ends before the next one begins.  A file is   *)
(* over before a path inside it begins: the directory never has to become a   *)
(* file again.  And no two paths inside a former file are there together.     *)

Row == [project : {project}, start : Nat \ {0}, stop : Nat \cup {Null}, path : Path, hash : Hash]
Entries == [path : Path, hash : Hash]

Before(r1, r2) == ~Live(r1) /\ r1.stop <= r2.start
LiveAt(r, v) == r.start <= v /\ (Live(r) \/ r.stop > v)

Bounded(rs, last) ==
  \A r \in rs : r.start <= last /\ (Live(r) \/ (r.start < r.stop /\ r.stop <= last))
Apart(rs) == \A r1, r2 \in rs : r1.path = r2.path => r1 = r2 \/ Before(r1, r2) \/ Before(r2, r1)
FileFirst(rs) == \A r1, r2 \in rs : r1.path \notin Dir /\ r2.path \in Inside[r1.path] => Before(r1, r2)
Lone(rs) ==
  \A r, r1, r2 \in rs : r.path \notin Dir /\ r1.path \in Inside[r.path] /\ r2.path \in Inside[r.path]
                        => r1.path = r2.path \/ Before(r1, r2) \/ Before(r2, r1)
Known(rs) == \A r \in rs : r.path \in Theirs \cup Mine

History(rs, last) ==
  rs \subseteq Row /\ Bounded(rs, last) /\ Apart(rs) /\ FileFirst(rs) /\ Lone(rs) /\ Known(rs)

At(rs, v) == View(rs, project, v)
Put(rs, v, t) == updatedObjects(rs, project, v, t)
Gone(rs, v, t) == removedObjects(rs, project, v, t)

(* What the queries answer between two versions "old" and "new": the entries  *)
(* U to write and the paths R to remove.                                      *)

Once(view) == \A e, f \in view : e.path = f.path => e = f
Outside(files, view) == \A e \in files, f \in view : e.path \notin Dir => f.path \notin Inside[e.path]
Alone(files, view) ==
  \A e \in files, f, g \in view :
    e.path \notin Dir /\ f.path \in Inside[e.path] /\ g.path \in Inside[e.path] => f.path = g.path

Change(old, new, U, R) ==
  /\ old \subseteq Entries /\ new \subseteq Entries
  /\ Once(old) /\ Once(new)
  /\ Outside(old, old) /\ Outside(new, new) /\ Outside(new, old) /\ Alone(old, new)
  /\ U \subseteq new /\ new \ U \subseteq old
  /\ \A e \in old \ new : \/ e.path \in R
                          \/ \E u \in U : u.path = e.path /\ e.path \notin Dir
                          \/ \E u \in U : u.path \in Inside[e.path]
  /\ \A q \in R : /\ \E e \in old : e.path = q
                  /\ q \notin Dir => \A e \in new : e.path # q
                  /\ \A u \in U : u.path \notin Inside[q]

-----------------------------------------------------------------------------
(* The queries.                                                               *)

LEMMA RowFacts ==
  ASSUME NEW rs \in SUBSET Row, NEW r \in rs
  PROVE  /\ r.start \in Nat /\ r.start > 0 /\ r.project = project
         /\ Live(r) \/ r.stop \in Nat
         /\ Entry(r) \in Entries /\ Entry(r).path = r.path /\ Entry(r).hash = r.hash
         /\ r.path \in Path
  BY DEF Row, Entry, Entries, Live

LEMMA ViewRows ==
  ASSUME NEW rs \in SUBSET Row, NEW v
  PROVE  At(rs, v) = {Entry(r) : r \in {x \in rs : LiveAt(x, v)}}
<1>1. \A r \in rs : r.project = project /\ r.start > 0
  BY RowFacts
<1> QED
  BY <1>1 DEF At, View, updatedObjects, UpdatedRows, LiveAt

LEMMA PutRows ==
  ASSUME NEW rs \in SUBSET Row, NEW v, NEW t
  PROVE  Put(rs, v, t) = {Entry(r) : r \in {x \in rs : LiveAt(x, t) /\ x.start > v}}
<1>1. \A r \in rs : r.project = project
  BY RowFacts
<1> QED
  BY <1>1 DEF Put, updatedObjects, UpdatedRows, LiveAt

(* The row of a removed path.                                                 *)
Ended(r, v, t) == r.start <= v /\ ~Live(r) /\ r.stop > v /\ r.stop <= t

PathsOf(rs) == {r.path : r \in rs}
EntriesOf(rs) == {Entry(r) : r \in rs}

(* The removed paths that no updated entry stands for.                        *)
Bare(paths, U) ==
  {q \in paths : /\ ~(q \notin Dir /\ q \in {u.path : u \in U})
                 /\ Inside[q] \cap {u.path : u \in U} = {}}

LEMMA GoneRows ==
  ASSUME NEW rs \in SUBSET Row, NEW v, NEW t
  PROVE  Gone(rs, v, t) = Bare(PathsOf({x \in rs : Ended(x, v, t)}), Put(rs, v, t))
<1>1. \A r \in rs : r.project = project
  BY RowFacts
<1> QED
  BY <1>1 DEF Gone, Put, removedObjects, Ended, Bare, PathsOf

(* The queries between two versions describe the change of the files.         *)
LEMMA QueriesDescribe ==
  ASSUME NEW rs, NEW last \in Nat, History(rs, last),
         NEW v \in Nat, NEW t \in Nat, v <= t
  PROVE  Change(At(rs, v), At(rs, t), Put(rs, v, t), Gone(rs, v, t))
<1> DEFINE old == At(rs, v)
           new == At(rs, t)
           U == Put(rs, v, t)
           R == Gone(rs, v, t)
<1>0. rs \in SUBSET Row /\ Apart(rs) /\ FileFirst(rs) /\ Lone(rs)
  BY DEF History
<1>1. /\ old = {Entry(r) : r \in {x \in rs : LiveAt(x, v)}}
      /\ new = {Entry(r) : r \in {x \in rs : LiveAt(x, t)}}
      /\ U = {Entry(r) : r \in {x \in rs : LiveAt(x, t) /\ x.start > v}}
  BY <1>0, ViewRows, PutRows
<1>2. R = {q \in {r.path : r \in {x \in rs : Ended(x, v, t)}} :
              /\ ~(q \notin Dir /\ q \in {u.path : u \in U})
              /\ Inside[q] \cap {u.path : u \in U} = {}}
  <2>1. R = Bare(PathsOf({x \in rs : Ended(x, v, t)}), U)
    BY <1>0, GoneRows
  <2> QED
    BY <2>1 DEF Bare, PathsOf
<1>3. ASSUME NEW r \in rs
      PROVE  /\ r.start \in Nat /\ (Live(r) \/ r.stop \in Nat)
             /\ Entry(r) \in Entries /\ Entry(r).path = r.path
  BY <1>0, RowFacts
<1> HIDE DEF old, new, U, R
<1>4. ASSUME NEW r1 \in rs, NEW r2 \in rs, NEW w \in Nat, LiveAt(r1, w), LiveAt(r2, w),
             r1.path = r2.path
      PROVE  r1 = r2
  BY <1>0, <1>3, <1>4 DEF Apart, Before, LiveAt
<1>5. ASSUME NEW r1 \in rs, NEW r2 \in rs, NEW w1 \in Nat, NEW w2 \in Nat, w2 <= w1,
             LiveAt(r1, w1), LiveAt(r2, w2), r1.path \notin Dir
      PROVE  r2.path \notin Inside[r1.path]
  <2> SUFFICES ASSUME r2.path \in Inside[r1.path]
               PROVE  FALSE
    OBVIOUS
  <2>1. Before(r1, r2)
    BY <1>0, <1>5 DEF FileFirst
  <2> QED
    BY <1>3, <1>5, <2>1 DEF Before, LiveAt
<1>6. old \subseteq Entries /\ new \subseteq Entries
  BY <1>1, <1>3
<1>7. Once(old) /\ Once(new)
  BY <1>1, <1>3, <1>4 DEF Once
<1>8. Outside(old, old) /\ Outside(new, new) /\ Outside(new, old)
  BY <1>1, <1>3, <1>5 DEF Outside
<1>a. Alone(old, new)
  <2>1. ASSUME NEW r \in rs, NEW r1 \in rs, NEW r2 \in rs, LiveAt(r1, t), LiveAt(r2, t),
               r.path \notin Dir, r1.path \in Inside[r.path], r2.path \in Inside[r.path]
        PROVE  r1.path = r2.path
    <3>1. ~Before(r1, r2) /\ ~Before(r2, r1)
      BY <1>3, <2>1 DEF Before, LiveAt
    <3> QED
      BY <1>0, <2>1, <3>1 DEF Lone
  <2> QED
    BY <1>1, <1>3, <2>1 DEF Alone
<1>9. U \subseteq new
  BY <1>1
<1>10. new \ U \subseteq old
  <2> SUFFICES ASSUME NEW r \in rs, LiveAt(r, t), Entry(r) \notin U
               PROVE  LiveAt(r, v)
    BY <1>1
  <2>1. ~(r.start > v)
    BY <1>1
  <2> QED
    BY <1>3, <2>1 DEF LiveAt
<1>11. ASSUME NEW e \in old, e \notin new
       PROVE  \/ e.path \in R
              \/ \E u \in U : u.path = e.path /\ e.path \notin Dir
              \/ \E u \in U : u.path \in Inside[e.path]
  <2>1. PICK r \in rs : LiveAt(r, v) /\ e = Entry(r)
    BY <1>1, <1>11
  <2>2. Ended(r, v, t) /\ e.path = r.path
    <3>1. ~LiveAt(r, t)
      BY <1>1, <1>11, <2>1
    <3> QED
      BY <1>3, <2>1, <3>1 DEF LiveAt, Ended
  <2> QED
    BY <1>2, <2>2
<1>12. ASSUME NEW q \in R
       PROVE  /\ \E e \in old : e.path = q
              /\ q \notin Dir => \A e \in new : e.path # q
              /\ \A u \in U : u.path \notin Inside[q]
  <2>1. PICK r \in rs : Ended(r, v, t) /\ r.path = q
    BY <1>2, <1>12
  <2>2. LiveAt(r, v) /\ ~LiveAt(r, t)
    BY <1>3, <2>1 DEF Ended, LiveAt
  <2>3. ASSUME q \notin Dir, NEW x \in rs, LiveAt(x, t), x.path = q
        PROVE  FALSE
    <3>1. ~(x.start > v)
      <4>1. x.start > v => Entry(x) \in U /\ Entry(x).path = q
        BY <1>1, <1>3, <2>3
      <4> QED
        BY <1>2, <1>12, <2>3, <4>1
    <3>2. LiveAt(x, v)
      BY <1>3, <2>3, <3>1 DEF LiveAt
    <3> QED
      BY <1>4, <2>1, <2>2, <2>3, <3>2
  <2>4. \A u \in U : u.path \notin Inside[q]
    BY <1>2, <1>12
  <2> QED
    BY <1>1, <1>3, <2>1, <2>2, <2>3, <2>4
<1> QED
  BY <1>6, <1>7, <1>8, <1>a, <1>9, <1>10, <1>11, <1>12 DEF Change, old, new, U, R

-----------------------------------------------------------------------------
(* The disk.                                                                  *)

Disk == [Node -> Hash \cup {Missing, Folder}]

(* What exists is in directories.                                             *)
Rooted(d) == \A n \in Node : d[n] # Missing => \A m \in Above(n) : d[m] = Folder

FileHere(e, n) == e.path \notin Dir /\ NodeOf[e.path] = n

Holds(d, view) == \A n \in Node : FileAt(d, n) = FileOf(view, n)

(* The disk on its way from "old" to "new", wherever it was left.             *)
Between(d, old, new, U) ==
  /\ \A e \in new \ U : e.path \notin Dir => d[NodeOf[e.path]] = e.hash
  /\ \A n \in Node : d[n] \in Hash => \E e \in old \cup new : FileHere(e, n)

(* An object with this path and these contents is left to write.              *)
Left(P, q, h) == \E o \in P : o.path = q /\ o.hash = h

(* What is not as in "new" yet is still to be written or removed, or a path   *)
(* inside it is still to be written.                                          *)
Accounted(d, P, old, new, U) ==
  /\ \A u \in U : u.path \notin Dir => d[NodeOf[u.path]] = u.hash \/ Left(P, u.path, u.hash)
  /\ \A e \in old : e.path \notin Dir /\ (\A f \in new : ~FileHere(f, NodeOf[e.path])) =>
       \/ d[NodeOf[e.path]] \notin Hash
       \/ Left(P, e.path, Null)
       \/ \E u \in U : u.path \in Inside[e.path] /\ Left(P, u.path, u.hash)

(* What retryFileErrors removes for object o is a file of "old", or a         *)
(* directory that took its place.                                             *)
Replaces(o, old) ==
  \E e \in old : /\ e.path \notin Dir /\ o.path \in Inside[e.path]
                 /\ \A n \in Target(o) : NodeOf[e.path] \in Above(n) \cup {n}

(* The objects that are left to write are those of the queries.               *)
Genuine(P, old, U, R) ==
  \A o \in P : /\ o.hash = Null => o.path \in R
               /\ o.hash # Null => [path |-> o.path, hash |-> o.hash] \in U
               /\ o.step = "clear" /\ o.kind # "open" => Replaces(o, old)

LEMMA FileOfFacts ==
  ASSUME NEW view \in SUBSET Entries, Once(view), NEW n
  PROVE  /\ \A e \in view : FileHere(e, n) => FileOf(view, n) = e.hash
         /\ (\A e \in view : ~FileHere(e, n)) => FileOf(view, n) = Missing
         /\ FileOf(view, n) # Missing => \E e \in view : FileHere(e, n) /\ FileOf(view, n) = e.hash
<1> DEFINE here == {e \in view : NodeOf[e.path] = n /\ e.path \notin Dir}
<1>1. \A e, f \in here : e = f
  BY TreeAssumption DEF Once, Entries
<1>2. here # {} => (CHOOSE e \in here : TRUE) \in here
  OBVIOUS
<1>3. FileOf(view, n) = IF here = {} THEN Missing ELSE (CHOOSE e \in here : TRUE).hash
  BY DEF FileOf
<1> HIDE DEF here
<1>4. \A e \in view : FileHere(e, n) <=> e \in here
  BY DEF here, FileHere
<1>5. here \subseteq view
  BY DEF here
<1> QED
  BY <1>1, <1>2, <1>3, <1>4, <1>5

(* Holds, without FileOf.                                                     *)
LEMMA HoldsMeans ==
  ASSUME NEW d \in Disk, NEW view \in SUBSET Entries, Once(view)
  PROVE  Holds(d, view) <=>
           /\ \A e \in view : e.path \notin Dir => d[NodeOf[e.path]] = e.hash
           /\ \A n \in Node : d[n] \in Hash => \E e \in view : FileHere(e, n)
<1>1. \A e \in view : NodeOf[e.path] \in Node /\ e.hash \in Hash
  BY SyncAssumption DEF Entries
<1>2. Missing \notin Hash
  BY SyncAssumption
<1>3. ASSUME Holds(d, view), NEW e \in view, e.path \notin Dir
      PROVE  d[NodeOf[e.path]] = e.hash
  <2>1. FileOf(view, NodeOf[e.path]) = e.hash
    BY <1>3, FileOfFacts DEF FileHere
  <2> QED
    BY <1>1, <1>2, <1>3, <2>1 DEF Holds, FileAt, IsFile
<1>4. ASSUME Holds(d, view), NEW n \in Node, d[n] \in Hash
      PROVE  \E e \in view : FileHere(e, n)
  <2>1. FileOf(view, n) # Missing
    BY <1>2, <1>4 DEF Holds, FileAt, IsFile
  <2> QED
    BY <2>1, FileOfFacts
<1>5. ASSUME \A e \in view : e.path \notin Dir => d[NodeOf[e.path]] = e.hash,
             \A n \in Node : d[n] \in Hash => \E e \in view : FileHere(e, n),
             NEW n \in Node
      PROVE  FileAt(d, n) = FileOf(view, n)
  <2>1. CASE \E e \in view : FileHere(e, n)
    <3>1. PICK e \in view : FileHere(e, n)
      BY <2>1
    <3>2. FileOf(view, n) = e.hash
      BY <3>1, FileOfFacts
    <3> QED
      BY <1>1, <1>5, <3>1, <3>2 DEF FileHere, FileAt, IsFile
  <2>2. CASE \A e \in view : ~FileHere(e, n)
    <3>1. FileOf(view, n) = Missing
      BY <2>2, FileOfFacts
    <3> QED
      BY <1>5, <2>2, <3>1 DEF FileAt, IsFile
  <2> QED
    BY <2>1, <2>2
<1> QED
  BY <1>3, <1>4, <1>5 DEF Holds

(* A directory at "old" is on its way to any later files.                     *)
LEMMA StartBetween ==
  ASSUME NEW old, NEW new, NEW U, NEW R, Change(old, new, U, R),
         NEW d \in Disk, Holds(d, old)
  PROVE  Between(d, old, new, U)
  BY HoldsMeans DEF Change, Between

(* At first everything is left to write.                                      *)
LEMMA StartAccounted ==
  ASSUME NEW old, NEW new, NEW U, NEW R, Change(old, new, U, R), NEW d, NEW P,
         \A u \in U : Left(P, u.path, u.hash),
         \A q \in R : Left(P, q, Null)
  PROVE  Accounted(d, P, old, new, U)
<1> SUFFICES ASSUME NEW e \in old, e.path \notin Dir,
                    \A f \in new : ~FileHere(f, NodeOf[e.path])
             PROVE  \/ Left(P, e.path, Null)
                    \/ \E u \in U : u.path \in Inside[e.path] /\ Left(P, u.path, u.hash)
  BY DEF Accounted
<1>1. e \notin new /\ \A u \in U : u.path # e.path
  BY DEF Change, FileHere
<1> QED
  BY <1>1 DEF Change

(* When nothing is left to write, the directory has the files of "new".       *)
LEMMA EndHolds ==
  ASSUME NEW old, NEW new, NEW U, NEW R, Change(old, new, U, R), NEW d \in Disk,
         Between(d, old, new, U), Accounted(d, {}, old, new, U)
  PROVE  Holds(d, new)
<1>1. \A q, h : ~Left({}, q, h)
  BY DEF Left
<1>2. ASSUME NEW e \in new, e.path \notin Dir
      PROVE  d[NodeOf[e.path]] = e.hash
  BY <1>1, <1>2 DEF Between, Accounted
<1>3. ASSUME NEW n \in Node, d[n] \in Hash
      PROVE  \E e \in new : FileHere(e, n)
  <2>1. PICK e \in old \cup new : FileHere(e, n)
    BY <1>3 DEF Between
  <2> QED
    BY <1>1, <1>3, <2>1 DEF Accounted, FileHere
<1> QED
  BY <1>2, <1>3, HoldsMeans DEF Change

-----------------------------------------------------------------------------
(* What a write does to the disk: directories are made, a file is put at a    *)
(* node, or a node is dropped.                                                *)

SameFiles(d, dd) == \A m \in Node : d[m] \in Hash \/ dd[m] \in Hash => dd[m] = d[m]
Puts(d, dd, n, h) ==
  \A m \in Node : dd[m] = IF m = n THEN h
                          ELSE IF m \in Under[n] THEN Missing
                          ELSE IF m \in Above(n) THEN Folder ELSE d[m]
Drops(d, dd, n) ==
  \A m \in Node : IF m = n THEN dd[m] \notin Hash /\ dd[m] \in {d[m], Missing} ELSE dd[m] = d[m]

(* What is left after an object with this path and these contents.            *)
More(P, Q) == \A q, h : Left(P, q, h) => Left(Q, q, h)
Less(P, Q, q0, h0) == \A q, h : Left(P, q, h) => Left(Q, q, h) \/ (q = q0 /\ h = h0)

(* Node n and those above it are directories.                                 *)
Standing(d, n) == \A m \in Above(n) \cup {n} : d[m] = Folder

(* What is left when directories were made and their markers are done.        *)
LeftAfter(P, Q, d) ==
  \A q, h : Left(P, q, h) => Left(Q, q, h) \/ (q \in Dir /\ h # Null /\ Standing(d, NodeOf[q]))

LEMMA AboveFacts ==
  /\ \A n \in Node : Above(n) \subseteq Node /\ Under[n] \subseteq Node /\ n \notin Under[n]
  /\ \A n, m : n \in Node => (m \in Above(n) <=> m \in Node /\ n \in Under[m])
  /\ \A n, m, k \in Node : m \in Under[n] /\ k \in Under[m] => k \in Under[n]
  BY SyncAssumption, TreeAssumption DEF Above

LEMMA RootedKept ==
  ASSUME NEW d \in Disk, Rooted(d), NEW n \in Node
  PROVE  /\ Rooted(MkdirParents(d, n)) /\ Rooted(MkdirAll(d, n)) /\ Rooted(RemoveAll(d, n))
         /\ \A dd, h : Puts(d, dd, n, h) => Rooted(dd)
         /\ (\A m \in Under[n] : d[m] = Missing) => Rooted([d EXCEPT ![n] = Missing])
         /\ d[n] # Folder => \A m \in Under[n] : d[m] = Missing
<1>1. Rooted(MkdirParents(d, n))
  BY AboveFacts DEF Rooted, MkdirParents
<1>2. Rooted(MkdirAll(d, n))
  BY AboveFacts DEF Rooted, MkdirAll
<1>3. Rooted(RemoveAll(d, n))
  <2> SUFFICES ASSUME NEW k \in Node, k \notin Under[n] \cup {n}, d[k] # Missing, NEW m \in Above(k)
               PROVE  m \notin Under[n] \cup {n} /\ d[m] = Folder
    BY AboveFacts DEF Rooted, RemoveAll
  <2>1. m \in Node /\ k \in Under[m] /\ d[m] = Folder
    BY AboveFacts DEF Rooted
  <2> QED
    BY <2>1, AboveFacts
<1>4. ASSUME NEW dd, NEW h, Puts(d, dd, n, h)
      PROVE  Rooted(dd)
  <2> SUFFICES ASSUME NEW k \in Node, dd[k] # Missing, NEW m \in Above(k)
               PROVE  dd[m] = Folder
    BY DEF Rooted
  <2>1. m \in Node /\ k \notin Under[n] /\ k \in Under[m]
    BY <1>4, AboveFacts DEF Puts
  <2>2. m # n /\ m \notin Under[n]
    BY <2>1, AboveFacts
  <2>3. CASE m \in Above(n)
    BY <1>4, <2>1, <2>2, <2>3 DEF Puts
  <2>4. CASE m \notin Above(n)
    <3>1. k # n /\ k \notin Above(n)
      BY <2>1, <2>4, AboveFacts
    <3>2. d[k] # Missing /\ dd[m] = d[m]
      BY <1>4, <2>1, <2>2, <2>4, <3>1 DEF Puts
    <3> QED
      BY <3>2 DEF Rooted
  <2> QED
    BY <2>3, <2>4
<1>5. ASSUME \A m \in Under[n] : d[m] = Missing
      PROVE  Rooted([d EXCEPT ![n] = Missing])
  <2> DEFINE dd == [d EXCEPT ![n] = Missing]
  <2>1. \A m \in Node : dd[m] = IF m = n THEN Missing ELSE d[m]
    BY DEF Disk
  <2> HIDE DEF dd
  <2> SUFFICES ASSUME NEW k \in Node, dd[k] # Missing, NEW m \in Above(k)
               PROVE  dd[m] = Folder
    BY DEF Rooted, dd
  <2>2. d[k] # Missing /\ m \in Node /\ k \in Under[m]
    BY <2>1, AboveFacts
  <2>3. m # n
    BY <1>5, <2>2
  <2> QED
    BY <2>1, <2>2, <2>3 DEF Rooted
<1>6. ASSUME d[n] # Folder, NEW m \in Under[n]
      PROVE  d[m] = Missing
  BY <1>6, AboveFacts DEF Rooted
<1> QED
  BY <1>1, <1>2, <1>3, <1>4, <1>5, <1>6

(* Entries of which neither is inside the other are at nodes of which neither *)
(* is under the other.                                                        *)
LEMMA NodesApart ==
  ASSUME NEW e \in Entries, NEW f \in Entries, e.path \notin Dir
  PROVE  /\ NodeOf[e.path] \in Node /\ NodeOf[f.path] \in Node
         /\ f.path \notin Inside[e.path] =>
              NodeOf[e.path] \notin Above(NodeOf[f.path]) /\ NodeOf[f.path] \notin Under[NodeOf[e.path]]
         /\ f.path \in Dir /\ f.path \notin Inside[e.path] => NodeOf[f.path] # NodeOf[e.path]
         /\ f.path \notin Dir /\ f.path # e.path => NodeOf[f.path] # NodeOf[e.path]
         /\ f.path \in Inside[e.path] =>
              \/ NodeOf[e.path] \in Above(NodeOf[f.path])
              \/ f.path \in Dir /\ NodeOf[f.path] = NodeOf[e.path]
<1>1. e.path \in Path \ Dir /\ f.path \in Path
  BY DEF Entries
<1>2. NodeOf[e.path] \in Node /\ NodeOf[f.path] \in Node
  BY <1>1, SyncAssumption
<1> QED
  BY <1>1, <1>2, TreeAssumption DEF Above

(* A file is put.                                                             *)
LEMMA PutKeeps ==
  ASSUME NEW old, NEW new, NEW U, NEW R, Change(old, new, U, R),
         NEW d \in Disk, NEW dd \in Disk, Between(d, old, new, U),
         NEW u \in U, u.path \notin Dir, Puts(d, dd, NodeOf[u.path], u.hash)
  PROVE  /\ Between(dd, old, new, U)
         /\ \A P, Q : Accounted(d, P, old, new, U) /\ Less(P, Q, u.path, u.hash)
                        => Accounted(dd, Q, old, new, U)
<1> DEFINE n == NodeOf[u.path]
<1>0. /\ u \in new /\ new \subseteq Entries /\ old \subseteq Entries /\ U \subseteq new
      /\ Once(new) /\ Outside(new, new) /\ Missing \notin Hash /\ Folder \notin Hash
      /\ n \in Node /\ u.hash \in Hash
  BY SyncAssumption DEF Change, Entries
<1>1. dd[n] = u.hash
  BY <1>0 DEF Puts
<1>2. ASSUME NEW e \in new, e # u, e.path \notin Dir
      PROVE  dd[NodeOf[e.path]] = d[NodeOf[e.path]]
  <2>1. e.path # u.path /\ e.path \notin Inside[u.path] /\ u.path \notin Inside[e.path]
    BY <1>0, <1>2 DEF Once, Outside
  <2>2. NodeOf[e.path] \in Node /\ NodeOf[e.path] # n /\ NodeOf[e.path] \notin Under[n] /\ NodeOf[e.path] \notin Above(n)
    BY <1>0, <1>2, <2>1, NodesApart
  <2> QED
    BY <2>2 DEF Puts
<1>3. ASSUME NEW m \in Node, m # n, dd[m] \in Hash
      PROVE  d[m] = dd[m] /\ m \notin Above(n)
  BY <1>0, <1>3 DEF Puts
<1>4. Between(dd, old, new, U)
  <2>1. \A e \in new \ U : e.path \notin Dir => dd[NodeOf[e.path]] = e.hash
    BY <1>2 DEF Between
  <2>2. ASSUME NEW m \in Node, dd[m] \in Hash
        PROVE  \E e \in old \cup new : FileHere(e, m)
    BY <1>0, <1>3, <2>2 DEF Between, FileHere
  <2> QED
    BY <2>1, <2>2 DEF Between
<1>5. ASSUME NEW P, NEW Q, Accounted(d, P, old, new, U), Less(P, Q, u.path, u.hash)
      PROVE  Accounted(dd, Q, old, new, U)
  <2>1. ASSUME NEW w \in U, w.path \notin Dir
        PROVE  dd[NodeOf[w.path]] = w.hash \/ Left(Q, w.path, w.hash)
    <3>1. CASE w = u
      BY <1>1, <3>1
    <3>2. CASE w # u
      <4>1. w.path # u.path /\ dd[NodeOf[w.path]] = d[NodeOf[w.path]]
        BY <1>0, <1>2, <2>1, <3>2 DEF Once
      <4> QED
        BY <1>5, <2>1, <4>1 DEF Accounted, Less
    <3> QED
      BY <3>1, <3>2
  <2>2. ASSUME NEW e \in old, e.path \notin Dir, \A f \in new : ~FileHere(f, NodeOf[e.path]),
               dd[NodeOf[e.path]] \in Hash
        PROVE  \/ Left(Q, e.path, Null)
               \/ \E w \in U : w.path \in Inside[e.path] /\ Left(Q, w.path, w.hash)
    <3>1. NodeOf[e.path] # n /\ NodeOf[e.path] \in Node
      BY <1>0, <2>2, NodesApart DEF FileHere
    <3>2. d[NodeOf[e.path]] \in Hash /\ NodeOf[e.path] \notin Above(n)
      BY <1>3, <2>2, <3>1
    <3>3. u.path \notin Inside[e.path]
      BY <1>0, <2>2, <3>1, <3>2, NodesApart
    <3>4. CASE Left(P, e.path, Null)
      <4>1. u.hash # Null
        BY <1>0, SyncAssumption
      <4> QED
        BY <1>5, <3>4, <4>1 DEF Less
    <3>5. CASE \E w \in U : w.path \in Inside[e.path] /\ Left(P, w.path, w.hash)
      BY <1>5, <3>3, <3>5 DEF Less
    <3> QED
      BY <1>5, <2>2, <3>2, <3>4, <3>5 DEF Accounted
  <2> QED
    BY <2>1, <2>2 DEF Accounted
<1> QED
  BY <1>4, <1>5

(* Directories are made where no file is, and their markers are done.         *)
LEMMA MadeKeeps ==
  ASSUME NEW old, NEW new, NEW U, NEW R, Change(old, new, U, R),
         NEW d \in Disk, NEW dd \in Disk, Between(d, old, new, U), SameFiles(d, dd)
  PROVE  /\ Between(dd, old, new, U)
         /\ \A P, Q : Accounted(d, P, old, new, U) /\ LeftAfter(P, Q, dd)
                        => Accounted(dd, Q, old, new, U)
<1>0. /\ new \subseteq Entries /\ old \subseteq Entries /\ U \subseteq new
      /\ Folder \notin Hash /\ \A e \in Entries : NodeOf[e.path] \in Node /\ e.hash \in Hash
  BY SyncAssumption DEF Change, Entries
<1>1. Between(dd, old, new, U)
  <2>1. \A e \in new \ U : e.path \notin Dir => dd[NodeOf[e.path]] = e.hash
    BY <1>0 DEF Between, SameFiles
  <2>2. \A m \in Node : dd[m] \in Hash => d[m] \in Hash
    BY DEF SameFiles
  <2> QED
    BY <2>1, <2>2 DEF Between
<1>2. ASSUME NEW P, NEW Q, Accounted(d, P, old, new, U), LeftAfter(P, Q, dd)
      PROVE  Accounted(dd, Q, old, new, U)
  <2>1. ASSUME NEW w \in U, w.path \notin Dir
        PROVE  dd[NodeOf[w.path]] = w.hash \/ Left(Q, w.path, w.hash)
    BY <1>0, <1>2, <2>1 DEF Accounted, SameFiles, LeftAfter
  <2>2. ASSUME NEW e \in old, e.path \notin Dir, \A f \in new : ~FileHere(f, NodeOf[e.path]),
               dd[NodeOf[e.path]] \in Hash
        PROVE  \/ Left(Q, e.path, Null)
               \/ \E w \in U : w.path \in Inside[e.path] /\ Left(Q, w.path, w.hash)
    <3>1. d[NodeOf[e.path]] \in Hash
      BY <1>0, <2>2 DEF SameFiles
    <3>2. CASE Left(P, e.path, Null)
      BY <1>2, <3>2 DEF LeftAfter
    <3>3. CASE \E w \in U : w.path \in Inside[e.path] /\ Left(P, w.path, w.hash)
      <4>1. PICK w \in U : w.path \in Inside[e.path] /\ Left(P, w.path, w.hash)
        BY <3>3
      <4>2. NodeOf[e.path] \in Above(NodeOf[w.path]) \/ NodeOf[w.path] = NodeOf[e.path]
        BY <1>0, <2>2, <4>1, NodesApart
      <4>3. ~Standing(dd, NodeOf[w.path])
        BY <1>0, <2>2, <4>2 DEF Standing
      <4> QED
        BY <1>2, <4>1, <4>3 DEF LeftAfter
    <3> QED
      BY <1>2, <2>2, <3>1, <3>2, <3>3 DEF Accounted
  <2> QED
    BY <2>1, <2>2 DEF Accounted
<1> QED
  BY <1>1, <1>2

(* A removed path is dropped.                                                 *)
LEMMA DropKeeps ==
  ASSUME NEW old, NEW new, NEW U, NEW R, Change(old, new, U, R),
         NEW d \in Disk, NEW dd \in Disk, Between(d, old, new, U),
         NEW q \in R, Drops(d, dd, NodeOf[q])
  PROVE  /\ Between(dd, old, new, U)
         /\ \A P, Q : Accounted(d, P, old, new, U) /\ Less(P, Q, q, Null)
                        => Accounted(dd, Q, old, new, U)
<1> DEFINE n == NodeOf[q]
<1>0. /\ new \subseteq Entries /\ old \subseteq Entries /\ U \subseteq new
      /\ Outside(new, old) /\ \A e \in Entries : e.hash # Null
  BY SyncAssumption DEF Change, Entries
<1>1. PICK g \in old : g.path = q
  BY DEF Change
<1>2. ASSUME NEW e \in new, e.path \notin Dir
      PROVE  NodeOf[e.path] \in Node /\ NodeOf[e.path] # n
  <2>1. q \notin Inside[e.path]
    BY <1>0, <1>1, <1>2 DEF Outside
  <2>2. q \notin Dir => e.path # q
    BY <1>2 DEF Change
  <2> QED
    BY <1>0, <1>1, <1>2, <2>1, <2>2, NodesApart
<1>3. ASSUME NEW m \in Node, dd[m] \in Hash
      PROVE  d[m] = dd[m] /\ m # n
  BY <1>3 DEF Drops
<1>4. Between(dd, old, new, U)
  BY <1>2, <1>3 DEF Between, Drops
<1>5. ASSUME NEW P, NEW Q, Accounted(d, P, old, new, U), Less(P, Q, q, Null)
      PROVE  Accounted(dd, Q, old, new, U)
  <2>1. ASSUME NEW w \in U
        PROVE  Left(P, w.path, w.hash) => Left(Q, w.path, w.hash)
    BY <1>0, <1>5 DEF Less
  <2>2. ASSUME NEW w \in U, w.path \notin Dir
        PROVE  dd[NodeOf[w.path]] = w.hash \/ Left(Q, w.path, w.hash)
    <3>1. dd[NodeOf[w.path]] = d[NodeOf[w.path]]
      BY <1>0, <1>2, <2>2 DEF Drops
    <3> QED
      BY <1>5, <2>1, <2>2, <3>1 DEF Accounted
  <2>3. ASSUME NEW e \in old, e.path \notin Dir, \A f \in new : ~FileHere(f, NodeOf[e.path]),
               dd[NodeOf[e.path]] \in Hash
        PROVE  \/ Left(Q, e.path, Null)
               \/ \E w \in U : w.path \in Inside[e.path] /\ Left(Q, w.path, w.hash)
    <3>1. NodeOf[e.path] \in Node
      BY <1>0, <2>3, NodesApart
    <3>2. d[NodeOf[e.path]] \in Hash /\ e.path # q
      BY <1>3, <2>3, <3>1
    <3> QED
      BY <1>5, <2>1, <2>3, <3>2 DEF Accounted, Less
  <2> QED
    BY <2>2, <2>3 DEF Accounted
<1> QED
  BY <1>4, <1>5

(* What stands at the place of an object is removed before it is written: an  *)
(* old pack, or what retryFileErrors removes.                                 *)
LEMMA ClearKeeps ==
  ASSUME NEW old, NEW new, NEW U, NEW R, Change(old, new, U, R),
         NEW d \in Disk, NEW dd \in Disk, Between(d, old, new, U),
         NEW u \in U, \A m \in Node : dd[m] = d[m] \/ dd[m] = Missing,
         \A e \in new : e # u /\ e.path \notin Dir => dd[NodeOf[e.path]] = d[NodeOf[e.path]]
  PROVE  /\ Between(dd, old, new, U)
         /\ \A P, Q : Accounted(d, P, old, new, U) /\ More(P, Q) /\ Left(Q, u.path, u.hash)
                        => Accounted(dd, Q, old, new, U)
<1>0. /\ u \in new /\ new \subseteq Entries /\ old \subseteq Entries /\ U \subseteq new
      /\ Missing \notin Hash /\ \A e \in Entries : NodeOf[e.path] \in Node
  BY SyncAssumption DEF Change, Entries
<1>1. \A m \in Node : dd[m] \in Hash => d[m] = dd[m]
  BY <1>0
<1>2. Between(dd, old, new, U)
  <2>1. \A e \in new \ U : e.path \notin Dir => dd[NodeOf[e.path]] = e.hash
    BY DEF Between
  <2> QED
    BY <1>1, <2>1 DEF Between
<1>3. ASSUME NEW P, NEW Q, Accounted(d, P, old, new, U), More(P, Q), Left(Q, u.path, u.hash)
      PROVE  Accounted(dd, Q, old, new, U)
  <2>1. ASSUME NEW w \in U, w.path \notin Dir
        PROVE  dd[NodeOf[w.path]] = w.hash \/ Left(Q, w.path, w.hash)
    BY <1>0, <1>3, <2>1 DEF Accounted, More
  <2>2. ASSUME NEW e \in old, e.path \notin Dir, \A f \in new : ~FileHere(f, NodeOf[e.path]),
               dd[NodeOf[e.path]] \in Hash
        PROVE  \/ Left(Q, e.path, Null)
               \/ \E w \in U : w.path \in Inside[e.path] /\ Left(Q, w.path, w.hash)
    BY <1>0, <1>1, <1>3, <2>2 DEF Accounted, More
  <2> QED
    BY <2>1, <2>2 DEF Accounted
<1> QED
  BY <1>2, <1>3

-----------------------------------------------------------------------------
(* The objects and what is written for them.                                  *)

LEMMA ObjectFacts ==
  ASSUME NEW o \in Object
  PROVE  /\ o.path \in Path /\ NodeOf[o.path] \in Node /\ o.hash \in Hash \cup {Null}
         /\ o.kind \in {"file", "open", "dir", "delete", "pack", "place"}
         /\ o.kind \in {"file", "open"} => o.path \notin Dir \cup Packed /\ o.hash \in Hash
         /\ o.kind = "dir" => o.path \in Dir /\ o.hash \in Hash
         /\ o.kind = "delete" => o.path \notin Packed /\ o.hash = Null
         /\ o.kind \in {"pack", "place"} => o.path \in Packed /\ o.path \notin Dir
         /\ o.kind = "place" => o.hash \in Hash
         /\ o.kind \in {"delete", "pack", "place"} => o.step = "try"
         /\ Null \notin Hash /\ Missing \notin Hash /\ Folder \notin Hash
<1>1. /\ Dir \subseteq Path /\ Packed \subseteq Path \ Dir /\ NodeOf \in [Path -> Node]
      /\ Null \notin Hash /\ Missing \notin Hash /\ Folder \notin Hash
  BY SyncAssumption, PathAssumption
<1>2. /\ o.path \in Path /\ o.hash \in Hash \cup {Null}
      /\ o.kind \in {"file", "open", "dir", "delete", "pack", "place"}
      /\ o.kind \in {"file", "open"} => o.path \notin Dir \cup Packed /\ o.hash \in Hash
      /\ o.kind = "dir" => o.path \in Dir /\ o.hash \in Hash
      /\ o.kind = "delete" => o.path \notin Packed /\ o.hash = Null
      /\ o.kind \in {"pack", "place"} => o.path \in Packed
      /\ o.kind = "place" => o.hash \in Hash
      /\ o.kind \in {"delete", "pack", "place"} => o.step = "try"
  BY <1>1 DEF Object
<1> QED
  BY <1>1, <1>2

(* What becomes of an object.                                                 *)
Opened(o) == [o EXCEPT !.kind = "open", !.step = "try"]
Stepped(o, step) == [o EXCEPT !.step = step]
Placed(o) == [o EXCEPT !.kind = "place"]

LEMMA OpenedFacts ==
  ASSUME NEW o \in Object, o.kind = "file"
  PROVE  /\ Opened(o) \in Object /\ Opened(o).path = o.path /\ Opened(o).hash = o.hash
         /\ Opened(o).kind = "open" /\ Opened(o).step = "try"
  BY DEF Object, Opened

LEMMA SteppedFacts ==
  ASSUME NEW o \in Object, o.kind \in {"file", "dir", "open"}, NEW step \in {"try", "clear", "again"}
  PROVE  /\ Stepped(o, step) \in Object /\ Stepped(o, step).path = o.path
         /\ Stepped(o, step).hash = o.hash /\ Stepped(o, step).kind = o.kind
         /\ Stepped(o, step).step = step
  BY DEF Object, Stepped

LEMMA PlacedFacts ==
  ASSUME NEW o \in Object, o.kind = "pack", o.hash # Null
  PROVE  /\ Placed(o) \in Object /\ Placed(o).path = o.path /\ Placed(o).hash = o.hash
         /\ Placed(o).kind = "place" /\ Placed(o).step = "try"
  BY DEF Object, Placed

(* A pack that is there is removed, and the new one put in its place.         *)
Replaced(d, o) == o.kind = "pack" /\ o.hash # Null /\ d[NodeOf[o.path]] # Missing

LEMMA DiskFacts ==
  ASSUME NEW d \in Disk, NEW n \in Node
  PROVE  /\ RemoveAll(d, n) \in Disk /\ MkdirAll(d, n) \in Disk /\ MkdirParents(d, n) \in Disk
         /\ [d EXCEPT ![n] = Missing] \in Disk
         /\ \A h \in Hash : [MkdirParents(d, n) EXCEPT ![n] = h] \in Disk
  BY DEF Disk, RemoveAll, MkdirAll, MkdirParents

LEMMA WrittenMeans ==
  ASSUME NEW d, NEW o \in Object
  PROVE  LET n == NodeOf[o.path]
         IN  /\ o.kind = "file" => Written(d, o) = MkdirParents(d, n)
             /\ o.kind = "dir" => Written(d, o) = MkdirAll(d, n)
             /\ o.kind = "delete" => Written(d, o) =
                  IF \E m \in Under[n] : d[m] # Missing THEN d ELSE [d EXCEPT ![n] = Missing]
             /\ (o.kind = "pack" /\ o.hash = Null) \/ Replaced(d, o) => Written(d, o) = RemoveAll(d, n)
             /\ o.kind \in {"open", "place"} \/ (o.kind = "pack" /\ o.hash # Null /\ d[n] = Missing)
                  => Written(d, o) = [MkdirParents(d, n) EXCEPT ![n] = o.hash]
  BY ObjectFacts DEF Written, Replaced

LEMMA WrittenType ==
  ASSUME NEW d \in Disk, NEW o \in Object
  PROVE  Written(d, o) \in Disk
<1> DEFINE n == NodeOf[o.path]
<1>1. n \in Node
  BY ObjectFacts
<1>2. /\ RemoveAll(d, n) \in Disk /\ MkdirAll(d, n) \in Disk /\ MkdirParents(d, n) \in Disk
      /\ [d EXCEPT ![n] = Missing] \in Disk
      /\ \A h \in Hash : [MkdirParents(d, n) EXCEPT ![n] = h] \in Disk
  BY <1>1, DiskFacts
<1> HIDE DEF n
<1>3. CASE o.kind \in {"file", "dir", "delete"}
  BY <1>2, <1>3, WrittenMeans DEF n
<1>4. CASE o.kind \in {"open", "place"}
  BY <1>2, <1>4, ObjectFacts, WrittenMeans DEF n
<1>5. CASE o.kind = "pack"
  <2>1. CASE o.hash = Null \/ d[n] # Missing
    BY <1>2, <1>5, <2>1, WrittenMeans DEF n, Replaced
  <2>2. CASE o.hash # Null /\ d[n] = Missing
    BY <1>2, <1>5, <2>2, ObjectFacts, WrittenMeans DEF n
  <2> QED
    BY <2>1, <2>2
<1> QED
  BY <1>3, <1>4, <1>5, ObjectFacts

(* The effects: directories, a file, or a node that is gone.                  *)
LEMMA WrittenMakes ==
  ASSUME NEW d \in Disk, NEW o \in Object, ~Blocked(d, o), o.kind \in {"file", "dir"}
  PROVE  LET n == NodeOf[o.path]
             dd == Written(d, o)
         IN  /\ SameFiles(d, dd)
             /\ \A m \in Node : d[m] = Folder => dd[m] = Folder
             /\ \A m \in Node : dd[m] = Folder => d[m] = Folder \/ m \in Above(n) \cup {n}
             /\ \A m \in Node : o.kind = "file" /\ dd[m] = Folder => d[m] = Folder \/ m \in Above(n)
             /\ \A m \in Above(n) : dd[m] = Folder
             /\ o.kind = "dir" => Standing(dd, n)
<1> DEFINE n == NodeOf[o.path]
<1>1. n \in Node /\ Above(n) \subseteq Node /\ Folder \notin Hash
  BY ObjectFacts, AboveFacts
<1>2. \A m \in Above(n) : d[m] \notin Hash
  BY DEF Blocked, NotDir, IsFile
<1>3. CASE o.kind = "file"
  <2>1. Written(d, o) = MkdirParents(d, n)
    BY <1>3, WrittenMeans
  <2> QED
    BY <1>1, <1>2, <1>3, <2>1 DEF MkdirParents, SameFiles, Standing
<1>4. CASE o.kind = "dir"
  <2>1. Written(d, o) = MkdirAll(d, n) /\ d[n] \notin Hash
    BY <1>4, WrittenMeans DEF Blocked, IsFile
  <2> QED
    BY <1>1, <1>2, <1>4, <2>1 DEF MkdirAll, SameFiles, Standing
<1> QED
  BY <1>3, <1>4

LEMMA WrittenPuts ==
  ASSUME NEW d \in Disk, Rooted(d), NEW o \in Object, ~Blocked(d, o),
         \/ o.kind \in {"open", "place"}
         \/ o.kind = "pack" /\ o.hash # Null /\ ~Replaced(d, o)
  PROVE  Puts(d, Written(d, o), NodeOf[o.path], o.hash) /\ o.hash \in Hash /\ o.path \notin Dir
<1> DEFINE n == NodeOf[o.path]
<1>0. n \in Node /\ o.hash \in Hash /\ o.path \notin Dir
  BY ObjectFacts
<1>1. \A m \in Under[n] : d[m] = Missing
  <2>1. CASE o.kind = "open"
    BY <1>0, <2>1, RootedKept DEF Blocked
  <2>2. CASE o.kind \in {"pack", "place"}
    BY <2>2, ObjectFacts, TreeAssumption
  <2> QED
    BY <2>1, <2>2
<1>2. Written(d, o) = [MkdirParents(d, n) EXCEPT ![n] = o.hash]
  BY WrittenMeans DEF Replaced
<1>3. \A m \in Node : Written(d, o)[m] = IF m = n THEN o.hash ELSE IF m \in Above(n) THEN Folder ELSE d[m]
  BY <1>2 DEF MkdirParents
<1>4. \A m \in Under[n] : m \notin Above(n)
  BY <1>0, AboveFacts
<1> QED
  BY <1>0, <1>1, <1>3, <1>4 DEF Puts

LEMMA WrittenDrops ==
  ASSUME NEW d \in Disk, Rooted(d), NEW o \in Object,
         o.kind = "delete" \/ (o.kind = "pack" /\ o.hash = Null) \/ Replaced(d, o)
  PROVE  LET n == NodeOf[o.path]
             dd == Written(d, o)
         IN  /\ Drops(d, dd, n)
             /\ \A m \in Node : d[m] = Folder => dd[m] = Folder \/ (m = n /\ \A k \in Under[n] : d[k] = Missing)
<1> DEFINE n == NodeOf[o.path]
           dd == Written(d, o)
<1>0. n \in Node /\ Missing \notin Hash /\ Folder \notin Hash /\ Under[n] \subseteq Node
  BY ObjectFacts, AboveFacts
<1>1. CASE o.kind = "delete"
  <2>1. dd = IF \E m \in Under[n] : d[m] # Missing THEN d ELSE [d EXCEPT ![n] = Missing]
    BY <1>1, WrittenMeans
  <2>2. (\E m \in Under[n] : d[m] # Missing) => d[n] \notin Hash
    BY <1>0, RootedKept
  <2> QED
    BY <1>0, <2>1, <2>2 DEF Drops, Disk
<1>2. CASE (o.kind = "pack" /\ o.hash = Null) \/ Replaced(d, o)
  <2>1. dd = RemoveAll(d, n) /\ Under[n] = {}
    BY <1>2, WrittenMeans, ObjectFacts, TreeAssumption DEF Replaced
  <2> QED
    BY <1>0, <2>1 DEF RemoveAll, Drops
<1> QED
  BY <1>1, <1>2

LEMMA WrittenRooted ==
  ASSUME NEW d \in Disk, Rooted(d), NEW o \in Object, ~Blocked(d, o)
  PROVE  Rooted(Written(d, o))
<1> DEFINE n == NodeOf[o.path]
<1>0. /\ n \in Node
      /\ Rooted(MkdirParents(d, n)) /\ Rooted(MkdirAll(d, n)) /\ Rooted(RemoveAll(d, n))
  BY ObjectFacts, RootedKept
<1>1. CASE o.kind = "file"
  <2>1. Written(d, o) = MkdirParents(d, n)
    BY <1>1, WrittenMeans
  <2> QED
    BY <1>0, <2>1
<1>2. CASE o.kind = "dir"
  <2>1. Written(d, o) = MkdirAll(d, n)
    BY <1>2, WrittenMeans
  <2> QED
    BY <1>0, <2>1
<1>3. CASE o.kind = "delete"
  BY <1>0, <1>3, WrittenMeans, RootedKept
<1>4. CASE o.kind \in {"open", "place"} \/ (o.kind = "pack" /\ o.hash # Null /\ ~Replaced(d, o))
  BY <1>0, <1>4, WrittenPuts, RootedKept
<1>5. CASE (o.kind = "pack" /\ o.hash = Null) \/ Replaced(d, o)
  <2>1. Written(d, o) = RemoveAll(d, n)
    BY <1>5, WrittenMeans
  <2> QED
    BY <1>0, <2>1
<1> QED
  BY <1>1, <1>2, <1>3, <1>4, <1>5, ObjectFacts

(* What is left after a write.                                                *)
Remains(P, Q, d, o) ==
  /\ o.kind \in {"file", "dir"} => LeftAfter(P, Q, Written(d, o))
  /\ Replaced(d, o) => More(P, Q)
  /\ ~Replaced(d, o) /\ o.kind \notin {"file", "dir"} => Less(P, Q, o.path, o.hash)

(* An object is written: everything that is not as in "new" is still          *)
(* accounted for by what is left.                                             *)
LEMMA WriteKeeps ==
  ASSUME NEW old, NEW new, NEW U, NEW R, Change(old, new, U, R),
         NEW d \in Disk, Rooted(d), Between(d, old, new, U),
         NEW P, Genuine(P, old, U, R), NEW o \in P, o \in Object, ~Blocked(d, o)
  PROVE  /\ Between(Written(d, o), old, new, U)
         /\ \A Q : Accounted(d, P, old, new, U) /\ Remains(P, Q, d, o)
                     => Accounted(Written(d, o), Q, old, new, U)
<1> DEFINE n == NodeOf[o.path]
           e == [path |-> o.path, hash |-> o.hash]
           dd == Written(d, o)
<1>1. dd \in Disk /\ n \in Node /\ e.path = o.path /\ e.hash = o.hash
  BY WrittenType, ObjectFacts
<1>2. (o.hash # Null => e \in U) /\ (o.hash = Null => o.path \in R) /\ Left(P, o.path, o.hash)
  BY DEF Genuine, Left
<1> HIDE DEF dd, e, n
<1>3. CASE o.kind \in {"file", "dir"}
  <2>1. SameFiles(d, dd)
    BY <1>3, WrittenMakes DEF dd
  <2>2. \A Q : Remains(P, Q, d, o) => LeftAfter(P, Q, dd)
    BY <1>3 DEF Remains, dd
  <2> QED
    BY <1>1, <2>1, <2>2, MadeKeeps DEF dd
<1>4. CASE o.kind \in {"open", "place"} \/ (o.kind = "pack" /\ o.hash # Null /\ ~Replaced(d, o))
  <2>1. Puts(d, dd, n, o.hash) /\ o.hash \in Hash /\ o.path \notin Dir
    BY <1>4, WrittenPuts DEF dd, n
  <2>2. o.hash # Null
    BY <2>1, ObjectFacts
  <2>3. \A Q : Remains(P, Q, d, o) => Less(P, Q, o.path, o.hash)
    BY <1>4 DEF Remains, Replaced
  <2> QED
    BY <1>1, <1>2, <2>1, <2>2, <2>3, PutKeeps DEF dd, n
<1>5. CASE o.kind = "delete" \/ (o.kind = "pack" /\ o.hash = Null)
  <2>1. Drops(d, dd, n)
    BY <1>5, WrittenDrops DEF dd, n
  <2>2. o.path \in R /\ o.hash = Null
    BY <1>2, <1>5, ObjectFacts
  <2>3. \A Q : Remains(P, Q, d, o) => Less(P, Q, o.path, Null)
    BY <1>5, <2>2 DEF Remains, Replaced
  <2> QED
    BY <1>1, <2>1, <2>2, <2>3, DropKeeps DEF dd, n
<1>6. CASE Replaced(d, o)
  <2>1. Drops(d, dd, n) /\ e \in U /\ o.path \notin Dir
    BY <1>2, <1>6, WrittenDrops, ObjectFacts DEF dd, n, Replaced
  <2>2. \A m \in Node : dd[m] = d[m] \/ dd[m] = Missing
    BY <2>1 DEF Drops
  <2>3. ASSUME NEW f \in new, f # e, f.path \notin Dir
        PROVE  dd[NodeOf[f.path]] = d[NodeOf[f.path]]
    <3>1. f.path # e.path /\ f \in Entries /\ e \in Entries
      BY <2>1, <2>3 DEF Change, Once
    <3>2. NodeOf[f.path] # n /\ NodeOf[f.path] \in Node
      BY <1>1, <2>1, <2>3, <3>1, NodesApart DEF n
    <3> QED
      BY <2>1, <3>2 DEF Drops
  <2>4. \A Q : Remains(P, Q, d, o) => More(P, Q) /\ Left(Q, e.path, e.hash)
    BY <1>1, <1>2, <1>6 DEF Remains, More
  <2> QED
    BY <1>1, <2>1, <2>2, <2>3, <2>4, ClearKeeps DEF dd
<1> QED
  BY <1>3, <1>4, <1>5, <1>6, ObjectFacts

(* A directory of an object cannot be made where a file of "old" is.          *)
LEMMA BlockedReplaces ==
  ASSUME NEW old, NEW new, NEW U, NEW R, Change(old, new, U, R), NEW d, Between(d, old, new, U),
         NEW o \in Object, [path |-> o.path, hash |-> o.hash] \in U,
         o.kind \in {"file", "dir"}, Blocked(d, o)
  PROVE  Replaces(o, old)
<1> DEFINE n == NodeOf[o.path]
           u == [path |-> o.path, hash |-> o.hash]
<1>0. /\ n \in Node /\ o.path \in Path /\ u \in new /\ u.path = o.path
      /\ old \subseteq Entries /\ new \subseteq Entries
  BY ObjectFacts DEF Change
<1>1. PICK k \in Node : d[k] \in Hash /\ (k \in Above(n) \/ (o.kind = "dir" /\ k = n))
  BY <1>0, AboveFacts DEF Blocked, NotDir, IsFile
<1>2. PICK e \in old \cup new : FileHere(e, k)
  BY <1>1 DEF Between
<1>3. e.path \in Path \ Dir /\ NodeOf[e.path] = k
  BY <1>0, <1>2 DEF FileHere, Entries
<1>4. o.path \in Inside[e.path]
  <2>1. n \in Under[k] \/ (o.path \in Dir /\ n = k)
    BY <1>0, <1>1, AboveFacts, ObjectFacts
  <2> QED
    BY <1>0, <1>3, <2>1, TreeAssumption
<1>5. e \in old
  BY <1>0, <1>2, <1>3, <1>4 DEF Change, Outside
<1>6. \A m \in Target(o) : k \in Above(m) \cup {m}
  BY <1>1 DEF Target, InDir
<1> QED
  BY <1>3, <1>4, <1>5, <1>6 DEF Replaces

(* What retryFileErrors removes is not of "new", but for the object itself.   *)
LEMMA RemovedKeeps ==
  ASSUME NEW old, NEW new, NEW U, NEW R, Change(old, new, U, R),
         NEW d \in Disk, Between(d, old, new, U),
         NEW P, Genuine(P, old, U, R), NEW o \in P, o \in Object, o.step = "clear", NEW n \in Target(o)
  PROVE  /\ n \in Node /\ o.hash # Null /\ o.kind \in {"file", "dir", "open"}
         /\ Between(RemoveAll(d, n), old, new, U)
         /\ \A Q : Accounted(d, P, old, new, U) /\ More(P, Q)
                     => Accounted(RemoveAll(d, n), Q, old, new, U)
<1> DEFINE u == [path |-> o.path, hash |-> o.hash]
           dd == RemoveAll(d, n)
<1>0. /\ NodeOf[o.path] \in Node /\ o.kind \in {"file", "dir", "open"} /\ o.hash # Null
      /\ u.path = o.path /\ u.hash = o.hash /\ o.path \in Path /\ Missing \notin Hash
  BY ObjectFacts
<1>1. n \in Node /\ (o.kind = "file" => n \in Above(NodeOf[o.path]))
  BY <1>0, AboveFacts DEF Target, InDir
<1>2. u \in U /\ u \in new /\ new \subseteq Entries /\ old \subseteq Entries
  BY <1>0 DEF Genuine, Change
<1>3. dd \in Disk /\ \A m \in Node : dd[m] = IF m \in Under[n] \cup {n} THEN Missing ELSE d[m]
  BY <1>1, DiskFacts DEF RemoveAll
<1> HIDE DEF dd, u
<1>4. ASSUME NEW f \in new, f # u, f.path \notin Dir
      PROVE  NodeOf[f.path] \in Node /\ NodeOf[f.path] \notin Under[n] \cup {n}
  <2>0. /\ f \in Entries /\ NodeOf[f.path] \in Node /\ f.path # o.path /\ f.path \in Path
    BY <1>0, <1>2, <1>4, NodesApart DEF Change, Once, Entries
  <2> SUFFICES ASSUME NodeOf[f.path] \in Under[n] \cup {n} PROVE FALSE
    BY <2>0
  <2>1. CASE o.kind = "open"
    <3>1. n = NodeOf[o.path] /\ o.path \notin Dir /\ u \in Entries
      BY <1>2, <2>1, ObjectFacts DEF Target
    <3>2. f.path \notin Inside[o.path]
      BY <1>0, <1>2, <3>1 DEF Change, Outside
    <3> QED
      BY <1>0, <1>4, <2>0, <3>1, <3>2, NodesApart
  <2>2. CASE o.kind # "open"
    <3>1. PICK e \in old : /\ e.path \notin Dir /\ o.path \in Inside[e.path]
                           /\ NodeOf[e.path] \in Above(n) \cup {n}
      BY <2>2 DEF Genuine, Replaces
    <3>2. NodeOf[f.path] \in Under[NodeOf[e.path]] \cup {NodeOf[e.path]} /\ e \in Entries
      BY <1>1, <1>2, <2>0, <3>1, AboveFacts
    <3>3. CASE NodeOf[f.path] = NodeOf[e.path]
      <4>1. f.path = e.path
        BY <1>4, <2>0, <3>1, <3>2, <3>3, NodesApart
      <4> QED
        BY <1>0, <1>2, <1>4, <3>1, <4>1 DEF Change, Outside
    <3>4. CASE NodeOf[f.path] \in Under[NodeOf[e.path]]
      <4>1. f.path \in Inside[e.path]
        BY <2>0, <3>1, <3>2, <3>4, NodesApart
      <4> QED
        BY <1>0, <1>2, <2>0, <3>1, <4>1 DEF Change, Alone
    <3> QED
      BY <3>2, <3>3, <3>4
  <2> QED
    BY <2>1, <2>2
<1>5. \A m \in Node : dd[m] = d[m] \/ dd[m] = Missing
  BY <1>3
<1>6. \A f \in new : f # u /\ f.path \notin Dir => dd[NodeOf[f.path]] = d[NodeOf[f.path]]
  BY <1>3, <1>4
<1>7. \A Q : More(P, Q) => Left(Q, u.path, u.hash)
  BY <1>0 DEF More, Left
<1>8. /\ Between(dd, old, new, U)
      /\ \A Q : Accounted(d, P, old, new, U) /\ More(P, Q) => Accounted(dd, Q, old, new, U)
  BY <1>2, <1>3, <1>5, <1>6, <1>7, ClearKeeps
<1> QED
  BY <1>0, <1>1, <1>8 DEF dd

-----------------------------------------------------------------------------
(* Updates and collection keep the past.                                      *)

(* The queries between versions lo and hi are answered alike.                 *)
Same(rs, ss, lo, hi) ==
  \A v \in lo .. hi : /\ At(rs, v) = At(ss, v)
                      /\ \A t \in lo .. hi : Put(rs, v, t) = Put(ss, v, t) /\ Gone(rs, v, t) = Gone(ss, v, t)

LEMMA PublishKeeps ==
  ASSUME latest \in Nat, History(rows, latest), NEW view \in SUBSET Entries,
         Once(view), Outside(view, view), \A e \in view : e.path \in Theirs \cup Mine,
         \A e \in view \ Files, r \in rows : e.path \in Dir \/ r.path \notin Inside[e.path],
         Alone(rows, view)
  PROVE  /\ History(PublishRows(view), latest + 1)
         /\ Same(rows, PublishRows(view), 0, latest)
         /\ At(PublishRows(view), latest + 1) = view
<1> DEFINE RR == PublishRows(view)
           Closed(r) == IF Live(r) /\ Entry(r) \notin view THEN [r EXCEPT !.stop = latest + 1] ELSE r
           Fresh(e) == [project |-> project, start |-> latest + 1, stop |-> Null,
                        path |-> e.path, hash |-> e.hash]
<1>0. /\ rows \in SUBSET Row /\ Bounded(rows, latest) /\ Apart(rows) /\ FileFirst(rows) /\ Known(rows)
      /\ Lone(rows) /\ latest + 1 \in Nat /\ latest < latest + 1 /\ latest + 1 > 0 /\ Null \notin Nat
  BY PathAssumption DEF History
<1>1. RR = {Closed(r) : r \in rows} \cup {Fresh(e) : e \in view \ Files}
  BY DEF PublishRows
<1>2. ASSUME NEW r \in rows
      PROVE  /\ r \in Row /\ r.start \in Nat /\ r.start <= latest /\ r.path \in Path
             /\ Live(r) \/ (r.stop \in Nat /\ r.start < r.stop /\ r.stop <= latest)
             /\ Entry(r) \in Entries /\ Entry(r).path = r.path
  BY <1>0, RowFacts DEF Bounded
<1>3. ASSUME NEW r \in rows
      PROVE  /\ Closed(r) \in Row
             /\ Closed(r).start = r.start /\ Closed(r).path = r.path /\ Entry(Closed(r)) = Entry(r)
             /\ ~Live(r) => Closed(r) = r
             /\ Live(r) /\ Entry(r) \in view => Closed(r) = r
             /\ Live(r) /\ Entry(r) \notin view => ~Live(Closed(r)) /\ Closed(r).stop = latest + 1
  <2>1. CASE Live(r) /\ Entry(r) \notin view
    <3>1. Closed(r) = [r EXCEPT !.stop = latest + 1]
      BY <2>1
    <3>2. /\ Closed(r) \in Row /\ Closed(r).start = r.start /\ Closed(r).path = r.path
          /\ Closed(r).hash = r.hash /\ Closed(r).stop = latest + 1
      BY <1>0, <1>2, <3>1 DEF Row
    <3> QED
      BY <1>0, <2>1, <3>2 DEF Entry, Live
  <2>2. CASE ~(Live(r) /\ Entry(r) \notin view)
    BY <1>2, <2>2
  <2> QED
    BY <2>1, <2>2
<1>4. ASSUME NEW e \in view
      PROVE  /\ Fresh(e) \in Row /\ Fresh(e).start = latest + 1 /\ Live(Fresh(e))
             /\ Fresh(e).path = e.path /\ Entry(Fresh(e)) = e
  BY <1>0 DEF Row, Entries, Live, Entry
<1>5. \A r \in rows : LiveAt(r, latest) <=> Live(r)
  BY <1>2 DEF LiveAt
<1>6. Files = {Entry(r) : r \in {x \in rows : Live(x)}}
  <2>1. Files = {Entry(r) : r \in {x \in rows : LiveAt(x, latest)}}
    BY <1>0, ViewRows DEF At, Files
  <2> QED
    BY <1>5, <2>1
<1> HIDE DEF RR, Closed, Fresh
<1>7. RR \in SUBSET Row
  BY <1>1, <1>3, <1>4
<1>8. ASSUME NEW r \in rows, NEW v \in 0 .. latest
      PROVE  /\ LiveAt(Closed(r), v) <=> LiveAt(r, v)
             /\ \A t \in 0 .. latest : Ended(Closed(r), v, t) <=> Ended(r, v, t)
  BY <1>0, <1>2, <1>3 DEF LiveAt, Ended
<1>9. ASSUME NEW e \in view, NEW v \in 0 .. latest
      PROVE  ~LiveAt(Fresh(e), v) /\ \A t \in 0 .. latest : ~Ended(Fresh(e), v, t)
  BY <1>0, <1>4 DEF LiveAt, Ended
<1>10. Same(rows, RR, 0, latest)
  <2> SUFFICES ASSUME NEW v \in 0 .. latest, NEW t \in 0 .. latest
               PROVE  /\ At(rows, v) = At(RR, v)
                      /\ Put(rows, v, t) = Put(RR, v, t)
                      /\ Gone(rows, v, t) = Gone(RR, v, t)
    BY DEF Same
  <2>1. At(rows, v) = At(RR, v)
    <3>1. /\ At(rows, v) = {Entry(r) : r \in {x \in rows : LiveAt(x, v)}}
          /\ At(RR, v) = {Entry(r) : r \in {x \in RR : LiveAt(x, v)}}
      BY <1>0, <1>7, ViewRows
    <3> QED
      BY <1>1, <1>3, <1>8, <1>9, <3>1
  <2>2. Put(rows, v, t) = Put(RR, v, t)
    <3>1. /\ Put(rows, v, t) = {Entry(r) : r \in {x \in rows : LiveAt(x, t) /\ x.start > v}}
          /\ Put(RR, v, t) = {Entry(r) : r \in {x \in RR : LiveAt(x, t) /\ x.start > v}}
      BY <1>0, <1>7, PutRows
    <3> QED
      BY <1>1, <1>3, <1>8, <1>9, <3>1
  <2>3. PathsOf({x \in rows : Ended(x, v, t)}) = PathsOf({x \in RR : Ended(x, v, t)})
    BY <1>1, <1>3, <1>8, <1>9 DEF PathsOf
  <2>4. Gone(rows, v, t) = Gone(RR, v, t)
    BY <1>0, <1>7, <2>2, <2>3, GoneRows
  <2> QED
    BY <2>1, <2>2, <2>4
<1>11. At(RR, latest + 1) = view
  <2>1. At(RR, latest + 1) = {Entry(r) : r \in {x \in RR : LiveAt(x, latest + 1)}}
    BY <1>7, ViewRows
  <2>2. \A r \in rows : LiveAt(Closed(r), latest + 1) <=> Live(r) /\ Entry(r) \in view
    BY <1>0, <1>2, <1>3 DEF LiveAt
  <2>3. \A e \in view : LiveAt(Fresh(e), latest + 1)
    BY <1>0, <1>4 DEF LiveAt
  <2>4. ASSUME NEW e \in view
        PROVE  e \in At(RR, latest + 1)
    <3>1. CASE e \in Files
      BY <1>1, <1>3, <1>6, <2>1, <2>2, <2>4, <3>1
    <3>2. CASE e \notin Files
      BY <1>1, <1>4, <2>1, <2>3, <2>4, <3>2
    <3> QED
      BY <3>1, <3>2
  <2>5. At(RR, latest + 1) \subseteq view
    BY <1>1, <1>3, <1>4, <2>1, <2>2
  <2> QED
    BY <2>4, <2>5
<1>12. ASSUME NEW r1 \in rows, NEW r2 \in rows, Before(r1, r2)
       PROVE  Before(Closed(r1), Closed(r2))
  BY <1>3, <1>12 DEF Before
<1>13. ASSUME NEW r \in rows, NEW e \in view \ Files, Entry(r) \notin view \/ ~Live(r)
       PROVE  Before(Closed(r), Fresh(e))
  BY <1>0, <1>2, <1>3, <1>4, <1>13 DEF Before
<1>14. Bounded(RR, latest + 1)
  BY <1>0, <1>1, <1>2, <1>3, <1>4 DEF Bounded
<1>15. Apart(RR)
  <2>1. ASSUME NEW r1 \in rows, NEW r2 \in rows, r1.path = r2.path
        PROVE  Closed(r1) = Closed(r2) \/ Before(Closed(r1), Closed(r2)) \/ Before(Closed(r2), Closed(r1))
    BY <1>0, <1>12, <2>1 DEF Apart
  <2>2. ASSUME NEW r \in rows, NEW e \in view \ Files, r.path = e.path
        PROVE  Before(Closed(r), Fresh(e))
    <3>1. Live(r) => Entry(r) \notin view
      BY <1>2, <1>6, <2>2 DEF Once
    <3> QED
      BY <1>13, <3>1
  <2>3. ASSUME NEW e \in view \ Files, NEW f \in view \ Files, e.path = f.path
        PROVE  Fresh(e) = Fresh(f)
    BY <2>3 DEF Once
  <2> QED
    BY <1>1, <1>3, <1>4, <2>1, <2>2, <2>3 DEF Apart
<1>16. FileFirst(RR)
  <2>1. ASSUME NEW r1 \in rows, NEW r2 \in rows, r1.path \notin Dir, r2.path \in Inside[r1.path]
        PROVE  Before(Closed(r1), Closed(r2))
    BY <1>0, <1>12, <2>1 DEF FileFirst
  <2>2. ASSUME NEW r \in rows, NEW e \in view \ Files, r.path \notin Dir, e.path \in Inside[r.path]
        PROVE  Before(Closed(r), Fresh(e))
    <3>1. Entry(r) \notin view
      BY <1>2, <2>2 DEF Outside
    <3> QED
      BY <1>13, <3>1
  <2>3. ASSUME NEW e \in view \ Files, NEW f \in view \ Files, e.path \notin Dir
        PROVE  f.path \notin Inside[e.path]
    BY <2>3 DEF Outside
  <2>4. ASSUME NEW x1 \in RR, NEW x2 \in RR, x1.path \notin Dir, x2.path \in Inside[x1.path]
        PROVE  Before(x1, x2)
    <3>1. CASE \E r1 \in rows : x1 = Closed(r1)
      BY <1>1, <1>3, <1>4, <2>1, <2>2, <2>4, <3>1
    <3>2. CASE \E e \in view \ Files : x1 = Fresh(e)
      BY <1>1, <1>3, <1>4, <2>3, <2>4, <3>2
    <3> QED
      BY <1>1, <3>1, <3>2
  <2> QED
    BY <2>4 DEF FileFirst
<1>17. Known(RR)
  BY <1>0, <1>1, <1>3, <1>4 DEF Known
<1>18. Lone(RR)
  <2> DEFINE Ordered(x1, x2) == x1.path = x2.path \/ Before(x1, x2) \/ Before(x2, x1)
  <2>1. ASSUME NEW r \in rows, NEW r1 \in rows, NEW r2 \in rows, r.path \notin Dir,
               r1.path \in Inside[r.path], r2.path \in Inside[r.path]
        PROVE  Ordered(Closed(r1), Closed(r2))
    BY <1>0, <1>3, <1>12, <2>1 DEF Lone
  <2>2. ASSUME NEW r \in rows, NEW r1 \in rows, NEW e \in view \ Files, r.path \notin Dir,
               r1.path \in Inside[r.path], e.path \in Inside[r.path]
        PROVE  r1.path = e.path \/ Before(Closed(r1), Fresh(e))
    <3>1. CASE Live(r1) /\ Entry(r1) \in view
      BY <1>2, <2>2, <3>1 DEF Alone
    <3>2. CASE ~(Live(r1) /\ Entry(r1) \in view)
      BY <1>13, <3>2
    <3> QED
      BY <3>1, <3>2
  <2>3. ASSUME NEW r \in rows, NEW e \in view \ Files, NEW f \in view \ Files, r.path \notin Dir,
               e.path \in Inside[r.path], f.path \in Inside[r.path]
        PROVE  e.path = f.path
    BY <2>3 DEF Alone
  <2>4. ASSUME NEW e \in view \ Files, e.path \notin Dir, NEW x \in RR
        PROVE  x.path \notin Inside[e.path]
    BY <1>1, <1>3, <1>4, <2>4 DEF Outside
  <2>5. ASSUME NEW x \in RR, NEW x1 \in RR, NEW x2 \in RR, x.path \notin Dir,
               x1.path \in Inside[x.path], x2.path \in Inside[x.path]
        PROVE  Ordered(x1, x2)
    <3>1. PICK r \in rows : x = Closed(r)
      BY <1>1, <1>4, <2>4, <2>5
    <3>2. r.path \notin Dir /\ x1.path \in Inside[r.path] /\ x2.path \in Inside[r.path]
      BY <1>3, <2>5, <3>1
    <3> HIDE DEF Ordered
    <3>3. CASE \E r1 \in rows : x1 = Closed(r1)
      <4>1. PICK r1 \in rows : x1 = Closed(r1)
        BY <3>3
      <4>2. CASE \E r2 \in rows : x2 = Closed(r2)
        BY <1>3, <2>1, <3>2, <4>1, <4>2
      <4>3. CASE \E e \in view \ Files : x2 = Fresh(e)
        BY <1>3, <1>4, <2>2, <3>2, <4>1, <4>3 DEF Ordered
      <4> QED
        BY <1>1, <4>2, <4>3
    <3>4. CASE \E e \in view \ Files : x1 = Fresh(e)
      <4>1. PICK e \in view \ Files : x1 = Fresh(e)
        BY <3>4
      <4>2. CASE \E r2 \in rows : x2 = Closed(r2)
        BY <1>3, <1>4, <2>2, <3>2, <4>1, <4>2 DEF Ordered
      <4>3. CASE \E f \in view \ Files : x2 = Fresh(f)
        BY <1>4, <2>3, <3>2, <4>1, <4>3 DEF Ordered
      <4> QED
        BY <1>1, <4>2, <4>3
    <3> QED
      BY <1>1, <3>3, <3>4
  <2> QED
    BY <2>5 DEF Lone
<1> QED
  BY <1>7, <1>10, <1>11, <1>14, <1>15, <1>16, <1>17, <1>18 DEF History, RR

LEMMA GcKeeps ==
  ASSUME History(rows, latest), latest \in Nat, version \in Nat, NEW horizon \in Int, horizon <= version,
         NEW ss, ss = rows \ {r \in rows : ~Live(r) /\ r.stop <= horizon}
  PROVE  History(ss, latest) /\ Same(rows, ss, version, latest)
<1>1. rows \in SUBSET Row /\ ss \in SUBSET Row
  BY DEF History
<1>2. ASSUME NEW r \in rows, NEW v \in version .. latest, LiveAt(r, v) \/ (~Live(r) /\ r.stop > v)
      PROVE  r \in ss
  <2>1. ~Live(r) => r.stop \in Nat
    BY <1>1, RowFacts
  <2> QED
    BY <1>2, <2>1 DEF LiveAt
<1>3. ASSUME NEW v \in version .. latest, NEW t \in version .. latest
      PROVE  /\ At(rows, v) = At(ss, v)
             /\ Put(rows, v, t) = Put(ss, v, t)
             /\ Gone(rows, v, t) = Gone(ss, v, t)
  <2>1. {x \in rows : LiveAt(x, v)} = {x \in ss : LiveAt(x, v)}
    BY <1>2
  <2>2. {x \in rows : LiveAt(x, t) /\ x.start > v} = {x \in ss : LiveAt(x, t) /\ x.start > v}
    BY <1>2
  <2>3. {x \in rows : Ended(x, v, t)} = {x \in ss : Ended(x, v, t)}
    BY <1>2 DEF Ended
  <2>4. At(rows, v) = At(ss, v)
    <3>1. /\ At(rows, v) = EntriesOf({x \in rows : LiveAt(x, v)})
          /\ At(ss, v) = EntriesOf({x \in ss : LiveAt(x, v)})
      BY <1>1, ViewRows DEF EntriesOf
    <3> QED
      BY <2>1, <3>1
  <2>5. Put(rows, v, t) = Put(ss, v, t)
    <3>1. /\ Put(rows, v, t) = EntriesOf({x \in rows : LiveAt(x, t) /\ x.start > v})
          /\ Put(ss, v, t) = EntriesOf({x \in ss : LiveAt(x, t) /\ x.start > v})
      BY <1>1, PutRows DEF EntriesOf
    <3> QED
      BY <2>2, <3>1
  <2>6. Gone(rows, v, t) = Gone(ss, v, t)
    <3>1. /\ Gone(rows, v, t) = Bare(PathsOf({x \in rows : Ended(x, v, t)}), Put(rows, v, t))
          /\ Gone(ss, v, t) = Bare(PathsOf({x \in ss : Ended(x, v, t)}), Put(ss, v, t))
      BY <1>1, GoneRows
    <3> QED
      BY <2>3, <2>5, <3>1
  <2> QED
    BY <2>4, <2>5, <2>6
<1>4. Same(rows, ss, version, latest)
  BY <1>3 DEF Same
<1>5. History(ss, latest)
  BY DEF History, Bounded, Apart, FileFirst, Lone, Known
<1> QED
  BY <1>4, <1>5

-----------------------------------------------------------------------------
(* Types.                                                                     *)

RowUpTo(last) == [project : {project}, start : 1 .. last, stop : 1 .. last \cup {Null},
                  path : Path, hash : Hash]

TarSets == SUBSET ((SUBSET Object) \ {{}})

JobUpTo(last) ==
  [pc : {"idle", "query", "write", "version", "summary", "send", "answer", "rebuild"},
   from : 0 .. last, to : 0 .. last, summarize : BOOLEAN,
   tars : TarSets, failed : BOOLEAN, updates : SUBSET Path]

LEMMA TypeFacts ==
  TypeOK <=> /\ rows \subseteq RowUpTo(MaxVersion)
             /\ latest \in 0 .. MaxVersion
             /\ disk \in Disk /\ summary \in Disk
             /\ version \in 0 .. latest
             /\ job \in JobUpTo(latest)
             /\ attempts \subseteq 1 .. latest
             /\ faults \in 0 .. MaxFaults
  BY DEF TypeOK, RowUpTo, JobUpTo, TarSets, Disk

LEMMA IdleType ==
  ASSUME NEW last \in Nat
  PROVE  Idle \in JobUpTo(last)
<1>1. {} \in TarSets
  BY DEF TarSets
<1> QED
  BY <1>1 DEF Idle, JobUpTo

LEMMA BeginJob ==
  ASSUME NEW to, NEW summarize, Begin(to, summarize)
  PROVE  job' = [pc |-> "query", from |-> version, to |-> to, summarize |-> summarize,
                 tars |-> {}, failed |-> FALSE, updates |-> {}]
  BY DEF Begin, Idle

LEMMA TarSetsMeans ==
  ASSUME NEW S
  PROVE  S \in TarSets <=> \A t \in S : t \subseteq Object /\ t # {}
  BY DEF TarSets

LEMMA BeginType ==
  ASSUME NEW last \in Nat, version \in 0 .. last, NEW to \in 0 .. last, NEW summarize \in BOOLEAN,
         Begin(to, summarize)
  PROVE  job' \in JobUpTo(last)
<1>1. {} \in TarSets
  BY DEF TarSets
<1>2. [pc |-> "query", from |-> version, to |-> to, summarize |-> summarize,
       tars |-> {}, failed |-> FALSE, updates |-> {}] \in JobUpTo(last)
  BY <1>1 DEF JobUpTo
<1> QED
  BY <1>2, BeginJob

LEMMA AnswerType ==
  ASSUME NEW last \in Nat, NEW j \in JobUpTo(last)
  PROVE  [j EXCEPT !.pc = "answer", !.to = last] \in JobUpTo(last)
<1>1. last \in 0 .. last
  OBVIOUS
<1>2. [j EXCEPT !.pc = "answer"] \in JobUpTo(last)
  BY DEF JobUpTo
<1>3. [[j EXCEPT !.pc = "answer"] EXCEPT !.to = last] \in JobUpTo(last)
  BY <1>1, <1>2 DEF JobUpTo
<1>4. [[j EXCEPT !.pc = "answer"] EXCEPT !.to = last] = [j EXCEPT !.pc = "answer", !.to = last]
  BY DEF JobUpTo
<1> QED
  BY <1>3, <1>4

LEMMA JobGrows ==
  ASSUME NEW last \in Nat, NEW j \in JobUpTo(last)
  PROVE  j \in JobUpTo(last + 1)
  BY DEF JobUpTo

LEMMA FilesType ==
  ASSUME TypeOK
  PROVE  Files \subseteq Entries /\ rows \in SUBSET Row
<1>1. rows \in SUBSET Row
  BY TypeFacts, SyncAssumption DEF RowUpTo, Row
<1>2. Files = {Entry(r) : r \in {x \in rows : LiveAt(x, latest)}}
  BY <1>1, ViewRows DEF At, Files
<1> QED
  BY <1>1, <1>2, RowFacts

LEMMA PublishType ==
  ASSUME TypeOK, latest < MaxVersion, NEW view \in SUBSET Entries
  PROVE  PublishRows(view) \subseteq RowUpTo(MaxVersion) /\ latest + 1 \in 0 .. MaxVersion
<1>1. /\ rows \subseteq RowUpTo(MaxVersion) /\ latest \in 0 .. MaxVersion /\ MaxVersion \in Nat
      /\ latest + 1 \in 1 .. MaxVersion
  BY TypeFacts, SyncAssumption
<1>2. \A r \in rows : [r EXCEPT !.stop = latest + 1] \in RowUpTo(MaxVersion)
  BY <1>1 DEF RowUpTo
<1>3. \A e \in view : [project |-> project, start |-> latest + 1, stop |-> Null,
                       path |-> e.path, hash |-> e.hash] \in RowUpTo(MaxVersion)
  BY <1>1 DEF RowUpTo, Entries
<1> QED
  BY <1>1, <1>2, <1>3 DEF PublishRows

LEMMA StreamType ==
  ASSUME TypeOK, NEW v, NEW t
  PROVE  Stream(v, t) \subseteq Object
<1>1. ASSUME NEW q \in Path, NEW h \in Hash \cup {Null}
      PROVE  ToTarObject(q, h) \in Object
  <2>1. Null \notin Hash /\ Packed \subseteq Path \ Dir
    BY SyncAssumption
  <2>2. CASE q \in Packed
    BY <2>2 DEF ToTarObject, Object
  <2>3. CASE q \notin Packed /\ h = Null
    BY <2>3 DEF ToTarObject, Object
  <2>4. CASE q \in Dir /\ h # Null
    BY <2>1, <2>4 DEF ToTarObject, Object
  <2>5. CASE q \notin Dir \cup Packed /\ h # Null
    BY <2>5 DEF ToTarObject, Object
  <2> QED
    BY <2>2, <2>3, <2>4, <2>5
<1>2. rows \in SUBSET Row
  BY FilesType
<1>3. Put(rows, v, t) \subseteq Entries
  BY <1>2, PutRows, RowFacts
<1>4. Gone(rows, v, t) \subseteq Path
  BY <1>2, GoneRows, RowFacts DEF Bare, PathsOf
<1>5. Stream(v, t) \subseteq {ToTarObject(e.path, e.hash) : e \in Put(rows, v, t)}
                              \cup {ToTarObject(q, Null) : q \in Gone(rows, v, t)}
  BY DEF Stream, Put, Gone
<1> QED
  BY <1>1, <1>3, <1>4, <1>5 DEF Entries

LEMMA TarsType ==
  ASSUME NEW objects \in SUBSET Object, NEW first \in Starts(objects)
  PROVE  Tars(objects, first) \in TarSets /\ UNION Tars(objects, first) = objects
<1>1. first \subseteq Plain(objects) /\ Plain(objects) \subseteq objects
  BY DEF Starts, Plain
<1>2. ASSUME NEW x \in Tars(objects, first)
      PROVE  x \subseteq objects /\ x # {}
  BY <1>1, <1>2 DEF Tars
<1>3. ASSUME NEW o \in objects
      PROVE  \E x \in Tars(objects, first) : o \in x
  <2>1. CASE o \in first
    BY <2>1 DEF Tars
  <2>2. CASE o \in Plain(objects) \ first
    BY <2>2 DEF Tars
  <2>3. CASE o \in objects \ Plain(objects)
    BY <2>3 DEF Tars
  <2> QED
    BY <2>1, <2>2, <2>3
<1>4. Tars(objects, first) \in TarSets
  BY <1>2, TarSetsMeans
<1>5. UNION Tars(objects, first) \subseteq objects
  BY <1>2
<1>6. objects \subseteq UNION Tars(objects, first)
  BY <1>3
<1> QED
  BY <1>4, <1>5, <1>6

LEMMA LeaveType ==
  ASSUME job.tars \in TarSets, NEW t, NEW rest \in SUBSET Object
  PROVE  Leave(t, rest) \in TarSets
<1>1. ASSUME NEW x \in Leave(t, rest)
      PROVE  x \subseteq Object /\ x # {}
  <2>1. x \in job.tars \/ (x = rest /\ x # {})
    BY <1>1 DEF Leave
  <2> QED
    BY <2>1, TarSetsMeans
<1> QED
  BY <1>1, TarSetsMeans

(* What is left after a worker's step.                                        *)
Pending == UNION job.tars

LEMMA LeaveFacts ==
  ASSUME NEW t \in job.tars, NEW rest
  PROVE  UNION Leave(t, rest) = (UNION (job.tars \ {t})) \cup rest
  BY DEF Leave

LEMMA MadeFacts ==
  ASSUME NEW t \in SUBSET Object, NEW dir
  PROVE  /\ Made(t, dir) \subseteq Object
         /\ \A y \in Made(t, dir) :
              y \in t \/ \E x \in t : x.kind = "file" /\ InDir(NodeOf[x.path]) = dir /\ y = Opened(x)
         /\ \A x \in t : \/ x \in Made(t, dir)
                         \/ x.kind = "file" /\ Opened(x) \in Made(t, dir)
                         \/ x.kind = "dir" /\ {NodeOf[x.path]} = dir
<1> DEFINE Skipped(x) == x.kind = "dir" /\ {NodeOf[x.path]} = dir
           Opens(x) == x.kind = "file" /\ InDir(NodeOf[x.path]) = dir
<1>1. Made(t, dir) = {IF Opens(x) THEN Opened(x) ELSE x : x \in {y \in t : ~Skipped(y)}}
  BY DEF Made, Opened
<1>2. \A x \in t : x.kind = "file" => Opened(x) \in Object
  BY OpenedFacts
<1> QED
  BY <1>1, <1>2

LEMMA RestFacts ==
  ASSUME NEW t \in SUBSET Object, NEW d, NEW o \in t
  PROVE  LET n == NodeOf[o.path]
         IN  /\ Rest(t, d, o) \subseteq Object
             /\ o.kind = "file" => Rest(t, d, o) = Made(t, InDir(n))
             /\ o.kind = "dir" => Rest(t, d, o) = Made(t, {n})
             /\ Replaced(d, o) => Rest(t, d, o) = (t \ {o}) \cup {Placed(o)}
             /\ ~Replaced(d, o) /\ o.kind \notin {"file", "dir"} => Rest(t, d, o) = t \ {o}
<1> DEFINE n == NodeOf[o.path]
<1>1. o.kind = "file" => Rest(t, d, o) = Made(t, InDir(n))
  BY DEF Rest
<1>2. o.kind = "dir" => Rest(t, d, o) = Made(t, {n})
  BY DEF Rest
<1>3. Replaced(d, o) => Rest(t, d, o) = (t \ {o}) \cup {Placed(o)}
  BY DEF Rest, Replaced, Placed
<1>4. ~Replaced(d, o) /\ o.kind \notin {"file", "dir"} => Rest(t, d, o) = t \ {o}
  BY DEF Rest, Replaced
<1>5. Replaced(d, o) => Placed(o) \in Object
  BY PlacedFacts DEF Replaced
<1> QED
  BY <1>1, <1>2, <1>3, <1>4, <1>5, MadeFacts

(* The four ways a worker's step goes: the object is written, the call failed *)
(* and will be tried again, what is in the way is removed, or the worker      *)
(* gives up.                                                                  *)
Others(t) == UNION (job.tars \ {t})

Wrote(t, o) ==
  /\ ~Blocked(disk, o) /\ o.step # "clear" /\ disk' = Written(disk, o)
  /\ Pending' = Others(t) \cup Rest(t, disk, o) /\ job'.failed = job.failed
Waits(t, o) ==
  /\ Blocked(disk, o) /\ o.kind \in {"file", "dir", "open"} /\ disk' = disk
  /\ Pending' = Others(t) \cup ((t \ {o}) \cup {Stepped(o, "clear")}) /\ job'.failed = job.failed
Clears(t, o) ==
  /\ o.step = "clear" /\ \E n \in Target(o) : disk' = RemoveAll(disk, n)
  /\ Pending' = Others(t) \cup ((t \ {o}) \cup {Stepped(o, "again")}) /\ job'.failed = job.failed
GivesUp(t, o) ==
  /\ Blocked(disk, o) \/ o.step = "clear"
  /\ disk' = disk /\ Pending' \subseteq Pending /\ job'.failed

LEMMA WorkerStep ==
  ASSUME TypeOK, NEW t \in job.tars, NEW o \in t, WriteObject(t, o) \/ RemoveTarget(t, o)
  PROVE  /\ t \in SUBSET Object /\ o \in Object /\ o \in Pending /\ Others(t) \subseteq Pending
         /\ Pending = Others(t) \cup t
         /\ disk \in Disk /\ disk' \in Disk
         /\ UNCHANGED <<rows, latest, version, summary, attempts, faults>>
         /\ job.pc = "write" /\ job'.pc = "write" /\ job' \in JobUpTo(latest)
         /\ job'.to = job.to /\ job'.summarize = job.summarize
         /\ Wrote(t, o) \/ Waits(t, o) \/ Clears(t, o) \/ GivesUp(t, o)
<1>0. job \in JobUpTo(latest) /\ disk \in Disk
  BY TypeFacts
<1>1. job.tars \in TarSets
  BY <1>0 DEF JobUpTo
<1>2. t \in SUBSET Object /\ o \in Object
  BY <1>1, TarSetsMeans
<1>3. o \in Pending /\ Others(t) \subseteq Pending /\ Pending = Others(t) \cup t
  BY DEF Pending, Others
<1>4. UNCHANGED <<rows, latest, version, summary, attempts, faults>> /\ job.pc = "write"
  BY DEF WriteObject, RemoveTarget, GoOn, GiveUp, Current, server
<1> DEFINE Typed == job'.pc = "write" /\ job'.to = job.to /\ job'.summarize = job.summarize
                    /\ job' \in JobUpTo(latest)
<1>5. ASSUME GiveUp(t), Blocked(disk, o) \/ o.step = "clear"
      PROVE  GivesUp(t, o) /\ Typed
  <2>1. job' = [job EXCEPT !.failed = TRUE, !.tars = job.tars \ {t}] /\ disk' = disk
    BY <1>5 DEF GiveUp
  <2>2. job.tars \ {t} \in TarSets
    BY <1>1, TarSetsMeans
  <2>3. job'.tars = job.tars \ {t} /\ job'.failed /\ Typed
    BY <1>0, <1>4, <2>1, <2>2 DEF JobUpTo
  <2>4. Pending' \subseteq Pending
    BY <2>3 DEF Pending
  <2> QED
    BY <1>5, <2>1, <2>3, <2>4 DEF GivesUp
<1>6. ASSUME NEW rest \in SUBSET Object, NEW d, GoOn(t, rest, d)
      PROVE  disk' = d /\ Pending' = Others(t) \cup rest /\ job'.failed = job.failed /\ Typed
  <2>1. Leave(t, rest) \in TarSets
    BY <1>1, LeaveType
  <2>2. job' = [job EXCEPT !.tars = Leave(t, rest)] /\ disk' = d
    BY <1>6 DEF GoOn
  <2>3. job'.tars = Leave(t, rest) /\ job'.failed = job.failed /\ Typed
    BY <1>0, <1>4, <2>1, <2>2 DEF JobUpTo
  <2>4. Pending' = Others(t) \cup rest
    BY <2>3, LeaveFacts DEF Pending, Others
  <2> QED
    BY <2>2, <2>3, <2>4
<1>7. \A step \in {"clear", "again"} : o.kind \in {"file", "dir", "open"} =>
        (t \ {o}) \cup {Stepped(o, step)} \in SUBSET Object
  BY <1>2, SteppedFacts
<1> HIDE DEF Typed
<1>8. CASE WriteObject(t, o)
  <2>1. CASE ~Blocked(disk, o)
    <3>1. GoOn(t, Rest(t, disk, o), Written(disk, o)) /\ o.step # "clear"
      BY <1>8, <2>1 DEF WriteObject
    <3>2. Rest(t, disk, o) \in SUBSET Object /\ Written(disk, o) \in Disk
      BY <1>0, <1>2, RestFacts, WrittenType
    <3>3. Wrote(t, o) /\ Typed /\ disk' \in Disk
      BY <1>6, <2>1, <3>1, <3>2 DEF Wrote
    <3> QED
      BY <1>0, <1>2, <1>3, <1>4, <3>3 DEF Typed
  <2>2. CASE Blocked(disk, o) /\ Retries(o)
    <3>1. GoOn(t, (t \ {o}) \cup {Stepped(o, "clear")}, disk) /\ o.kind \in {"file", "dir", "open"}
      BY <1>8, <2>2 DEF WriteObject, Retries, Stepped
    <3>2. (t \ {o}) \cup {Stepped(o, "clear")} \in SUBSET Object
      BY <1>7, <3>1
    <3>3. Waits(t, o) /\ Typed
      BY <1>6, <2>2, <3>1, <3>2 DEF Waits
    <3> QED
      BY <1>0, <1>2, <1>3, <1>4, <3>3 DEF Typed, Waits
  <2>3. CASE Blocked(disk, o) /\ ~Retries(o)
    <3>1. GivesUp(t, o) /\ Typed
      BY <1>5, <1>8, <2>3 DEF WriteObject
    <3> QED
      BY <1>0, <1>2, <1>3, <1>4, <3>1 DEF Typed, GivesUp
  <2> QED
    BY <2>1, <2>2, <2>3
<1>9. CASE RemoveTarget(t, o)
  <2>1. CASE \E n \in Target(o) : NotDir(disk, n)
    <3>1. GivesUp(t, o) /\ Typed
      BY <1>5, <1>9, <2>1 DEF RemoveTarget
    <3> QED
      BY <1>0, <1>2, <1>3, <1>4, <3>1 DEF Typed, GivesUp
  <2>2. CASE ~\E n \in Target(o) : NotDir(disk, n)
    <3>1. o.step = "clear" /\ o.kind \in {"file", "dir", "open"}
      BY <1>2, <1>9, ObjectFacts DEF RemoveTarget
    <3>2. PICK n \in Target(o) : GoOn(t, (t \ {o}) \cup {Stepped(o, "again")}, RemoveAll(disk, n))
      BY <1>9, <2>2 DEF RemoveTarget, Stepped
    <3>3. (t \ {o}) \cup {Stepped(o, "again")} \in SUBSET Object
      BY <1>7, <3>1
    <3>4. n \in Node
      BY <1>2, ObjectFacts, AboveFacts DEF Target, InDir
    <3>5. Clears(t, o) /\ Typed /\ disk' \in Disk
      BY <1>0, <1>6, <3>1, <3>2, <3>3, <3>4, DiskFacts DEF Clears
    <3> QED
      BY <1>0, <1>2, <1>3, <1>4, <3>5 DEF Typed
  <2> QED
    BY <2>1, <2>2
<1> QED
  BY <1>8, <1>9

LEMMA TypeInit == Init => TypeOK
<1> SUFFICES ASSUME Init PROVE TypeOK
  OBVIOUS
<1>1. MaxVersion \in Nat /\ MaxFaults \in Nat
  BY SyncAssumption
<1> QED
  BY <1>1, TypeFacts, IdleType DEF Init, Disk

LEMMA PublishViewType ==
  ASSUME TypeOK, NEW tree \in Trees
  PROVE  tree \cup {e \in Files : e.path \notin Theirs} \in SUBSET Entries
<1>1. tree \subseteq Entries
  BY SyncAssumption DEF Entries
<1> QED
  BY <1>1, FilesType

LEMMA SendViewType ==
  ASSUME TypeOK
  PROVE  {[path |-> q, hash |-> FileAt(disk, NodeOf[q])] :
            q \in {u \in job.updates : FileAt(disk, NodeOf[u]) # Missing}}
           \cup {e \in Files : e.path \notin job.updates} \in SUBSET Entries
<1>1. job.updates \subseteq Path
  BY TypeFacts DEF JobUpTo
<1> QED
  BY <1>1, FilesType DEF Entries, FileAt, IsFile

LEMMA TypeNext == TypeOK /\ [Next]_vars => TypeOK'
<1> SUFFICES ASSUME TypeOK, [Next]_vars
             PROVE  TypeOK'
  OBVIOUS
<1>0. /\ rows \subseteq RowUpTo(MaxVersion) /\ latest \in 0 .. MaxVersion
      /\ disk \in Disk /\ summary \in Disk /\ version \in 0 .. latest
      /\ job \in JobUpTo(latest) /\ attempts \subseteq 1 .. latest /\ faults \in 0 .. MaxFaults
      /\ MaxVersion \in Nat /\ MaxFaults \in Nat /\ latest \in Nat /\ Idle \in JobUpTo(latest)
  BY TypeFacts, IdleType, SyncAssumption
<1> DEFINE Goal == /\ rows' \subseteq RowUpTo(MaxVersion) /\ latest' \in 0 .. MaxVersion
                   /\ disk' \in Disk /\ summary' \in Disk /\ version' \in 0 .. latest'
                   /\ job' \in JobUpTo(latest') /\ attempts' \subseteq 1 .. latest'
                   /\ faults' \in 0 .. MaxFaults
<1>a. SUFFICES Goal
  BY DEF TypeOK, RowUpTo, JobUpTo, TarSets, Disk
<1>1. CASE \E tree \in Trees : Publish(tree)
  <2>1. PICK tree \in Trees : Publish(tree)
    BY <1>1
  <2>2. tree \cup {e \in Files : e.path \notin Theirs} \in SUBSET Entries
    BY PublishViewType
  <2>3. rows' \subseteq RowUpTo(MaxVersion) /\ latest' \in 0 .. MaxVersion /\ latest' = latest + 1
    BY <2>1, <2>2, PublishType DEF Publish
  <2>4. job' \in JobUpTo(latest')
    BY <1>0, <2>1, <2>3, JobGrows DEF Publish
  <2> QED
    BY <1>0, <2>1, <2>3, <2>4 DEF Publish
<1>2. CASE \E keep \in Keeps : GcProject(keep)
  BY <1>0, <1>2 DEF GcProject
<1>3. CASE \E to \in 1 .. latest, summarize \in Summarize : Rebuild(to, summarize)
  <2>1. PICK to \in 1 .. latest, summarize \in Summarize : Rebuild(to, summarize)
    BY <1>3
  <2>2. summarize \in BOOLEAN
    BY SyncAssumption
  <2>3. job' \in JobUpTo(latest)
    <3>1. Begin(to, summarize) /\ to \in 0 .. latest
      BY <1>0, <2>1 DEF Rebuild
    <3> QED
      BY <1>0, <2>2, <3>1, BeginType
  <2> QED
    BY <1>0, <2>1, <2>3 DEF Rebuild, server
<1>4. CASE GetCompress
  <2>1. CASE Stream(job.from, job.to) = {}
    BY <1>0, <1>4, <2>1 DEF GetCompress, server
  <2>2. CASE Stream(job.from, job.to) # {}
    <3>1. PICK first \in Starts(Stream(job.from, job.to)) :
            job' = [job EXCEPT !.pc = "write", !.tars = Tars(Stream(job.from, job.to), first)]
      BY <1>4, <2>2 DEF GetCompress
    <3>2. Tars(Stream(job.from, job.to), first) \in TarSets
      BY StreamType, TarsType
    <3>3. job' \in JobUpTo(latest)
      BY <1>0, <3>1, <3>2 DEF JobUpTo
    <3>4. job.to # 0
      <4>1. rows \in SUBSET Row
        BY FilesType
      <4>2. \A r \in rows : r.start \in Nat /\ r.start > 0 /\ (Live(r) \/ r.stop \in Nat)
        BY <4>1, RowFacts
      <4>4. job.from \in Nat
        BY <1>0 DEF JobUpTo
      <4>5. \A r \in rows : ~Ended(r, job.from, 0)
        BY <4>2, <4>4 DEF Ended
      <4>6. Put(rows, job.from, 0) = {}
        BY <4>1, <4>2, PutRows DEF LiveAt
      <4>7. Gone(rows, job.from, 0) = {}
        <5>1. Gone(rows, job.from, 0) = Bare(PathsOf({x \in rows : Ended(x, job.from, 0)}), {})
          BY <4>1, <4>6, GoneRows
        <5>2. PathsOf({x \in rows : Ended(x, job.from, 0)}) = {}
          BY <4>5 DEF PathsOf
        <5> QED
          BY <5>1, <5>2 DEF Bare
      <4> QED
        BY <2>2, <4>6, <4>7 DEF Stream, Put, Gone
    <3>5. job.to \in 1 .. latest
      BY <1>0, <3>4 DEF JobUpTo
    <3> QED
      BY <1>0, <1>4, <2>2, <3>3, <3>5 DEF GetCompress, server
  <2> QED
    BY <2>1, <2>2
<1>5. CASE \E t \in job.tars : \E o \in t : WriteObject(t, o) \/ RemoveTarget(t, o)
  BY <1>0, <1>5, WorkerStep
<1>6. CASE RebuildError
  BY <1>0, <1>6 DEF RebuildError, server
<1>7. CASE WriteVersionFile
  <2>1. job' \in JobUpTo(latest) /\ version' \in 0 .. latest /\ attempts' \subseteq 1 .. latest
    BY <1>0, <1>7 DEF WriteVersionFile, JobUpTo
  <2> QED
    BY <1>0, <1>7, <2>1 DEF WriteVersionFile, server
<1>8. CASE WriteSummary
  BY <1>0, <1>8 DEF WriteSummary, server
<1>9. CASE Update
  <2>1. Diff \subseteq Path
    BY DEF Diff
  <2>2. job' \in JobUpTo(latest)
    BY <1>0, <1>9, <2>1 DEF Update, JobUpTo, Idle
  <2> QED
    BY <1>0, <1>9, <2>2 DEF Update, server
<1>10. CASE SendUpdate
  <2> DEFINE view == {[path |-> q, hash |-> FileAt(disk, NodeOf[q])] :
                        q \in {u \in job.updates : FileAt(disk, NodeOf[u]) # Missing}}
                       \cup {e \in Files : e.path \notin job.updates}
  <2>1. view \in SUBSET Entries
    BY SendViewType
  <2>2. /\ job' = [job EXCEPT !.pc = "answer", !.to = latest']
        /\ \/ latest < MaxVersion /\ rows' = PublishRows(view) /\ latest' = latest + 1
           \/ UNCHANGED <<rows, latest>>
    BY <1>10 DEF SendUpdate, server
  <2> HIDE DEF view
  <2>3. CASE latest < MaxVersion /\ rows' = PublishRows(view) /\ latest' = latest + 1
    <3>1. rows' \subseteq RowUpTo(MaxVersion) /\ latest' \in 0 .. MaxVersion
      BY <2>1, <2>3, PublishType
    <3>2. job \in JobUpTo(latest')
      BY <1>0, <2>3, JobGrows
    <3>3. job' \in JobUpTo(latest')
      <4>1. latest' \in Nat /\ job' = [job EXCEPT !.pc = "answer", !.to = latest']
        BY <1>0, <2>2, <2>3
      <4> QED
        BY <3>2, <4>1, AnswerType
    <3> QED
      BY <1>0, <1>10, <2>3, <3>1, <3>3 DEF SendUpdate
  <2>4. CASE UNCHANGED <<rows, latest>>
    <3>1. job' \in JobUpTo(latest)
      BY <1>0, <2>2, <2>4, AnswerType
    <3> QED
      BY <1>0, <1>10, <2>4, <3>1 DEF SendUpdate
  <2> QED
    BY <2>2, <2>3, <2>4
<1>11. CASE ReceiveAnswer
  <2>1. job' \in JobUpTo(latest)
    BY <1>0, <1>11 DEF ReceiveAnswer, JobUpTo
  <2> QED
    BY <1>0, <1>11, <2>1 DEF ReceiveAnswer, server
<1>12. CASE RebuildAfterUpdate
  <2>1. job' \in JobUpTo(latest)
    <3>1. latest \in 0 .. latest /\ version \in 0 .. latest
      BY <1>0
    <3>2. Begin(latest, TRUE)
      BY <1>12 DEF RebuildAfterUpdate
    <3> QED
      BY <1>0, <3>1, <3>2, BeginType
  <2> QED
    BY <1>0, <1>12, <2>1 DEF RebuildAfterUpdate, server
<1>13. CASE \E q \in Mine, value \in Hash \cup {Missing} : Edit(q, value)
  <2>1. PICK q \in Mine, value \in Hash \cup {Missing} : Edit(q, value)
    BY <1>13
  <2>2. disk' \in Disk
    BY <1>0, <2>1, SyncAssumption DEF Edit, Disk
  <2> QED
    BY <1>0, <2>1, <2>2 DEF Edit, server
<1>14. CASE \E t \in job.tars : WriteFails(t)
  <2>1. PICK t \in job.tars : WriteFails(t)
    BY <1>14
  <2>2. job' \in JobUpTo(latest)
    <3>1. job.tars \ {t} \in TarSets
      BY <1>0 DEF JobUpTo, TarSets
    <3> QED
      BY <1>0, <2>1, <3>1 DEF WriteFails, GiveUp, JobUpTo
  <2> QED
    BY <1>0, <2>1, <2>2 DEF WriteFails, GiveUp, server
<1>15. CASE Fault
  BY <1>0, <1>15 DEF Fault, server
<1>16. CASE UNCHANGED vars
  BY <1>0, <1>16 DEF vars
<1> QED
  BY <1>1, <1>2, <1>3, <1>4, <1>5, <1>6, <1>7, <1>8, <1>9, <1>10, <1>11, <1>12, <1>13, <1>14,
     <1>15, <1>16 DEF Next, RebuildStep, UpdateStep

(* The state of the directory and of the project is well typed: in            *)
(* particular a version that the client writes down exists (dir.go:84,        *)
(* client.go:361).                                                            *)
THEOREM SyncTypeCorrect == Spec => []TypeOK
  BY TypeInit, TypeNext, PTL DEF Spec

-----------------------------------------------------------------------------
(* The steps of a rebuild.                                                    *)

LEMMA StreamFacts ==
  ASSUME TypeOK, NEW v \in Nat, NEW t \in Nat
  PROVE  /\ t <= v => Stream(v, t) = {}
         /\ Stream(v, t) = {} => Put(rows, v, t) = {} /\ Gone(rows, v, t) = {}
         /\ \A old : Genuine(Stream(v, t), old, Put(rows, v, t), Gone(rows, v, t))
         /\ \A u \in Put(rows, v, t) : Left(Stream(v, t), u.path, u.hash)
         /\ \A q \in Gone(rows, v, t) : Left(Stream(v, t), q, Null)
<1> DEFINE U == Put(rows, v, t)
           R == Gone(rows, v, t)
<1>1. rows \in SUBSET Row
  BY FilesType
<1>2. \A r \in rows : r.start \in Nat /\ r.start > 0 /\ (Live(r) \/ r.stop \in Nat) /\ Entry(r) \in Entries
  BY <1>1, RowFacts
<1>3. /\ U = {Entry(r) : r \in {x \in rows : LiveAt(x, t) /\ x.start > v}}
      /\ R = Bare(PathsOf({x \in rows : Ended(x, v, t)}), U)
  BY <1>1, PutRows, GoneRows
<1>4. v = 0 => R = {}
  <2>1. v = 0 => \A r \in rows : ~Ended(r, v, t)
    BY <1>2 DEF Ended
  <2> QED
    BY <1>3, <2>1 DEF Bare, PathsOf
<1>5. t <= v => U = {} /\ R = {}
  <2> HAVE t <= v
  <2>1. \A r \in rows : ~Ended(r, v, t) /\ ~(LiveAt(r, t) /\ r.start > v)
    BY <1>2 DEF Ended, LiveAt
  <2>2. U = {}
    BY <1>3, <2>1
  <2>3. PathsOf({x \in rows : Ended(x, v, t)}) = {}
    BY <2>1 DEF PathsOf
  <2> QED
    BY <1>3, <2>2, <2>3 DEF Bare
<1>6. U \subseteq Entries
  BY <1>2, <1>3
<1>7. Stream(v, t) = {ToTarObject(e.path, e.hash) : e \in U} \cup {ToTarObject(q, Null) : q \in R}
  BY <1>4 DEF Stream, Put, Gone
<1> HIDE DEF U, R
<1>8. \A q, h : /\ ToTarObject(q, h).path = q /\ ToTarObject(q, h).hash = h
                /\ ToTarObject(q, h).step = "try"
  BY DEF ToTarObject
<1>9. ASSUME NEW e \in U
      PROVE  /\ e = [path |-> e.path, hash |-> e.hash] /\ e.hash # Null
             /\ Left(Stream(v, t), e.path, e.hash)
  <2>1. e \in Entries
    BY <1>6
  <2> QED
    BY <1>7, <1>8, <2>1, SyncAssumption DEF Entries, Left
<1>10. \A q \in R : Left(Stream(v, t), q, Null)
  BY <1>7, <1>8 DEF Left
<1>11. ASSUME NEW old, NEW o \in Stream(v, t)
       PROVE  /\ o.hash = Null => o.path \in R
              /\ o.hash # Null => [path |-> o.path, hash |-> o.hash] \in U
              /\ o.step = "clear" /\ o.kind # "open" => Replaces(o, old)
  <2>1. CASE \E e \in U : o = ToTarObject(e.path, e.hash)
    BY <1>8, <1>9, <2>1
  <2>2. CASE \E q \in R : o = ToTarObject(q, Null)
    BY <1>8, <2>2
  <2> QED
    BY <1>7, <1>11, <2>1, <2>2
<1>12. \A old : Genuine(Stream(v, t), old, U, R)
  BY <1>11 DEF Genuine
<1> QED
  BY <1>5, <1>7, <1>9, <1>10, <1>12 DEF U, R

(* Whatever a worker does, what exists is in directories.                     *)
LEMMA WriteRooted ==
  ASSUME TypeOK, NEW t \in job.tars, NEW o \in t, WriteObject(t, o) \/ RemoveTarget(t, o), Rooted(disk)
  PROVE  Rooted(disk')
<1>0. o \in Object /\ disk \in Disk /\ (Wrote(t, o) \/ Waits(t, o) \/ Clears(t, o) \/ GivesUp(t, o))
  BY WorkerStep
<1>1. CASE Wrote(t, o)
  BY <1>0, <1>1, WrittenRooted DEF Wrote
<1>2. CASE Clears(t, o)
  <2>1. PICK n \in Target(o) : disk' = RemoveAll(disk, n)
    BY <1>2 DEF Clears
  <2>2. n \in Node
    BY <1>0, ObjectFacts, AboveFacts DEF Target, InDir
  <2> QED
    BY <1>0, <2>1, <2>2, RootedKept
<1>3. CASE Waits(t, o) \/ GivesUp(t, o)
  BY <1>3 DEF Waits, GivesUp
<1> QED
  BY <1>0, <1>1, <1>2, <1>3

(* The objects after a step are those before it, further on.                  *)
LEMMA PendingAfter ==
  ASSUME TypeOK, NEW t \in job.tars, NEW o \in t, WriteObject(t, o) \/ RemoveTarget(t, o)
  PROVE  \A y \in Pending' :
           \/ y \in Pending
           \/ /\ Wrote(t, o) /\ y.kind = "open" /\ y.step = "try" /\ o.kind \in {"file", "dir"}
              /\ \E x \in Pending : /\ x \in Object /\ x.kind = "file"
                                    /\ y.path = x.path /\ y.hash = x.hash
                                    /\ InDir(NodeOf[x.path]) = IF o.kind = "file" THEN InDir(NodeOf[o.path])
                                                               ELSE {NodeOf[o.path]}
           \/ Wrote(t, o) /\ Replaced(disk, o) /\ y = Placed(o)
           \/ Waits(t, o) /\ y = Stepped(o, "clear")
           \/ Clears(t, o) /\ y = Stepped(o, "again")
<1>0. /\ o \in Object /\ t \in SUBSET Object /\ Pending = Others(t) \cup t
      /\ Wrote(t, o) \/ Waits(t, o) \/ Clears(t, o) \/ GivesUp(t, o)
  BY WorkerStep
<1>1. ASSUME Wrote(t, o), o.kind \in {"file", "dir"}, NEW y \in Pending', y \notin Pending
      PROVE  /\ y.kind = "open" /\ y.step = "try"
             /\ \E x \in Pending : /\ x \in Object /\ x.kind = "file"
                                   /\ y.path = x.path /\ y.hash = x.hash
                                   /\ InDir(NodeOf[x.path]) = IF o.kind = "file" THEN InDir(NodeOf[o.path])
                                                              ELSE {NodeOf[o.path]}
  <2> DEFINE dir == IF o.kind = "file" THEN InDir(NodeOf[o.path]) ELSE {NodeOf[o.path]}
  <2>1. Pending' = Others(t) \cup Made(t, dir)
    BY <1>0, <1>1, RestFacts DEF Wrote
  <2> HIDE DEF dir
  <2>2. y \in Made(t, dir)
    BY <1>0, <1>1, <2>1
  <2>3. PICK x \in t : x.kind = "file" /\ InDir(NodeOf[x.path]) = dir /\ y = Opened(x)
    BY <1>0, <1>1, <2>2, MadeFacts
  <2> QED
    BY <1>0, <2>3, OpenedFacts DEF dir
<1>2. CASE Wrote(t, o) /\ o.kind \in {"file", "dir"}
  BY <1>1, <1>2
<1>3. CASE Wrote(t, o) /\ o.kind \notin {"file", "dir"}
  <2>1. Pending' = Others(t) \cup Rest(t, disk, o)
    BY <1>3 DEF Wrote
  <2>2. Rest(t, disk, o) = t \ {o} \/ (Replaced(disk, o) /\ Rest(t, disk, o) = (t \ {o}) \cup {Placed(o)})
    BY <1>0, <1>3, RestFacts
  <2> QED
    BY <1>0, <1>3, <2>1, <2>2
<1>4. CASE Waits(t, o)
  BY <1>0, <1>4 DEF Waits
<1>5. CASE Clears(t, o)
  BY <1>0, <1>5 DEF Clears
<1>6. CASE GivesUp(t, o)
  BY <1>6 DEF GivesUp
<1> QED
  BY <1>0, <1>2, <1>3, <1>4, <1>5, <1>6

(* What a write leaves.                                                       *)
LEMMA WriteRemains ==
  ASSUME TypeOK, NEW t \in job.tars, NEW o \in t, WriteObject(t, o), Wrote(t, o)
  PROVE  Remains(Pending, Pending', disk, o)
<1>0. /\ o \in Object /\ t \in SUBSET Object /\ Pending = Others(t) \cup t /\ disk \in Disk
      /\ NodeOf[o.path] \in Node
  BY WorkerStep, ObjectFacts
<1>1. ~Blocked(disk, o) /\ disk' = Written(disk, o) /\ Pending' = Others(t) \cup Rest(t, disk, o)
  BY DEF Wrote
<1>5. /\ o.kind = "file" => Rest(t, disk, o) = Made(t, InDir(NodeOf[o.path]))
      /\ o.kind = "dir" => Rest(t, disk, o) = Made(t, {NodeOf[o.path]})
      /\ Replaced(disk, o) => Rest(t, disk, o) = (t \ {o}) \cup {Placed(o)}
      /\ ~Replaced(disk, o) /\ o.kind \notin {"file", "dir"} => Rest(t, disk, o) = t \ {o}
  BY <1>0, RestFacts
<1>2. ASSUME o.kind \in {"file", "dir"}
      PROVE  LeftAfter(Pending, Pending', Written(disk, o))
  <2> DEFINE n == NodeOf[o.path]
             dd == Written(disk, o)
             dir == IF o.kind = "file" THEN InDir(n) ELSE {n}
  <2>1. Pending' = Others(t) \cup Made(t, dir)
    BY <1>1, <1>2, <1>5
  <2>2. /\ \A m \in Above(n) : dd[m] = Folder
        /\ o.kind = "dir" => Standing(dd, n)
    BY <1>0, <1>1, <1>2, WrittenMakes
  <2> HIDE DEF dd
  <2>3. ASSUME NEW x \in t, {NodeOf[x.path]} = dir
        PROVE  Standing(dd, NodeOf[x.path])
    <3>1. CASE o.kind = "dir"
      BY <2>2, <2>3, <3>1
    <3>2. CASE o.kind = "file"
      <4>1. NodeOf[x.path] \in Above(n)
        BY <2>3, <3>2 DEF InDir
      <4>2. Above(NodeOf[x.path]) \subseteq Above(n)
        BY <1>0, <4>1, AboveFacts
      <4> QED
        BY <2>2, <4>1, <4>2 DEF Standing
    <3> QED
      BY <1>2, <3>1, <3>2
  <2> HIDE DEF dir, n
  <2>4. ASSUME NEW x \in Pending
        PROVE  \/ Left(Pending', x.path, x.hash)
               \/ x.path \in Dir /\ x.hash # Null /\ Standing(dd, NodeOf[x.path])
    <3>1. CASE x \in Others(t)
      BY <2>1, <3>1 DEF Left
    <3>2. CASE x \in t /\ x \in Made(t, dir)
      BY <2>1, <3>2 DEF Left
    <3>3. CASE x \in t /\ x.kind = "file" /\ Opened(x) \in Made(t, dir)
      <4>1. Opened(x).path = x.path /\ Opened(x).hash = x.hash
        BY <1>0, <3>3, OpenedFacts
      <4> QED
        BY <2>1, <3>3, <4>1 DEF Left
    <3>4. CASE x \in t /\ x.kind = "dir" /\ {NodeOf[x.path]} = dir
      BY <1>0, <2>3, <3>4, ObjectFacts
    <3> QED
      BY <1>0, <2>4, <3>1, <3>2, <3>3, <3>4, MadeFacts
  <2> QED
    BY <2>4 DEF LeftAfter, Left, dd
<1>3. ASSUME Replaced(disk, o)
      PROVE  More(Pending, Pending')
  <2>1. Pending' = Others(t) \cup ((t \ {o}) \cup {Placed(o)})
    BY <1>1, <1>3, <1>5
  <2>2. Placed(o).path = o.path /\ Placed(o).hash = o.hash
    BY <1>0, <1>3, PlacedFacts DEF Replaced
  <2>3. \A x \in Pending : x = o \/ x \in Pending'
    BY <1>0, <2>1
  <2>4. Placed(o) \in Pending'
    BY <2>1
  <2> QED
    BY <2>2, <2>3, <2>4 DEF More, Left
<1>4. ASSUME ~Replaced(disk, o), o.kind \notin {"file", "dir"}
      PROVE  Less(Pending, Pending', o.path, o.hash)
  <2>1. Pending' = Others(t) \cup (t \ {o})
    BY <1>1, <1>4, <1>5
  <2>2. \A x \in Pending : x = o \/ x \in Pending'
    BY <1>0, <2>1
  <2> QED
    BY <2>2 DEF Less, Left
<1> QED
  BY <1>2, <1>3, <1>4 DEF Remains

LEMMA SteppedMore ==
  ASSUME NEW P, NEW t \in SUBSET Object, NEW o \in t, o.kind \in {"file", "dir", "open"},
         NEW step \in {"clear", "again"}
  PROVE  More(P \cup t, P \cup ((t \ {o}) \cup {Stepped(o, step)}))
<1>1. Stepped(o, step).path = o.path /\ Stepped(o, step).hash = o.hash
  BY SteppedFacts
<1>2. \A x \in P \cup t : x = o \/ x \in P \cup ((t \ {o}) \cup {Stepped(o, step)})
  OBVIOUS
<1>3. Stepped(o, step) \in P \cup ((t \ {o}) \cup {Stepped(o, step)})
  OBVIOUS
<1> QED
  BY <1>1, <1>2, <1>3 DEF More, Left

LEMMA WriteGenuine ==
  ASSUME TypeOK, NEW t \in job.tars, NEW o \in t, WriteObject(t, o) \/ RemoveTarget(t, o),
         NEW old, NEW new, NEW U, NEW R, Change(old, new, U, R),
         Between(disk, old, new, U), Genuine(Pending, old, U, R)
  PROVE  Genuine(Pending', old, U, R)
<1>0. o \in Object /\ o \in Pending
  BY WorkerStep
<1> SUFFICES ASSUME NEW y \in Pending'
             PROVE  /\ y.hash = Null => y.path \in R
                    /\ y.hash # Null => [path |-> y.path, hash |-> y.hash] \in U
                    /\ y.step = "clear" /\ y.kind # "open" => Replaces(y, old)
  BY DEF Genuine
<1>1. CASE y \in Pending
  BY <1>1 DEF Genuine
<1>2. CASE y.kind = "open" /\ \E x \in Pending : y.path = x.path /\ y.hash = x.hash
  BY <1>2 DEF Genuine
<1>3. CASE Replaced(disk, o) /\ y = Placed(o)
  BY <1>0, <1>3, PlacedFacts DEF Genuine, Replaced
<1>4. CASE Waits(t, o) /\ y = Stepped(o, "clear")
  <2>1. /\ y.path = o.path /\ y.hash = o.hash /\ y.kind = o.kind /\ o.kind \in {"file", "dir", "open"}
        /\ Blocked(disk, o)
    BY <1>0, <1>4, SteppedFacts DEF Waits
  <2>2. o.hash # Null
    BY <1>0, <2>1, ObjectFacts
  <2>3. [path |-> o.path, hash |-> o.hash] \in U
    BY <1>0, <2>2 DEF Genuine
  <2>4. o.kind # "open" => Replaces(o, old)
    BY <1>0, <2>1, <2>3, BlockedReplaces
  <2> QED
    BY <2>1, <2>2, <2>3, <2>4 DEF Replaces, Target
<1>5. CASE Clears(t, o) /\ y = Stepped(o, "again")
  <2>1. o.kind \in {"file", "dir", "open"}
    BY <1>0, <1>5, ObjectFacts DEF Clears
  <2> QED
    BY <1>0, <1>5, <2>1, SteppedFacts DEF Genuine
<1>6. \/ y \in Pending
      \/ y.kind = "open" /\ y.step = "try" /\ \E x \in Pending : y.path = x.path /\ y.hash = x.hash
      \/ Replaced(disk, o) /\ y = Placed(o)
      \/ Waits(t, o) /\ y = Stepped(o, "clear")
      \/ Clears(t, o) /\ y = Stepped(o, "again")
  BY PendingAfter
<1> QED
  BY <1>1, <1>2, <1>3, <1>4, <1>5, <1>6

LEMMA WriteStep ==
  ASSUME TypeOK, NEW t \in job.tars, NEW o \in t, WriteObject(t, o) \/ RemoveTarget(t, o), Rooted(disk),
         NEW old, NEW new, NEW U, NEW R, Change(old, new, U, R),
         Between(disk, old, new, U), Genuine(Pending, old, U, R)
  PROVE  /\ Between(disk', old, new, U)
         /\ Genuine(Pending', old, U, R)
         /\ Accounted(disk, Pending, old, new, U) /\ ~job'.failed =>
              Accounted(disk', Pending', old, new, U)
<1>0. /\ o \in Object /\ o \in Pending /\ t \in SUBSET Object /\ Pending = Others(t) \cup t
      /\ disk \in Disk
      /\ Wrote(t, o) \/ Waits(t, o) \/ Clears(t, o) \/ GivesUp(t, o)
  BY WorkerStep
<1>1. Genuine(Pending', old, U, R)
  BY WriteGenuine
<1>2. CASE Wrote(t, o)
  <2>1. Remains(Pending, Pending', disk, o)
    <3>1. WriteObject(t, o)
      BY <1>2 DEF Wrote, RemoveTarget
    <3> QED
      BY <1>2, <3>1, WriteRemains
  <2>2. ~Blocked(disk, o) /\ disk' = Written(disk, o)
    BY <1>2 DEF Wrote
  <2> QED
    BY <1>0, <1>1, <2>1, <2>2, WriteKeeps
<1>3. CASE Waits(t, o)
  <2>1. More(Pending, Pending') /\ disk' = disk
    BY <1>0, <1>3, SteppedMore DEF Waits
  <2> QED
    BY <1>1, <2>1 DEF Accounted, More
<1>4. CASE Clears(t, o)
  <2>1. PICK n \in Target(o) : disk' = RemoveAll(disk, n)
    BY <1>4 DEF Clears
  <2>2. o.step = "clear" /\ o.kind \in {"file", "dir", "open"}
    BY <1>0, <1>4, ObjectFacts DEF Clears
  <2>3. More(Pending, Pending')
    BY <1>0, <1>4, <2>2, SteppedMore DEF Clears
  <2> QED
    BY <1>0, <1>1, <2>1, <2>2, <2>3, RemovedKeeps
<1>5. CASE GivesUp(t, o)
  BY <1>1, <1>5 DEF GivesUp
<1> QED
  BY <1>0, <1>2, <1>3, <1>4, <1>5

-----------------------------------------------------------------------------
(* Steps of the server.                                                       *)

LEMMA PublishStep ==
  ASSUME TypeOK, History(rows, latest), Folding = {}, Crowding = {}, NEW tree \in Trees, Publish(tree)
  PROVE  History(rows', latest') /\ Same(rows, rows', 0, latest)
<1> DEFINE view == tree \cup {e \in Files : e.path \notin Theirs}
<1>0. latest \in Nat /\ rows' = PublishRows(view) /\ latest' = latest + 1
  BY TypeFacts DEF Publish
<1>1. view \in SUBSET Entries /\ tree \in SUBSET [path : Theirs, hash : Hash]
  BY PublishViewType, SyncAssumption
<1>2. Once(Files)
  <2>1. Change(At(rows, latest), At(rows, latest), Put(rows, latest, latest), Gone(rows, latest, latest))
    BY <1>0, QueriesDescribe
  <2> QED
    BY <2>1 DEF Change, At, Files
<1>3. \A e \in Files : e.path \notin Theirs => e.path \in Mine
  <2>1. rows \in SUBSET Row /\ Known(rows)
    BY DEF History
  <2>2. Files = {Entry(r) : r \in {x \in rows : LiveAt(x, latest)}}
    BY <2>1, ViewRows DEF At, Files
  <2>3. \A r \in rows : Entry(r).path = r.path
    BY <2>1, RowFacts
  <2> QED
    BY <2>1, <2>2, <2>3 DEF Known
<1>4. \A e \in tree : e.path \in Theirs
  BY <1>1
<1>5. \A e \in view \ Files, r \in rows : e.path \in Dir \/ r.path \notin Inside[e.path]
  BY DEF Publish
<1>6. Once(view)
  BY <1>2, <1>4, TreesAssumption DEF Once
<1>7. \A e \in view : e.path \in Theirs \cup Mine
  BY <1>3, <1>4
<1>8. Outside(view, view)
  <2> SUFFICES ASSUME NEW e \in view, NEW f \in view, e.path \notin Dir, f.path \in Inside[e.path]
               PROVE  FALSE
    BY DEF Outside
  <2>1. e \in tree
    BY <1>3, EditAssumption
  <2>2. f \in tree
    <3>1. e.path \in Path \ Dir /\ f.path \in Path
      BY <1>1 DEF Entries
    <3>2. NodeOf[f.path] \in Under[NodeOf[e.path]] \/ f.path \in Dir
      BY <3>1, TreeAssumption
    <3>3. NodeOf[e.path] \in Node
      BY <3>1, SyncAssumption
    <3>4. f.path \notin Mine
      BY <3>2, <3>3, EditAssumption, SyncAssumption
    <3> QED
      BY <1>3, <3>4
  <2> QED
    BY <2>1, <2>2, TreesAssumption
<1>9. Alone(rows, view)
  BY DEF Publish, Alone
<1> HIDE DEF view
<1> QED
  BY <1>0, <1>1, <1>5, <1>6, <1>7, <1>8, <1>9, PublishKeeps

LEMMA GcStep ==
  ASSUME TypeOK, History(rows, latest), GcKeepsUp, NEW keep \in Keeps, GcProject(keep)
  PROVE  History(rows', latest') /\ Same(rows, rows', version, latest)
<1>1. latest \in Nat /\ version \in Nat /\ latest - keep \in Int /\ latest - keep <= version
  BY TypeFacts, SyncAssumption DEF GcProject
<1>2. rows' = rows \ {r \in rows : ~Live(r) /\ r.stop <= latest - keep} /\ latest' = latest
  BY DEF GcProject
<1> QED
  BY <1>1, <1>2, GcKeeps

-----------------------------------------------------------------------------
(* A rebuild that is cut short and called again.                              *)

(* The directory on its way from version v to t, the objects that are left,   *)
(* and what they account for.                                                 *)
Underway(rs, d, v, t) == Between(d, At(rs, v), At(rs, t), Put(rs, v, t))
Sound(rs, P, v, t) == Genuine(P, At(rs, v), Put(rs, v, t), Gone(rs, v, t))
Covered(rs, d, P, v, t) == Accounted(d, P, At(rs, v), At(rs, t), Put(rs, v, t))

(* After any number of attempts at the same version the directory is          *)
(* somewhere between the version it was at and that one.                      *)
RetryInv ==
  /\ History(rows, latest)
  /\ Rooted(disk)
  /\ job.pc \in {"idle", "query", "write", "summary"}
  /\ attempts = {} => Holds(disk, At(rows, version))
  /\ \A t \in attempts : attempts = {t} => version < t /\ Underway(rows, disk, version, t)
  /\ job.pc = "query" => job.from = version
  /\ job.pc = "write" => /\ job.to \in attempts
                         /\ attempts = {job.to} => Sound(rows, Pending, version, job.to)
                         /\ attempts = {job.to} /\ ~job.failed =>
                              Covered(rows, disk, Pending, version, job.to)

(* Nobody edits the directory, no directory becomes a file, no file becomes a *)
(* directory with more than one entry, and no version the directory may be at *)
(* is collected.                                                              *)
Following == Mine = {} /\ Folding = {} /\ Crowding = {} /\ GcKeepsUp

LEMMA SameFacts ==
  ASSUME NEW rs, NEW ss, NEW v \in Nat, NEW hi \in Nat, NEW t \in v .. hi, Same(rs, ss, v, hi)
  PROVE  /\ At(rs, v) = At(ss, v) /\ At(rs, t) = At(ss, t)
         /\ Put(rs, v, t) = Put(ss, v, t) /\ Gone(rs, v, t) = Gone(ss, v, t)
  BY DEF Same

LEMMA SameShrinks ==
  ASSUME NEW rs, NEW ss, NEW v \in Nat, NEW hi \in Nat, v <= hi, Same(rs, ss, 0, hi)
  PROVE  Same(rs, ss, v, hi)
<1>1. v .. hi \subseteq 0 .. hi
  OBVIOUS
<1> QED
  BY <1>1 DEF Same

LEMMA RetryServer ==
  ASSUME TypeOK, RetryInv, History(rows', latest'), Same(rows, rows', version, latest),
         UNCHANGED <<disk, version, job, attempts>>
  PROVE  RetryInv'
<1>0. /\ version \in Nat /\ latest \in Nat /\ version \in version .. latest
      /\ attempts \subseteq 1 .. latest
  BY TypeFacts
<1>1. At(rows', version) = At(rows, version)
  BY <1>0, SameFacts
<1>2. ASSUME NEW t \in attempts, attempts = {t}
      PROVE  /\ Underway(rows', disk, version, t) <=> Underway(rows, disk, version, t)
             /\ Sound(rows', Pending, version, t) <=> Sound(rows, Pending, version, t)
             /\ Covered(rows', disk, Pending, version, t) <=> Covered(rows, disk, Pending, version, t)
  <2>1. t \in version .. latest
    BY <1>0, <1>2 DEF RetryInv
  <2>2. /\ At(rows, version) = At(rows', version) /\ At(rows, t) = At(rows', t)
        /\ Put(rows, version, t) = Put(rows', version, t) /\ Gone(rows, version, t) = Gone(rows', version, t)
    BY <1>0, <2>1, SameFacts
  <2> QED
    BY <2>2 DEF Underway, Sound, Covered
<1>3. Pending' = Pending
  BY DEF Pending
<1> QED
  BY <1>1, <1>2, <1>3 DEF RetryInv

LEMMA RetryInit == Following /\ Init => RetryInv
<1> SUFFICES ASSUME Init PROVE RetryInv
  OBVIOUS
<1>1. rows = {} /\ disk = [n \in Node |-> Missing] /\ Missing \notin Hash
  BY SyncAssumption DEF Init
<1>2. History(rows, latest)
  BY <1>1 DEF History, Bounded, Apart, FileFirst, Lone, Known
<1>3. At(rows, version) = {}
  BY <1>1, ViewRows
<1>4. disk \in Disk /\ Once({}) /\ {} \in SUBSET Entries
  BY <1>1 DEF Disk, Once
<1>5. Holds(disk, {})
  BY <1>1, <1>4, HoldsMeans
<1>6. Rooted(disk)
  BY <1>1 DEF Rooted
<1> QED
  BY <1>2, <1>3, <1>5, <1>6 DEF Init, Idle, RetryInv

LEMMA RetryCompress ==
  ASSUME TypeOK, RetryInv, GetCompress
  PROVE  RetryInv'
<1>0. /\ disk \in Disk /\ job \in JobUpTo(latest) /\ job.from = version /\ version \in Nat
      /\ latest \in Nat /\ job.to \in Nat /\ job.to <= latest /\ version <= latest
  <2>1. disk \in Disk /\ job \in JobUpTo(latest) /\ version \in Nat /\ latest \in Nat /\ version <= latest
    BY TypeFacts
  <2>2. job.to \in Nat /\ job.to <= latest
    BY <2>1 DEF JobUpTo
  <2>3. job.from = version
    BY DEF RetryInv, GetCompress
  <2> QED
    BY <2>1, <2>2, <2>3
<1>1. UNCHANGED <<rows, latest, disk, version>>
  BY DEF GetCompress, server
<1>2. CASE Stream(version, job.to) = {}
  <2>1. job' = Idle /\ attempts' = attempts
    BY <1>0, <1>2 DEF GetCompress
  <2> QED
    BY <1>1, <2>1 DEF RetryInv, Idle
<1>3. CASE Stream(version, job.to) # {}
  <2> DEFINE objects == Stream(version, job.to)
  <2>1. PICK first \in Starts(objects) :
          /\ job' = [job EXCEPT !.pc = "write", !.tars = Tars(objects, first)]
          /\ attempts' = attempts \cup {job.to}
    BY <1>0, <1>3 DEF GetCompress
  <2>2. job'.pc = "write" /\ job'.to = job.to /\ job'.tars = Tars(objects, first)
    BY <1>0, <2>1 DEF JobUpTo
  <2>3. Pending' = objects
    BY <2>2, StreamType, TarsType DEF Pending
  <2>4. version < job.to
    BY <1>0, <1>3, StreamFacts
  <2>5. Change(At(rows, version), At(rows, job.to), Put(rows, version, job.to), Gone(rows, version, job.to))
    BY <1>0, <2>4, QueriesDescribe DEF RetryInv
  <2>6. /\ Sound(rows, objects, version, job.to)
        /\ Covered(rows, disk, objects, version, job.to)
    BY <1>0, <2>5, StreamFacts, StartAccounted DEF Sound, Covered
  <2>7. attempts = {} => Underway(rows, disk, version, job.to)
    BY <1>0, <2>5, StartBetween DEF RetryInv, Underway
  <2>8. ASSUME NEW t \in attempts', attempts' = {t}
        PROVE  version < t /\ Underway(rows, disk, version, t)
    <3>1. t = job.to /\ (attempts = {} \/ attempts = {job.to})
      BY <2>1, <2>8
    <3> QED
      BY <2>4, <2>7, <3>1 DEF RetryInv
  <2> HIDE DEF objects
  <2> QED
    BY <1>1, <2>1, <2>2, <2>3, <2>6, <2>8 DEF RetryInv
<1> QED
  BY <1>2, <1>3

LEMMA RetryWrite ==
  ASSUME TypeOK, RetryInv, NEW t \in job.tars, NEW o \in t, WriteObject(t, o) \/ RemoveTarget(t, o)
  PROVE  RetryInv'
<1>0. /\ job \in JobUpTo(latest) /\ version \in Nat /\ latest \in Nat /\ job.to \in Nat
      /\ job.pc = "write" /\ job.to \in attempts
  BY TypeFacts, WorkerStep DEF JobUpTo, RetryInv
<1>1. UNCHANGED <<rows, latest, version, attempts>>
  BY WorkerStep
<1>2. job'.pc = "write" /\ job'.to = job.to /\ (job'.failed \/ ~job.failed)
  <2>1. job'.failed \/ job'.failed = job.failed
    BY WorkerStep DEF Wrote, Waits, Clears, GivesUp
  <2> QED
    BY <2>1, WorkerStep
<1>3. Rooted(disk')
  BY WriteRooted DEF RetryInv
<1>4. CASE attempts = {job.to}
  <2>1. version < job.to /\ Underway(rows, disk, version, job.to) /\ Sound(rows, Pending, version, job.to)
    BY <1>0, <1>4 DEF RetryInv
  <2>2. Change(At(rows, version), At(rows, job.to), Put(rows, version, job.to), Gone(rows, version, job.to))
    BY <1>0, <2>1, QueriesDescribe DEF RetryInv
  <2>3. /\ Underway(rows, disk', version, job.to) /\ Sound(rows, Pending', version, job.to)
        /\ Covered(rows, disk, Pending, version, job.to) /\ ~job'.failed =>
             Covered(rows, disk', Pending', version, job.to)
    BY <2>1, <2>2, WriteStep DEF Underway, Sound, Covered, RetryInv
  <2> QED
    BY <1>0, <1>1, <1>2, <1>3, <1>4, <2>1, <2>3 DEF RetryInv
<1>5. CASE attempts # {job.to}
  BY <1>0, <1>1, <1>2, <1>3, <1>5 DEF RetryInv
<1> QED
  BY <1>4, <1>5

(* The last tar is written: the directory has the files of the version.       *)
LEMMA RetryEnd ==
  ASSUME TypeOK, RetryInv, WriteVersionFile, attempts \subseteq {job.to}
  PROVE  Holds(disk, At(rows, job.to))
<1>0. /\ disk \in Disk /\ job \in JobUpTo(latest) /\ version \in Nat /\ latest \in Nat /\ job.to \in Nat
      /\ job.pc = "write" /\ job.tars = {} /\ ~job.failed
  BY TypeFacts DEF JobUpTo, RetryInv, WriteVersionFile
<1>1. attempts = {job.to} /\ version < job.to /\ Pending = {}
  BY <1>0 DEF RetryInv, Pending
<1>2. Underway(rows, disk, version, job.to) /\ Covered(rows, disk, {}, version, job.to)
  BY <1>0, <1>1 DEF RetryInv
<1>3. Change(At(rows, version), At(rows, job.to), Put(rows, version, job.to), Gone(rows, version, job.to))
  BY <1>0, <1>1, QueriesDescribe DEF RetryInv
<1> QED
  BY <1>0, <1>2, <1>3, EndHolds DEF Underway, Covered

LEMMA RetryNext == Following /\ TypeOK /\ RetryInv /\ [Next]_vars => RetryInv'
<1> SUFFICES ASSUME Following, TypeOK, RetryInv, [Next]_vars
             PROVE  RetryInv'
  OBVIOUS
<1>0. job \in JobUpTo(latest) /\ latest \in Nat /\ version \in Nat /\ version <= latest
  BY TypeFacts
<1>1. CASE \E tree \in Trees : Publish(tree)
  <2>1. PICK tree \in Trees : Publish(tree)
    BY <1>1
  <2>2. History(rows', latest') /\ Same(rows, rows', version, latest)
    BY <1>0, <2>1, PublishStep, SameShrinks DEF RetryInv, Following
  <2> QED
    BY <2>1, <2>2, RetryServer DEF Publish
<1>2. CASE \E keep \in Keeps : GcProject(keep)
  <2>1. PICK keep \in Keeps : GcProject(keep)
    BY <1>2
  <2>2. History(rows', latest') /\ Same(rows, rows', version, latest)
    BY <2>1, GcStep DEF RetryInv, Following
  <2> QED
    BY <2>1, <2>2, RetryServer DEF GcProject
<1>3. CASE \E to \in 1 .. latest, summarize \in Summarize : Rebuild(to, summarize)
  <2>1. PICK to \in 1 .. latest, summarize \in Summarize : Rebuild(to, summarize)
    BY <1>3
  <2>2. job'.pc = "query" /\ job'.from = version
    BY <2>1, BeginJob DEF Rebuild
  <2> QED
    BY <2>1, <2>2 DEF Rebuild, server, RetryInv
<1>4. CASE GetCompress
  BY <1>4, RetryCompress
<1>5. CASE \E t \in job.tars : \E o \in t : WriteObject(t, o) \/ RemoveTarget(t, o)
  BY <1>5, RetryWrite
<1>6. CASE RebuildError
  BY <1>6 DEF RebuildError, server, RetryInv, Idle
<1>7. CASE WriteVersionFile
  <2>1. UNCHANGED <<rows, latest, disk>> /\ version' = job.to /\ job'.pc \in {"summary", "idle"}
    BY <1>0, <1>7 DEF WriteVersionFile, server, Idle, JobUpTo
  <2>2. CASE attempts \subseteq {job.to}
    <3>1. attempts' = {} /\ Holds(disk, At(rows, job.to))
      BY <1>7, <2>2, RetryEnd DEF WriteVersionFile
    <3> QED
      BY <2>1, <3>1 DEF RetryInv
  <2>3. CASE ~(attempts \subseteq {job.to})
    <3>1. attempts' = attempts /\ job.to \in attempts
      BY <1>7, <2>3 DEF WriteVersionFile, RetryInv
    <3>2. \A t \in attempts : attempts # {t}
      BY <2>3, <3>1
    <3> QED
      BY <2>1, <3>1, <3>2 DEF RetryInv
  <2> QED
    BY <2>2, <2>3
<1>8. CASE WriteSummary
  BY <1>8 DEF WriteSummary, server, RetryInv, Idle
<1>9. CASE Mine # {} /\ Update
  BY <1>9 DEF Following
<1>10. CASE UpdateStep
  BY <1>10 DEF UpdateStep, SendUpdate, ReceiveAnswer, RebuildAfterUpdate, RetryInv
<1>11. CASE \E q \in Mine, value \in Hash \cup {Missing} : Edit(q, value)
  BY <1>11 DEF Following
<1>12. CASE \E t \in job.tars : WriteFails(t)
  <2>1. PICK t \in job.tars : WriteFails(t)
    BY <1>12
  <2>2. /\ job'.pc = "write" /\ job'.to = job.to /\ job'.failed /\ job'.tars = job.tars \ {t}
        /\ UNCHANGED <<rows, latest, disk, version, attempts>> /\ job.pc = "write"
    BY <1>0, <2>1 DEF WriteFails, GiveUp, JobUpTo, server
  <2>3. Pending' \subseteq Pending
    BY <2>2 DEF Pending
  <2>4. Sound(rows, Pending, version, job.to) => Sound(rows, Pending', version, job.to)
    BY <2>3 DEF Sound, Genuine
  <2> QED
    BY <2>2, <2>4 DEF RetryInv
<1>13. CASE Fault
  BY <1>13 DEF Fault, server, RetryInv, Idle
<1>14. CASE UNCHANGED vars
  BY <1>14 DEF vars, RetryInv, Pending
<1> QED
  BY <1>1, <1>2, <1>3, <1>4, <1>5, <1>6, <1>7, <1>8, <1>9, <1>10, <1>11, <1>12, <1>13, <1>14
     DEF Next, RebuildStep

(* A rebuild that was killed, lost the server or could not write, anywhere    *)
(* and any number of times, and is called again for the same version leaves   *)
(* exactly the files of that version (client.go:361-504, writer.go:84-176),   *)
(* in whatever order the workers make directories, open files, and remove     *)
(* what is in the way (writer.go:71-82), if nobody edits the directory, no    *)
(* directory becomes a file, no file becomes a directory with more than one   *)
(* entry, and the server keeps the client's version.                          *)
THEOREM RetriesExact == Following => (Spec => RetryExact)
<1> SUFFICES ASSUME Following
             PROVE  Spec => RetryExact
  OBVIOUS
<1>1. TypeOK /\ RetryInv /\ [Next]_vars =>
        [WriteVersionFile /\ attempts \subseteq {job.to} => Matches(View(rows, project, job.to))]_vars
  BY RetryEnd DEF Matches, Holds, At
<1>2. Following
  OBVIOUS
<1> QED
  BY <1>1, <1>2, RetryInit, RetryNext, SyncTypeCorrect, PTL DEF Spec, RetryExact

-----------------------------------------------------------------------------
(* A directory that is edited, uploaded and rebuilt.                          *)

(* Among the names that the others write, none is a file at one time and a    *)
(* directory at another.                                                      *)
Steady == \A q \in Theirs \ Dir, r \in Theirs : r \notin Inside[q]

(* The client runs undisturbed: files are edited between calls only, edits    *)
(* are uploaded before a rebuild, and nobody else writes the edited files.    *)
Undisturbed ==
  /\ ~Interrupts /\ MaxFaults = 0 /\ Summarize \subseteq {TRUE}
  /\ GcKeepsUp /\ Folding = {} /\ Crowding = {} /\ Mine \cap Theirs = {} /\ Steady

MineNode == {NodeOf[q] : q \in Mine}

(* The last own update is at or before version v.                             *)
Settled(rs, v) == \A r \in rs : r.path \in Mine => r.start <= v /\ (Live(r) \/ r.stop <= v)

(* An own update between v and t: a rebuild has something to do.              *)
Evidence(rs, v, t) ==
  \E r \in rs : /\ r.path \in Mine
                /\ \/ Live(r) /\ v < r.start /\ r.start <= t
                   \/ ~Live(r) /\ 0 < v /\ r.start <= v /\ v < r.stop /\ r.stop <= t

(* Between calls: the summary is the version, and only edits differ from it.  *)
Clean ==
  /\ Holds(summary, At(rows, version))
  /\ \A n \in Node \ MineNode : FileAt(disk, n) = FileAt(summary, n)
  /\ Settled(rows, version)

(* No file of the project is a directory here.                                *)
Distinct(d) == \A q \in (Theirs \cup Mine) \ Dir : d[NodeOf[q]] # Folder

(* No call has failed, and the directories of what is opened or moved exist.  *)
Ready(d, P) ==
  \A o \in P : /\ o.step = "try"
               /\ o.kind \in {"open", "place"} => \A m \in Above(NodeOf[o.path]) : d[m] = Folder

(* A rebuild is asked for, with nothing edited or after an own update.        *)
Querying ==
  /\ job.from = version /\ job.summarize /\ ~job.failed
  /\ \/ Clean /\ Holds(disk, At(rows, version))
     \/ /\ version < job.to /\ Underway(rows, disk, version, job.to)
        /\ Evidence(rows, version, job.to) /\ Settled(rows, job.to)

Writing ==
  /\ job.summarize /\ ~job.failed
  /\ version < job.to /\ Settled(rows, job.to)
  /\ Underway(rows, disk, version, job.to)
  /\ Sound(rows, Pending, version, job.to)
  /\ Covered(rows, disk, Pending, version, job.to)
  /\ Ready(disk, Pending)

(* An update is sent: exactly its files differ from the version.              *)
Sending ==
  /\ job.from = version /\ ~job.summarize /\ summary = disk
  /\ job.updates \subseteq Mine /\ job.updates # {}
  /\ Settled(rows, version)
  /\ \A n \in Node : FileAt(disk, n) = FileOf(At(rows, version), n)
                       <=> n \notin {NodeOf[q] : q \in job.updates}

(* It is published: the edited files are those of the new version, the others *)
(* those of the old one.                                                      *)
Sent ==
  /\ job.from = version /\ ~job.summarize /\ summary = disk
  /\ version < job.to /\ Settled(rows, job.to) /\ Evidence(rows, version, job.to)
  /\ \A n \in Node \ MineNode : FileAt(disk, n) = FileOf(At(rows, version), n)
  /\ \A n \in MineNode : FileAt(disk, n) = FileOf(At(rows, job.to), n)
  /\ version + 1 = job.to => Holds(disk, At(rows, job.to))

SyncInv ==
  /\ History(rows, latest)
  /\ Rooted(disk) /\ Distinct(disk)
  /\ job.pc = "idle" => Clean
  /\ job.pc = "query" => Querying
  /\ job.pc = "write" => Writing
  /\ job.pc = "summary" => Holds(disk, At(rows, version)) /\ Settled(rows, version)
  /\ job.pc = "send" => Sending
  /\ job.pc \in {"answer", "version", "rebuild"} => Sent
  /\ job.pc = "version" => version + 1 = job.to

LEMMA Unnested ==
  ASSUME Steady, NEW q \in (Theirs \cup Mine) \ Dir, NEW r \in Theirs \cup Mine
  PROVE  /\ r \notin Inside[q]
         /\ NodeOf[q] \in Node /\ NodeOf[r] \in Node
         /\ NodeOf[q] \notin Above(NodeOf[r])
         /\ r \in Dir => NodeOf[q] # NodeOf[r]
<1>1. q \in Path \ Dir /\ r \in Path /\ NodeOf[q] \in Node /\ NodeOf[r] \in Node
  BY SyncAssumption
<1>2. r \notin Inside[q]
  <2>1. CASE q \in Mine
    BY <2>1, EditAssumption
  <2>2. CASE r \in Mine
    <3>1. r \notin Dir /\ NodeOf[r] \notin Under[NodeOf[q]]
      BY <1>1, <2>2, EditAssumption, SyncAssumption
    <3> QED
      BY <1>1, <3>1, TreeAssumption
  <2> QED
    BY <2>1, <2>2 DEF Steady
<1>3. NodeOf[q] \notin Above(NodeOf[r])
  BY <1>1, <1>2, TreeAssumption DEF Above
<1>4. r \in Dir => NodeOf[q] # NodeOf[r]
  BY <1>1, <1>2, TreeAssumption
<1> QED
  BY <1>1, <1>2, <1>3, <1>4

(* What is left to write has names of the project.                            *)
LEMMA GenuineNames ==
  ASSUME NEW old, NEW new, NEW U, NEW R, Change(old, new, U, R),
         \A e \in old \cup new : e.path \in Theirs \cup Mine,
         NEW P, Genuine(P, old, U, R), NEW o \in P
  PROVE  o.path \in Theirs \cup Mine
<1>1. CASE o.hash = Null
  BY <1>1 DEF Genuine, Change
<1>2. CASE o.hash # Null
  <2>1. [path |-> o.path, hash |-> o.hash] \in new
    BY <1>2 DEF Genuine, Change
  <2> QED
    BY <2>1
<1> QED
  BY <1>1, <1>2

(* No call fails.                                                             *)
LEMMA NoFail ==
  ASSUME Steady, NEW old, NEW new, NEW U, NEW R, Change(old, new, U, R),
         \A e \in old \cup new : e.path \in Theirs \cup Mine,
         NEW d, Between(d, old, new, U), Distinct(d),
         NEW P, Genuine(P, old, U, R), Ready(d, P), NEW o \in P, o \in Object
  PROVE  ~Blocked(d, o)
<1> DEFINE n == NodeOf[o.path]
<1>0. o.path \in Theirs \cup Mine /\ n \in Node
  BY GenuineNames, ObjectFacts
<1>1. ASSUME NEW k \in Node, d[k] \in Hash
      PROVE  k \notin Above(n) /\ (o.path \in Dir => k # n)
  <2>1. PICK e \in old \cup new : FileHere(e, k)
    BY <1>1 DEF Between
  <2>2. e.path \in (Theirs \cup Mine) \ Dir /\ NodeOf[e.path] = k
    BY <2>1 DEF FileHere
  <2> QED
    BY <1>0, <2>2, Unnested
<1>2. ~NotDir(d, n)
  BY <1>0, <1>1, AboveFacts DEF NotDir, IsFile
<1>3. ~(o.kind = "dir" /\ IsFile(d, n))
  BY <1>0, <1>1, ObjectFacts DEF IsFile
<1>4. ~(o.kind = "open" /\ d[n] = Folder)
  BY <1>0, ObjectFacts DEF Distinct
<1>5. ~(o.kind \in {"open", "place"} /\ \E m \in Above(n) : d[m] # Folder)
  BY DEF Ready
<1> QED
  BY <1>2, <1>3, <1>4, <1>5 DEF Blocked

(* Only names inside which something is written become directories.           *)
LEMMA WrittenDistinct ==
  ASSUME Steady, NEW d \in Disk, Rooted(d), Distinct(d), NEW o \in Object, o.path \in Theirs \cup Mine,
         ~Blocked(d, o)
  PROVE  Distinct(Written(d, o))
<1> DEFINE n == NodeOf[o.path]
           dd == Written(d, o)
<1> SUFFICES ASSUME NEW q \in (Theirs \cup Mine) \ Dir
             PROVE  dd[NodeOf[q]] # Folder
  BY DEF Distinct
<1>0. /\ NodeOf[q] \in Node /\ n \in Node /\ d[NodeOf[q]] # Folder
      /\ NodeOf[q] \notin Above(n) /\ (o.path \in Dir => NodeOf[q] # n)
      /\ Missing # Folder /\ Folder \notin Hash
  BY Unnested, SyncAssumption DEF Distinct
<1>1. CASE o.kind \in {"file", "dir"}
  <2>1. dd[NodeOf[q]] = Folder => d[NodeOf[q]] = Folder \/ NodeOf[q] \in Above(n) \cup {n}
    BY <1>0, <1>1, WrittenMakes
  <2>2. o.kind = "file" /\ dd[NodeOf[q]] = Folder => d[NodeOf[q]] = Folder \/ NodeOf[q] \in Above(n)
    BY <1>0, <1>1, WrittenMakes
  <2>3. o.kind = "dir" => o.path \in Dir
    BY ObjectFacts
  <2> QED
    BY <1>0, <1>1, <2>1, <2>2, <2>3
<1>2. CASE o.kind \in {"open", "place"} \/ (o.kind = "pack" /\ o.hash # Null /\ ~Replaced(d, o))
  <2>1. Puts(d, dd, n, o.hash) /\ o.hash \in Hash
    BY <1>2, WrittenPuts
  <2> HIDE DEF dd
  <2> QED
    BY <1>0, <2>1 DEF Puts
<1>3. CASE o.kind = "delete" \/ (o.kind = "pack" /\ o.hash = Null) \/ Replaced(d, o)
  <2>1. Drops(d, dd, n)
    BY <1>3, WrittenDrops
  <2> HIDE DEF dd
  <2> QED
    BY <1>0, <2>1 DEF Drops
<1> QED
  BY <1>1, <1>2, <1>3, ObjectFacts

(* The directories of what is opened or moved stay.                           *)
LEMMA FoldersStay ==
  ASSUME Steady, NEW old, NEW new, NEW U, NEW R, Change(old, new, U, R),
         \A e \in old \cup new : e.path \in Theirs \cup Mine,
         NEW d \in Disk, Rooted(d), NEW P, Genuine(P, old, U, R), NEW o \in P, o \in Object, ~Blocked(d, o),
         NEW y \in P, y \in Object, y.kind \in {"open", "place"},
         \A m \in Above(NodeOf[y.path]) : d[m] = Folder
  PROVE  \A m \in Above(NodeOf[y.path]) : Written(d, o)[m] = Folder
<1> DEFINE n == NodeOf[o.path]
           dd == Written(d, o)
<1> SUFFICES ASSUME NEW m \in Above(NodeOf[y.path])
             PROVE  dd[m] = Folder
  OBVIOUS
<1>0. /\ o.path \in Theirs \cup Mine /\ y.path \in Theirs \cup Mine /\ n \in Node /\ m \in Node
      /\ NodeOf[y.path] \in Under[m] /\ d[m] = Folder
  BY GenuineNames, ObjectFacts DEF Above
<1>1. o.path \notin Dir => m # n
  BY <1>0, Unnested
<1>2. CASE o.kind \in {"file", "dir"}
  BY <1>0, <1>2, WrittenMakes
<1>3. CASE o.kind \in {"open", "place"} \/ (o.kind = "pack" /\ o.hash # Null /\ ~Replaced(d, o))
  <2>1. Puts(d, dd, n, o.hash) /\ o.path \notin Dir
    BY <1>3, WrittenPuts
  <2>2. m \notin Under[n]
    <3>1. m \in Under[n] => NodeOf[y.path] \in Under[n]
      BY <1>0, AboveFacts, ObjectFacts
    <3>2. n \notin Above(NodeOf[y.path])
      BY <1>0, <2>1, Unnested
    <3> QED
      BY <1>0, <3>1, <3>2 DEF Above
  <2> HIDE DEF dd
  <2> QED
    BY <1>0, <1>1, <2>1, <2>2 DEF Puts
<1>4. CASE o.kind = "delete" \/ (o.kind = "pack" /\ o.hash = Null) \/ Replaced(d, o)
  <2>1. Drops(d, dd, n)
    BY <1>4, WrittenDrops
  <2>2. m # n
    <3> SUFFICES ASSUME o.path \in Dir, m = n
                 PROVE  FALSE
      BY <1>1
    <3>1. o.hash = Null /\ y.hash # Null /\ o.path \in Path /\ y.path \in Path
      <4>1. o.kind = "delete"
        BY <1>4, ObjectFacts DEF Replaced
      <4> QED
        BY <4>1, ObjectFacts
    <3>2. o.path \in R /\ [path |-> y.path, hash |-> y.hash] \in U
      BY <3>1 DEF Genuine
    <3>3. y.path \notin Inside[o.path]
      BY <3>2 DEF Change
    <3>4. y.path \in Inside[o.path]
      BY <1>0, <3>1, TreeAssumption
    <3> QED
      BY <3>3, <3>4
  <2> HIDE DEF dd
  <2> QED
    BY <1>0, <2>1, <2>2 DEF Drops
<1> QED
  BY <1>2, <1>3, <1>4, ObjectFacts

(* And those of what is opened next have just been made.                      *)
LEMMA FoldersMade ==
  ASSUME NEW d \in Disk, NEW o \in Object, o.kind \in {"file", "dir"}, ~Blocked(d, o), NEW k \in Node,
         InDir(k) = IF o.kind = "file" THEN InDir(NodeOf[o.path]) ELSE {NodeOf[o.path]}
  PROVE  \A m \in Above(k) : Written(d, o)[m] = Folder
<1> DEFINE n == NodeOf[o.path]
           dd == Written(d, o)
<1>0. /\ n \in Node /\ \A m \in Above(n) : dd[m] = Folder
      /\ o.kind = "dir" => dd[n] = Folder
  BY ObjectFacts, WrittenMakes DEF Standing
<1> HIDE DEF dd
<1>1. CASE Above(k) = {}
  BY <1>1
<1>2. CASE Above(k) # {}
  <2>1. PICK m \in InDir(k) : TRUE
    BY <1>2, TreeAssumption
  <2>2. Above(k) \subseteq Above(m) \cup {m}
    BY <2>1 DEF InDir
  <2>3. \A x \in Above(m) \cup {m} : dd[x] = Folder
    <3>1. CASE o.kind = "dir"
      <4>1. m = n
        BY <2>1, <3>1
      <4> QED
        BY <1>0, <3>1, <4>1
    <3>2. CASE o.kind = "file"
      <4>1. m \in Above(n)
        BY <2>1, <3>2 DEF InDir
      <4>2. Above(m) \subseteq Above(n)
        BY <1>0, <4>1, AboveFacts
      <4> QED
        BY <1>0, <4>1, <4>2
    <3> QED
      BY <3>1, <3>2
  <2> QED
    BY <2>2, <2>3 DEF dd
<1> QED
  BY <1>1, <1>2

LEMMA WriteReady ==
  ASSUME TypeOK, NEW t \in job.tars, NEW o \in t, WriteObject(t, o) \/ RemoveTarget(t, o), Wrote(t, o),
         Steady, Rooted(disk), NEW old, NEW new, NEW U, NEW R, Change(old, new, U, R),
         \A e \in old \cup new : e.path \in Theirs \cup Mine,
         Genuine(Pending, old, U, R), Ready(disk, Pending)
  PROVE  Ready(disk', Pending')
<1>0. /\ o \in Object /\ o \in Pending /\ disk \in Disk /\ Pending \subseteq Object
      /\ ~Blocked(disk, o) /\ disk' = Written(disk, o) /\ o.step = "try"
  <2>1. job \in JobUpTo(latest)
    BY TypeFacts
  <2>2. Pending \subseteq Object
    BY <2>1, TarSetsMeans DEF JobUpTo, Pending
  <2>3. o \in Object /\ o \in Pending /\ disk \in Disk
    BY WorkerStep
  <2> QED
    BY <2>2, <2>3 DEF Wrote, Ready
<1> SUFFICES ASSUME NEW y \in Pending'
             PROVE  /\ y.step = "try"
                    /\ y.kind \in {"open", "place"} => \A m \in Above(NodeOf[y.path]) : disk'[m] = Folder
  BY DEF Ready
<1>1. CASE y \in Pending
  <2>1. y.step = "try" /\ (y.kind \in {"open", "place"} => \A m \in Above(NodeOf[y.path]) : disk[m] = Folder)
    BY <1>1 DEF Ready
  <2> QED
    BY <1>0, <1>1, <2>1, FoldersStay
<1>2. CASE /\ y.kind = "open" /\ y.step = "try" /\ o.kind \in {"file", "dir"}
           /\ \E x \in Pending : /\ x \in Object /\ x.kind = "file"
                                 /\ y.path = x.path /\ y.hash = x.hash
                                 /\ InDir(NodeOf[x.path]) = IF o.kind = "file" THEN InDir(NodeOf[o.path])
                                                            ELSE {NodeOf[o.path]}
  <2>1. PICK x \in Object : /\ y.path = x.path
                            /\ InDir(NodeOf[x.path]) = IF o.kind = "file" THEN InDir(NodeOf[o.path])
                                                       ELSE {NodeOf[o.path]}
    BY <1>2
  <2>2. NodeOf[x.path] \in Node
    BY ObjectFacts
  <2> QED
    BY <1>0, <1>2, <2>1, <2>2, FoldersMade
<1>3. CASE Replaced(disk, o) /\ y = Placed(o)
  <2>1. y.step = "try" /\ y.path = o.path
    BY <1>0, <1>3, PlacedFacts DEF Replaced
  <2>2. /\ NodeOf[o.path] \in Node /\ NodeOf[o.path] \notin Above(NodeOf[o.path])
        /\ \A m \in Above(NodeOf[o.path]) : m \in Node /\ disk[m] = Folder
    BY <1>0, <1>3, ObjectFacts, AboveFacts DEF Replaced, Rooted
  <2>3. Drops(disk, disk', NodeOf[o.path])
    BY <1>0, <1>3, WrittenDrops
  <2> QED
    BY <2>1, <2>2, <2>3 DEF Drops
<1>4. ~Waits(t, o) /\ ~Clears(t, o)
  BY <1>0 DEF Waits, Clears
<1>5. \/ y \in Pending
      \/ /\ y.kind = "open" /\ y.step = "try" /\ o.kind \in {"file", "dir"}
         /\ \E x \in Pending : /\ x \in Object /\ x.kind = "file"
                               /\ y.path = x.path /\ y.hash = x.hash
                               /\ InDir(NodeOf[x.path]) = IF o.kind = "file" THEN InDir(NodeOf[o.path])
                                                          ELSE {NodeOf[o.path]}
      \/ Replaced(disk, o) /\ y = Placed(o)
  BY <1>4, PendingAfter
<1> QED
  BY <1>1, <1>2, <1>3, <1>5

(* The objects of a new stream have not been tried.                           *)
LEMMA StreamReady ==
  ASSUME NEW d, NEW v, NEW t
  PROVE  Ready(d, Stream(v, t))
<1>1. \A q, h : ToTarObject(q, h).step = "try" /\ ToTarObject(q, h).kind \notin {"open", "place"}
  BY DEF ToTarObject
<1>2. \A o \in Stream(v, t) : \E q, h : o = ToTarObject(q, h)
  BY DEF Stream
<1> QED
  BY <1>1, <1>2 DEF Ready

LEMMA KnownEntries ==
  ASSUME NEW rs, NEW last, History(rs, last), NEW v
  PROVE  \A e \in At(rs, v) : e.path \in Theirs \cup Mine
<1>1. rs \in SUBSET Row /\ Known(rs)
  BY DEF History
<1>2. At(rs, v) = {Entry(r) : r \in {x \in rs : LiveAt(x, v)}}
  BY <1>1, ViewRows
<1>3. \A r \in rs : Entry(r).path = r.path
  BY <1>1, RowFacts
<1> QED
  BY <1>1, <1>2, <1>3 DEF Known

LEMMA FileOfSame ==
  ASSUME NEW a, NEW b, NEW n, \A e : e \in a /\ FileHere(e, n) <=> e \in b /\ FileHere(e, n)
  PROVE  FileOf(a, n) = FileOf(b, n)
<1> DEFINE Here(view) == {e \in view : NodeOf[e.path] = n /\ e.path \notin Dir}
           Contents(S) == IF S = {} THEN Missing ELSE (CHOOSE e \in S : TRUE).hash
<1>1. FileOf(a, n) = Contents(Here(a)) /\ FileOf(b, n) = Contents(Here(b))
  BY DEF FileOf
<1>2. Here(a) = Here(b)
  BY DEF FileHere
<1> HIDE DEF Here, Contents
<1> QED
  BY <1>1, <1>2

(* Own rows and evidence outlive what the others do.                          *)
LEMMA PublishMine ==
  ASSUME TypeOK, History(rows, latest), Mine \cap Theirs = {}, NEW tree \in Trees, Publish(tree)
  PROVE  \A r : r.path \in Mine => (r \in rows <=> r \in rows')
<1> DEFINE view == tree \cup {e \in Files : e.path \notin Theirs}
           Changed(r) == Live(r) /\ Entry(r) \notin view
<1>1. rows' = {r \in rows : ~Changed(r)}
                \cup {[r EXCEPT !.stop = latest + 1] : r \in {o \in rows : Changed(o)}}
                \cup {[project |-> project, start |-> latest + 1, stop |-> Null,
                       path |-> e.path, hash |-> e.hash] : e \in view \ Files}
  BY DEF Publish, PublishRows
<1>2. rows \in SUBSET Row /\ latest \in Nat
  BY TypeFacts DEF History
<1>3. ASSUME NEW r \in rows, r.path \in Mine
      PROVE  ~Changed(r)
  <2>1. Live(r) => LiveAt(r, latest)
    BY DEF LiveAt, History, Bounded
  <2>2. Files = {Entry(x) : x \in {y \in rows : LiveAt(y, latest)}}
    BY <1>2, ViewRows DEF At, Files
  <2>3. Entry(r).path \notin Theirs
    BY <1>2, <1>3, RowFacts
  <2> QED
    BY <2>1, <2>2, <2>3
<1>4. \A e \in view \ Files : e.path \notin Mine
  BY SyncAssumption
<1>5. \A r \in rows : [r EXCEPT !.stop = latest + 1].path = r.path
  BY <1>2 DEF Row
<1> HIDE DEF Changed, view
<1>6. ASSUME NEW r, r.path \in Mine, r \in rows
      PROVE  r \in rows'
  BY <1>1, <1>3, <1>6
<1>7. ASSUME NEW r, r.path \in Mine, r \in rows'
      PROVE  r \in rows
  <2>1. CASE \E x \in rows : Changed(x) /\ r = [x EXCEPT !.stop = latest + 1]
    BY <1>3, <1>5, <1>7, <2>1
  <2>2. CASE \E e \in view \ Files : r.path = e.path
    BY <1>4, <1>7, <2>2
  <2> QED
    BY <1>1, <1>7, <2>1, <2>2
<1> QED
  BY <1>6, <1>7

LEMMA SyncServer ==
  ASSUME TypeOK, SyncInv, History(rows', latest'), Same(rows, rows', version, latest),
         UNCHANGED <<disk, version, summary, job>>,
         \A v : Settled(rows, v) => Settled(rows', v),
         \A t : Evidence(rows, version, t) => Evidence(rows', version, t)
  PROVE  SyncInv'
<1>0. version \in Nat /\ latest \in Nat /\ version <= latest /\ job \in JobUpTo(latest)
  BY TypeFacts
<1>1. At(rows', version) = At(rows, version)
  BY <1>0, SameFacts
<1>2. ASSUME version < job.to
      PROVE  /\ Underway(rows', disk, version, job.to) <=> Underway(rows, disk, version, job.to)
             /\ Sound(rows', Pending, version, job.to) <=> Sound(rows, Pending, version, job.to)
             /\ Covered(rows', disk, Pending, version, job.to) <=> Covered(rows, disk, Pending, version, job.to)
             /\ At(rows, job.to) = At(rows', job.to)
  <2>1. job.to \in version .. latest
    BY <1>0, <1>2 DEF JobUpTo
  <2>2. /\ At(rows, version) = At(rows', version) /\ At(rows, job.to) = At(rows', job.to)
        /\ Put(rows, version, job.to) = Put(rows', version, job.to)
        /\ Gone(rows, version, job.to) = Gone(rows', version, job.to)
    BY <1>0, <2>1, SameFacts
  <2> QED
    BY <2>2 DEF Underway, Sound, Covered
<1>3. Pending' = Pending
  BY DEF Pending
<1>4. Clean => Clean'
  BY <1>1 DEF Clean
<1>5. Querying => Querying'
  BY <1>1, <1>2, <1>4 DEF Querying
<1>6. Writing => Writing'
  BY <1>2, <1>3 DEF Writing
<1>7. Sending => Sending'
  BY <1>1 DEF Sending
<1>8. Sent => Sent'
  BY <1>1, <1>2 DEF Sent
<1> QED
  BY <1>1, <1>4, <1>5, <1>6, <1>7, <1>8 DEF SyncInv

LEMMA SyncPublish ==
  ASSUME TypeOK, Undisturbed, SyncInv, NEW tree \in Trees, Publish(tree)
  PROVE  SyncInv'
<1>1. version \in Nat /\ latest \in Nat /\ version <= latest
  BY TypeFacts
<1>2. History(rows', latest') /\ Same(rows, rows', version, latest)
  BY <1>1, PublishStep, SameShrinks DEF SyncInv, Undisturbed
<1>3. \A r : r.path \in Mine => (r \in rows <=> r \in rows')
  BY PublishMine DEF SyncInv, Undisturbed
<1>4. \A v : Settled(rows, v) => Settled(rows', v)
  BY <1>3 DEF Settled
<1>5. \A t : Evidence(rows, version, t) => Evidence(rows', version, t)
  BY <1>3 DEF Evidence
<1> QED
  BY <1>2, <1>4, <1>5, SyncServer DEF Publish

LEMMA SyncGc ==
  ASSUME TypeOK, Undisturbed, SyncInv, NEW keep \in Keeps, GcProject(keep)
  PROVE  SyncInv'
<1>1. /\ version \in Nat /\ latest \in Nat /\ latest - keep \in Int /\ latest - keep <= version
      /\ rows' = rows \ {r \in rows : ~Live(r) /\ r.stop <= latest - keep}
  BY TypeFacts, SyncAssumption DEF GcProject, Undisturbed
<1>2. History(rows', latest') /\ Same(rows, rows', version, latest)
  BY GcStep DEF SyncInv, Undisturbed
<1>3. \A v : Settled(rows, v) => Settled(rows', v)
  BY <1>1 DEF Settled
<1>4. rows \in SUBSET Row
  BY DEF SyncInv, History
<1>5. \A r \in rows : Live(r) \/ r.stop \in Nat
  BY <1>4, RowFacts
<1>6. \A r \in rows : Live(r) \/ version < r.stop => r \in rows'
  BY <1>1, <1>5
<1>7. \A t : Evidence(rows, version, t) => Evidence(rows', version, t)
  BY <1>6 DEF Evidence
<1> QED
  BY <1>2, <1>3, <1>7, SyncServer DEF GcProject

LEMMA SyncCompress ==
  ASSUME TypeOK, SyncInv, GetCompress
  PROVE  SyncInv'
<1>0. /\ disk \in Disk /\ job \in JobUpTo(latest) /\ version \in Nat /\ latest \in Nat
      /\ job.to \in Nat /\ job.pc = "query" /\ Querying /\ rows \in SUBSET Row
  <2>1. disk \in Disk /\ job \in JobUpTo(latest) /\ version \in Nat /\ latest \in Nat
    BY TypeFacts
  <2>2. job.to \in Nat
    BY <2>1 DEF JobUpTo
  <2>3. job.pc = "query" /\ Querying /\ rows \in SUBSET Row
    BY DEF GetCompress, SyncInv, History
  <2> QED
    BY <2>1, <2>2, <2>3
<1>1. UNCHANGED <<rows, latest, disk, version, summary>> /\ job.from = version
  BY <1>0 DEF GetCompress, server, Querying
<1>2. CASE Stream(version, job.to) = {}
  <2>1. job' = Idle
    BY <1>1, <1>2 DEF GetCompress
  <2>2. ~Evidence(rows, version, job.to)
    <3> SUFFICES ASSUME Evidence(rows, version, job.to) PROVE FALSE
      OBVIOUS
    <3>1. Put(rows, version, job.to) = {} /\ Gone(rows, version, job.to) = {}
      BY <1>0, <1>2, StreamFacts
    <3>2. PICK r \in rows : \/ Live(r) /\ version < r.start /\ r.start <= job.to
                            \/ Ended(r, version, job.to)
      BY <1>0, RowFacts DEF Evidence, Ended
    <3>3. CASE Live(r) /\ version < r.start /\ r.start <= job.to
      <4>1. r \in {x \in rows : LiveAt(x, job.to) /\ x.start > version}
        BY <1>0, <3>3, RowFacts DEF LiveAt
      <4>2. Put(rows, version, job.to) =
              {Entry(x) : x \in {y \in rows : LiveAt(y, job.to) /\ y.start > version}}
        BY <1>0, PutRows
      <4> QED
        BY <3>1, <4>1, <4>2
    <3>4. CASE Ended(r, version, job.to)
      <4>1. r.path \in PathsOf({x \in rows : Ended(x, version, job.to)})
        BY <3>4 DEF PathsOf
      <4>2. Gone(rows, version, job.to) = Bare(PathsOf({x \in rows : Ended(x, version, job.to)}), {})
        BY <1>0, <3>1, GoneRows
      <4> QED
        BY <3>1, <4>1, <4>2 DEF Bare
    <3> QED
      BY <3>2, <3>3, <3>4
  <2>3. Clean
    BY <1>0, <2>2 DEF Querying
  <2>4. Clean'
    BY <1>1, <2>3 DEF Clean
  <2> QED
    BY <1>1, <2>1, <2>4 DEF SyncInv, Idle
<1>3. CASE Stream(version, job.to) # {}
  <2> DEFINE objects == Stream(version, job.to)
  <2>1. PICK first \in Starts(objects) :
          job' = [job EXCEPT !.pc = "write", !.tars = Tars(objects, first)]
    BY <1>1, <1>3 DEF GetCompress
  <2>2. /\ job'.pc = "write" /\ job'.to = job.to /\ job'.tars = Tars(objects, first)
        /\ job'.summarize = job.summarize /\ job'.failed = job.failed
    BY <1>0, <2>1 DEF JobUpTo
  <2>3. Pending' = objects
    BY <2>2, StreamType, TarsType DEF Pending
  <2>4. version < job.to
    BY <1>0, <1>3, StreamFacts
  <2>5. Change(At(rows, version), At(rows, job.to), Put(rows, version, job.to), Gone(rows, version, job.to))
    BY <1>0, <2>4, QueriesDescribe DEF SyncInv
  <2>6. /\ Sound(rows, objects, version, job.to)
        /\ Covered(rows, disk, objects, version, job.to)
    BY <1>0, <2>5, StreamFacts, StartAccounted DEF Sound, Covered
  <2>7. Underway(rows, disk, version, job.to)
    BY <1>0, <2>5, StartBetween DEF Querying, Underway
  <2>8. Settled(rows, job.to)
    <3>1. \A r \in rows : r.start \in Nat /\ (Live(r) \/ r.stop \in Nat)
      BY <1>0, RowFacts
    <3>2. Settled(rows, version) => Settled(rows, job.to)
      BY <1>0, <2>4, <3>1 DEF Settled
    <3> QED
      BY <1>0, <3>2 DEF Querying, Clean
  <2>10. Ready(disk, objects)
    BY StreamReady
  <2> HIDE DEF objects
  <2>9. Writing'
    BY <1>0, <1>1, <2>2, <2>3, <2>4, <2>6, <2>7, <2>8, <2>10 DEF Writing, Querying
  <2> QED
    BY <1>1, <2>2, <2>9 DEF SyncInv
<1> QED
  BY <1>2, <1>3

LEMMA SyncWrite ==
  ASSUME TypeOK, Undisturbed, SyncInv, NEW t \in job.tars, NEW o \in t, WriteObject(t, o) \/ RemoveTarget(t, o)
  PROVE  SyncInv'
<1>0. /\ job.pc = "write" /\ Writing /\ o \in Object /\ o \in Pending /\ disk \in Disk
      /\ Rooted(disk) /\ Distinct(disk) /\ Steady
      /\ job'.pc = "write" /\ job'.to = job.to /\ job'.summarize = job.summarize
      /\ UNCHANGED <<rows, latest, version, summary>>
      /\ Wrote(t, o) \/ Waits(t, o) \/ Clears(t, o) \/ GivesUp(t, o)
  BY WorkerStep DEF SyncInv, Undisturbed
<1>1. version \in Nat /\ latest \in Nat /\ job.to \in Nat
  <2>1. job \in JobUpTo(latest) /\ version \in Nat /\ latest \in Nat
    BY TypeFacts
  <2> QED
    BY <2>1 DEF JobUpTo
<1> DEFINE old == At(rows, version)
           new == At(rows, job.to)
           U == Put(rows, version, job.to)
           R == Gone(rows, version, job.to)
<1>2. /\ Change(old, new, U, R)
      /\ \A e \in old \cup new : e.path \in Theirs \cup Mine
  BY <1>0, <1>1, QueriesDescribe, KnownEntries DEF SyncInv, Writing
<1>3. /\ Between(disk, old, new, U) /\ Genuine(Pending, old, U, R)
      /\ Accounted(disk, Pending, old, new, U) /\ Ready(disk, Pending)
  BY <1>0 DEF Writing, Underway, Sound, Covered
<1> HIDE DEF old, new, U, R
<1>4. ~Blocked(disk, o) /\ o.step = "try" /\ o.path \in Theirs \cup Mine
  <2>1. ~Blocked(disk, o)
    BY <1>0, <1>2, <1>3, NoFail
  <2>2. o.path \in Theirs \cup Mine
    BY <1>0, <1>2, <1>3, GenuineNames
  <2> QED
    BY <1>0, <1>3, <2>1, <2>2 DEF Ready
<1>5. Wrote(t, o)
  BY <1>0, <1>4 DEF Waits, Clears, GivesUp
<1>6. job'.failed = job.failed /\ disk' = Written(disk, o)
  BY <1>5 DEF Wrote
<1>7. Rooted(disk') /\ Distinct(disk')
  BY <1>0, <1>4, <1>6, WriteRooted, WrittenDistinct
<1>8. /\ Between(disk', old, new, U) /\ Genuine(Pending', old, U, R)
      /\ Accounted(disk', Pending', old, new, U)
  <2>1. ~job'.failed
    BY <1>0, <1>6 DEF Writing
  <2> QED
    BY <1>0, <1>2, <1>3, <2>1, WriteStep
<1>9. Ready(disk', Pending')
  BY <1>0, <1>2, <1>3, <1>5, WriteReady
<1>10. /\ Underway(rows, disk', version, job.to) /\ Sound(rows, Pending', version, job.to)
       /\ Covered(rows, disk', Pending', version, job.to)
  BY <1>8 DEF Underway, Sound, Covered, old, new, U, R
<1>11. Writing'
  BY <1>0, <1>6, <1>9, <1>10 DEF Writing
<1> QED
  BY <1>0, <1>7, <1>11 DEF SyncInv

LEMMA SyncVersion ==
  ASSUME TypeOK, SyncInv, WriteVersionFile
  PROVE  SyncInv'
<1>0. /\ disk \in Disk /\ job \in JobUpTo(latest) /\ version \in Nat /\ latest \in Nat /\ job.to \in Nat
  <2>1. disk \in Disk /\ job \in JobUpTo(latest) /\ version \in Nat /\ latest \in Nat
    BY TypeFacts
  <2> QED
    BY <2>1 DEF JobUpTo
<1>1. UNCHANGED <<rows, latest, disk, summary>> /\ version' = job.to
  BY DEF WriteVersionFile, server
<1>2. CASE job.pc = "write" /\ job.tars = {}
  <2>1. Writing /\ Pending = {}
    BY <1>2 DEF SyncInv, Pending
  <2>2. Change(At(rows, version), At(rows, job.to), Put(rows, version, job.to), Gone(rows, version, job.to))
    BY <1>0, <2>1, QueriesDescribe DEF SyncInv, Writing
  <2>3. Holds(disk, At(rows, job.to)) /\ Settled(rows, job.to)
    BY <1>0, <2>1, <2>2, EndHolds DEF Writing, Underway, Covered
  <2>4. job'.pc = "summary"
    BY <1>0, <2>1 DEF WriteVersionFile, Writing, JobUpTo
  <2> QED
    BY <1>1, <2>3, <2>4 DEF SyncInv
<1>3. CASE job.pc = "version"
  <2>1. Sent /\ Holds(disk, At(rows, job.to)) /\ Settled(rows, job.to) /\ summary = disk
    BY <1>3 DEF SyncInv, Sent
  <2>2. job' = Idle
    BY <2>1 DEF WriteVersionFile, Sent
  <2>3. Clean'
    BY <1>1, <2>1 DEF Clean
  <2> QED
    BY <1>1, <2>2, <2>3 DEF SyncInv, Idle
<1> QED
  BY <1>2, <1>3 DEF WriteVersionFile

LEMMA SyncRebuild ==
  ASSUME TypeOK, Undisturbed, SyncInv, NEW to \in 1 .. latest, NEW summarize \in Summarize,
         Rebuild(to, summarize)
  PROVE  SyncInv'
<1>1. /\ job'.pc = "query" /\ job'.from = version /\ job'.summarize = summarize /\ job'.failed = FALSE
  BY BeginJob DEF Rebuild
<1>2. UNCHANGED <<rows, latest, disk, version, summary>> /\ job = Idle
  BY DEF Rebuild, server
<1>3. summarize = TRUE
  BY DEF Undisturbed
<1>4. Clean
  BY <1>2 DEF SyncInv, Idle
<1>5. Diff \cap Mine = {}
  BY DEF Rebuild, Undisturbed
<1>6. Holds(disk, At(rows, version))
  <2> SUFFICES ASSUME NEW n \in Node
               PROVE  FileAt(disk, n) = FileAt(summary, n)
    BY <1>4 DEF Holds, Clean
  <2>1. CASE n \in MineNode
    BY <1>5, <2>1, SyncAssumption DEF Diff, MineNode
  <2>2. CASE n \notin MineNode
    BY <1>4, <2>2 DEF Clean
  <2> QED
    BY <2>1, <2>2
<1>7. Clean' /\ Holds(disk, At(rows, version))'
  BY <1>2, <1>4, <1>6 DEF Clean
<1>8. Querying'
  BY <1>1, <1>2, <1>3, <1>7 DEF Querying
<1> QED
  BY <1>1, <1>2, <1>8 DEF SyncInv

LEMMA SyncUpdate ==
  ASSUME TypeOK, SyncInv, Update
  PROVE  SyncInv'
<1>1. /\ job = Idle /\ Diff # {} /\ summary' = disk
      /\ UNCHANGED <<rows, latest, disk, version>>
  BY DEF Update, server
<1>2. /\ job'.pc = "send" /\ job'.from = version /\ job'.updates = Diff /\ job'.summarize = FALSE
  BY DEF Update, Idle
<1>3. Clean
  BY <1>1 DEF SyncInv, Idle
<1>4. Diff \subseteq Mine
  <2> SUFFICES ASSUME NEW q \in Diff
               PROVE  q \in Mine
    OBVIOUS
  <2>1. q \in Path \ Dir /\ NodeOf[q] \in Node /\ FileAt(disk, NodeOf[q]) # FileAt(summary, NodeOf[q])
    BY SyncAssumption DEF Diff
  <2>2. NodeOf[q] \in MineNode
    BY <1>3, <2>1 DEF Clean
  <2>3. PICK m \in Mine : NodeOf[m] = NodeOf[q]
    BY <2>2 DEF MineNode
  <2>4. m \in Path \ Dir
    BY SyncAssumption
  <2> QED
    BY <2>1, <2>3, <2>4, TreeAssumption
<1>5. ASSUME NEW n \in Node
      PROVE  FileAt(disk, n) = FileOf(At(rows, version), n) <=> n \notin {NodeOf[q] : q \in Diff}
  <2>1. FileAt(summary, n) = FileOf(At(rows, version), n)
    BY <1>3 DEF Clean, Holds
  <2>2. CASE n \in {NodeOf[q] : q \in Diff}
    BY <2>1, <2>2 DEF Diff
  <2>3. CASE n \notin {NodeOf[q] : q \in Diff}
    <3>1. FileAt(disk, n) = FileAt(summary, n)
      <4>1. CASE n \in MineNode
        BY <2>3, <4>1, SyncAssumption DEF MineNode, Diff
      <4>2. CASE n \notin MineNode
        BY <1>3, <4>2 DEF Clean
      <4> QED
        BY <4>1, <4>2
    <3> QED
      BY <2>1, <2>3, <3>1
  <2> QED
    BY <2>2, <2>3
<1>6. Sending'
  BY <1>1, <1>2, <1>3, <1>4, <1>5 DEF Sending, Clean
<1> QED
  BY <1>1, <1>2, <1>6 DEF SyncInv

LEMMA SyncEdit ==
  ASSUME TypeOK, Undisturbed, SyncInv, NEW q \in Mine, NEW value \in Hash \cup {Missing}, Edit(q, value)
  PROVE  SyncInv'
<1>1. /\ job = Idle /\ disk' = [disk EXCEPT ![NodeOf[q]] = value]
      /\ UNCHANGED <<rows, latest, version, summary, job>>
  BY DEF Edit, server, Undisturbed
<1>2. disk \in Disk /\ NodeOf[q] \in Node /\ NodeOf[q] \in MineNode
  BY TypeFacts, SyncAssumption DEF MineNode
<1>3. Clean
  BY <1>1 DEF SyncInv, Idle
<1>4. \A n \in Node : n # NodeOf[q] => disk'[n] = disk[n]
  BY <1>1, <1>2 DEF Disk
<1>5. Clean'
  BY <1>1, <1>2, <1>3, <1>4 DEF Clean, FileAt, IsFile
<1>6. Rooted(disk')
  <2> SUFFICES ASSUME NEW n \in Node, disk'[n] # Missing, NEW m \in Above(n)
               PROVE  disk'[m] = Folder
    BY DEF Rooted
  <2>1. n # NodeOf[q] /\ m # NodeOf[q] /\ m \in Node
    BY EditAssumption, SyncAssumption DEF Above
  <2> QED
    BY <1>4, <2>1 DEF SyncInv, Rooted
<1>7. Distinct(disk')
  <2> SUFFICES ASSUME NEW p \in (Theirs \cup Mine) \ Dir
               PROVE  disk'[NodeOf[p]] # Folder
    BY DEF Distinct
  <2>1. NodeOf[p] \in Node /\ Folder \notin Hash /\ Folder # Missing
    BY SyncAssumption
  <2> QED
    BY <1>1, <1>2, <1>4, <2>1 DEF SyncInv, Distinct, Disk
<1> QED
  BY <1>1, <1>5, <1>6, <1>7 DEF SyncInv, Idle

(* The edited files are the same at any version since the last own update.    *)
LEMMA SettledSame ==
  ASSUME NEW rs \in SUBSET Row, NEW v \in Nat, NEW w \in Nat, v <= w, Settled(rs, v)
  PROVE  \A e : e.path \in Mine => (e \in At(rs, v) <=> e \in At(rs, w))
<1>1. /\ At(rs, v) = {Entry(r) : r \in {x \in rs : LiveAt(x, v)}}
      /\ At(rs, w) = {Entry(r) : r \in {x \in rs : LiveAt(x, w)}}
  BY ViewRows
<1>2. \A r \in rs : /\ r.start \in Nat /\ (Live(r) \/ r.stop \in Nat)
                    /\ Entry(r).path = r.path
  BY RowFacts
<1>3. \A r \in rs : r.path \in Mine => (LiveAt(r, v) <=> LiveAt(r, w))
  BY <1>2 DEF LiveAt, Settled
<1> QED
  BY <1>1, <1>2, <1>3

(* A file of the edited ones is at its own node.                              *)
LEMMA MineFacts ==
  /\ \A q \in Mine : q \in Path \ Dir /\ NodeOf[q] \in Node /\ NodeOf[q] \in MineNode
  /\ \A q \in Mine, e \in Entries : FileHere(e, NodeOf[q]) => e.path = q
  /\ \A e \in Entries, n \in Node : FileHere(e, n) /\ n \notin MineNode => e.path \notin Mine
<1>1. \A q \in Mine : q \in Path \ Dir /\ NodeOf[q] \in Node /\ NodeOf[q] \in MineNode
  BY SyncAssumption DEF MineNode
<1>2. ASSUME NEW q \in Mine, NEW e \in Entries, FileHere(e, NodeOf[q])
      PROVE  e.path = q
  <2>1. e.path \in Path \ Dir /\ NodeOf[e.path] = NodeOf[q]
    BY <1>2 DEF FileHere, Entries
  <2> QED
    BY <1>1, <2>1, TreeAssumption
<1>3. \A e \in Entries, n \in Node : FileHere(e, n) /\ n \notin MineNode => e.path \notin Mine
  BY DEF FileHere, MineNode
<1> QED
  BY <1>1, <1>2, <1>3

(* What an update leaves of the project's files.                              *)
Upload(view) ==
  /\ view \in SUBSET Entries
  /\ \A e \in view : \/ e \in Files /\ e.path \notin job.updates
                     \/ /\ e.path \in job.updates /\ e.hash = FileAt(disk, NodeOf[e.path])
                        /\ e.hash # Missing
  /\ \A q \in job.updates : FileAt(disk, NodeOf[q]) # Missing =>
                              [path |-> q, hash |-> FileAt(disk, NodeOf[q])] \in view
  /\ \A e \in Files : e.path \notin job.updates => e \in view

(* The files of the project before an update.                                 *)
LEMMA FilesFacts ==
  ASSUME TypeOK, SyncInv
  PROVE  /\ Files = At(rows, latest) /\ Files \subseteq Entries
         /\ Once(Files) /\ Outside(Files, Files)
         /\ \A e \in Files : e.path \in Theirs \cup Mine
         /\ At(rows, version) \in SUBSET Entries /\ Once(At(rows, version))
<1>0. latest \in Nat /\ version \in Nat /\ version <= latest /\ History(rows, latest)
  BY TypeFacts DEF SyncInv
<1>1. Files = At(rows, latest)
  BY DEF Files, At
<1>2. Change(At(rows, version), At(rows, latest), Put(rows, version, latest), Gone(rows, version, latest))
  BY <1>0, QueriesDescribe
<1>3. \A e \in Files : e.path \in Theirs \cup Mine
  BY <1>0, <1>1, KnownEntries
<1> QED
  BY <1>1, <1>2, <1>3 DEF Change

LEMMA SendDiffers ==
  ASSUME TypeOK, SyncInv, job.pc = "send", NEW q \in job.updates
  PROVE  [path |-> q, hash |-> FileAt(disk, NodeOf[q])] \notin Files
<1>0. Sending /\ q \in Mine /\ rows \in SUBSET Row
  BY DEF SyncInv, Sending, History
<1>1. latest \in Nat /\ version \in Nat /\ version <= latest
  BY TypeFacts
<1> DEFINE e == [path |-> q, hash |-> FileAt(disk, NodeOf[q])]
<1>2. e.path = q /\ e.hash = FileAt(disk, NodeOf[q])
  OBVIOUS
<1> HIDE DEF e
<1>3. SUFFICES ASSUME e \in Files PROVE FALSE
  BY DEF e
<1>4. e \in At(rows, version)
  BY <1>0, <1>1, <1>2, <1>3, FilesFacts, SettledSame DEF Sending
<1>5. FileHere(e, NodeOf[q]) /\ NodeOf[q] \in Node
  BY <1>0, <1>2, MineFacts DEF FileHere
<1>6. FileOf(At(rows, version), NodeOf[q]) = e.hash
  BY <1>4, <1>5, FilesFacts, FileOfFacts
<1> QED
  BY <1>0, <1>2, <1>5, <1>6 DEF Sending

LEMMA SendStep ==
  ASSUME TypeOK, SyncInv, SendUpdate
  PROVE  \E view : /\ Upload(view) /\ rows' = PublishRows(view) /\ latest' = latest + 1
                   /\ UNCHANGED <<disk, version, summary>>
                   /\ job'.pc = "answer" /\ job'.from = job.from /\ job'.to = latest + 1
                   /\ job'.summarize = job.summarize
<1> DEFINE Now(q) == FileAt(disk, NodeOf[q])
           puts == {[path |-> q, hash |-> Now(q)] : q \in {u \in job.updates : Now(u) # Missing}}
           view == puts \cup {e \in Files : e.path \notin job.updates}
           changed == view # Files \/ \E q \in job.updates : Now(q) = Missing
<1>0. job \in JobUpTo(latest) /\ job.pc = "send" /\ Sending
  BY TypeFacts DEF SendUpdate, SyncInv
<1>1. Upload(view)
  <2>1. view \in SUBSET Entries
    BY SendViewType
  <2>2. \A e \in view : \/ e \in Files /\ e.path \notin job.updates
                        \/ e.path \in job.updates /\ e.hash = Now(e.path) /\ e.hash # Missing
    OBVIOUS
  <2> QED
    BY <2>1, <2>2 DEF Upload
<1>2. changed
  <2>1. PICK q \in job.updates : TRUE
    BY <1>0 DEF Sending
  <2>2. [path |-> q, hash |-> Now(q)] \notin Files
    BY <1>0, SendDiffers
  <2>3. Now(q) # Missing => [path |-> q, hash |-> Now(q)] \in view
    OBVIOUS
  <2> QED
    BY <2>2, <2>3
<1>3. /\ IF changed THEN /\ latest < MaxVersion
                         /\ rows' = PublishRows(view)
                         /\ latest' = latest + 1
         ELSE UNCHANGED server
      /\ job' = [job EXCEPT !.pc = "answer", !.to = latest']
      /\ UNCHANGED <<disk, version, summary, attempts, faults>>
  BY DEF SendUpdate
<1> HIDE DEF changed, view
<1>4. rows' = PublishRows(view) /\ latest' = latest + 1
  BY <1>2, <1>3
<1>5. job' = [job EXCEPT !.pc = "answer", !.to = latest + 1]
  BY <1>3, <1>4
<1>6. /\ job'.pc = "answer" /\ job'.from = job.from /\ job'.to = latest + 1
      /\ job'.summarize = job.summarize
  BY <1>0, <1>5 DEF JobUpTo
<1> QED
  BY <1>1, <1>3, <1>4, <1>6

(* An update publishes exactly the files it sends.                            *)
LEMMA SendPublishes ==
  ASSUME TypeOK, SyncInv, job.pc = "send", NEW view, Upload(view)
  PROVE  /\ History(PublishRows(view), latest + 1)
         /\ Same(rows, PublishRows(view), 0, latest)
         /\ At(PublishRows(view), latest + 1) = view
         /\ Once(view)
<1>0. /\ latest \in Nat /\ History(rows, latest) /\ view \in SUBSET Entries
      /\ job.updates \subseteq Mine
  BY TypeFacts DEF SyncInv, Upload, Sending
<1>1. \A e \in view : e.path \in job.updates \/ (e \in Files /\ e.path \notin job.updates)
  BY DEF Upload
<1>2. Once(view)
  <2> SUFFICES ASSUME NEW e \in view, NEW f \in view, e.path = f.path
               PROVE  e = f
    BY DEF Once
  <2>1. CASE e.path \in job.updates
    <3>1. e.hash = f.hash
      BY <2>1 DEF Upload
    <3> QED
      BY <1>0, <3>1 DEF Entries
  <2>2. CASE e.path \notin job.updates
    BY <1>1, <2>2, FilesFacts DEF Once
  <2> QED
    BY <2>1, <2>2
<1>3. Outside(view, view)
  <2> SUFFICES ASSUME NEW e \in view, NEW f \in view, e.path \notin Dir, f.path \in Inside[e.path]
               PROVE  FALSE
    BY DEF Outside
  <2>1. e.path \in Path \ Dir /\ f.path \in Path /\ NodeOf[e.path] \in Node
    BY <1>0, SyncAssumption DEF Entries
  <2>2. e.path \notin Mine
    BY EditAssumption
  <2>3. f.path \notin Mine
    <3>1. NodeOf[f.path] \in Under[NodeOf[e.path]] \/ f.path \in Dir
      BY <2>1, TreeAssumption
    <3> QED
      BY <2>1, <3>1, EditAssumption, SyncAssumption
  <2>4. e \in Files /\ f \in Files
    BY <1>0, <1>1, <2>2, <2>3
  <2> QED
    BY <2>4, FilesFacts DEF Outside
<1>4. \A e \in view : e.path \in Theirs \cup Mine
  BY <1>0, <1>1, FilesFacts
<1>5. \A e \in view \ Files, r \in rows : e.path \in Dir \/ r.path \notin Inside[e.path]
  BY <1>0, <1>1, EditAssumption
<1>6. Alone(rows, view)
  <2> SUFFICES ASSUME NEW r \in rows, NEW f \in view, NEW g \in view, r.path \notin Dir,
                      f.path \in Inside[r.path], g.path \in Inside[r.path]
               PROVE  f.path = g.path
    BY DEF Alone
  <2>1. r.path \in Path \ Dir /\ NodeOf[r.path] \in Node /\ rows \in SUBSET Row
    BY <1>0, RowFacts, SyncAssumption DEF History
  <2>2. ASSUME NEW e \in view, e.path \in Inside[r.path]
        PROVE  e \in Files
    <3>1. e.path \in Path
      BY <1>0 DEF Entries
    <3>2. NodeOf[e.path] \in Under[NodeOf[r.path]] \/ e.path \in Dir
      BY <2>1, <2>2, <3>1, TreeAssumption
    <3>3. e.path \notin Mine
      BY <2>1, <3>2, EditAssumption, SyncAssumption
    <3> QED
      BY <1>0, <1>1, <3>3
  <2>3. f \in Files /\ g \in Files
    BY <2>2
  <2>4. Files = {Entry(x) : x \in {y \in rows : LiveAt(y, latest)}}
    BY <2>1, ViewRows DEF At, Files
  <2>5. PICK r1 \in rows : LiveAt(r1, latest) /\ f = Entry(r1)
    BY <2>3, <2>4
  <2>6. PICK r2 \in rows : LiveAt(r2, latest) /\ g = Entry(r2)
    BY <2>3, <2>4
  <2>7. f.path = r1.path /\ g.path = r2.path
    BY <2>1, <2>5, <2>6, RowFacts
  <2>8. ~Before(r1, r2) /\ ~Before(r2, r1)
    BY <1>0, <2>1, <2>5, <2>6, RowFacts DEF Before, LiveAt
  <2> QED
    BY <1>0, <2>7, <2>8 DEF History, Lone
<1> QED
  BY <1>0, <1>2, <1>3, <1>4, <1>5, <1>6, PublishKeeps

(* It is evidence for a rebuild from the version the directory is at.         *)
LEMMA SendEvidence ==
  ASSUME TypeOK, SyncInv, job.pc = "send", NEW view, Upload(view)
  PROVE  Evidence(PublishRows(view), version, latest + 1)
<1>0. /\ latest \in Nat /\ version \in Nat /\ version <= latest /\ rows \in SUBSET Row
      /\ Sending /\ Null \notin Nat
  BY TypeFacts, PathAssumption DEF SyncInv, History
<1>1. PICK q \in job.updates : q \in Mine
  BY <1>0 DEF Sending
<1> DEFINE Now == FileAt(disk, NodeOf[q])
           Changed(r) == Live(r) /\ Entry(r) \notin view
<1>2. PublishRows(view) =
        {r \in rows : ~Changed(r)}
          \cup {[r EXCEPT !.stop = latest + 1] : r \in {o \in rows : Changed(o)}}
          \cup {[project |-> project, start |-> latest + 1, stop |-> Null,
                 path |-> e.path, hash |-> e.hash] : e \in view \ Files}
  BY DEF PublishRows
<1>3. CASE Now # Missing
  <2> DEFINE e == [path |-> q, hash |-> Now]
             x == [project |-> project, start |-> latest + 1, stop |-> Null,
                   path |-> q, hash |-> Now]
  <2>1. e \in view \ Files
    BY <1>0, <1>3, SendDiffers DEF Upload
  <2>2. x \in PublishRows(view)
    BY <1>2, <2>1
  <2>3. x.path \in Mine /\ Live(x) /\ version < x.start /\ x.start <= latest + 1
    BY <1>0, <1>1 DEF Live
  <2> HIDE DEF x
  <2> QED
    BY <2>2, <2>3 DEF Evidence
<1>4. CASE Now = Missing
  <2>1. FileOf(At(rows, version), NodeOf[q]) # Missing
    BY <1>0, <1>1, <1>4, MineFacts DEF Sending
  <2>2. PICK e \in At(rows, version) : FileHere(e, NodeOf[q])
    BY <2>1, FilesFacts, FileOfFacts
  <2>3. e.path = q
    BY <1>1, <2>2, FilesFacts, MineFacts
  <2>4. PICK r \in rows : LiveAt(r, version) /\ e = Entry(r)
    BY <1>0, <2>2, ViewRows
  <2>5. /\ r.path = q /\ r.start \in Nat /\ r.start > 0 /\ (Live(r) \/ r.stop \in Nat) /\ r \in Row
    BY <1>0, <2>3, <2>4, RowFacts
  <2>6. Live(r) /\ r.start <= version /\ 0 < version
    BY <1>0, <1>1, <2>4, <2>5 DEF LiveAt, Sending, Settled
  <2>7. e \notin view
    BY <1>4, <2>3 DEF Upload
  <2> DEFINE x == [r EXCEPT !.stop = latest + 1]
  <2>8. x \in PublishRows(view)
    BY <1>2, <2>4, <2>6, <2>7
  <2>9. x.path = q /\ x.start = r.start /\ x.stop = latest + 1
    BY <2>5 DEF Row
  <2> HIDE DEF x
  <2>10. ~Live(x) /\ version < x.stop
    BY <1>0, <2>9 DEF Live
  <2> QED
    BY <1>0, <1>1, <2>6, <2>8, <2>9, <2>10 DEF Evidence
<1> QED
  BY <1>3, <1>4

LEMMA SendFiles ==
  ASSUME TypeOK, SyncInv, job.pc = "send", NEW view, Upload(view)
  PROVE  /\ \A n \in Node \ MineNode : FileAt(disk, n) = FileOf(At(rows, version), n)
         /\ \A n \in MineNode : FileAt(disk, n) = FileOf(view, n)
         /\ version = latest => Holds(disk, view)
<1>0. /\ latest \in Nat /\ version \in Nat /\ version <= latest /\ rows \in SUBSET Row
      /\ Sending /\ job.updates \subseteq Mine /\ view \in SUBSET Entries /\ Once(view)
  BY TypeFacts, SendPublishes DEF SyncInv, History, Sending, Upload
<1>1. ASSUME NEW n \in Node \ MineNode
      PROVE  FileAt(disk, n) = FileOf(At(rows, version), n)
  BY <1>0, <1>1 DEF Sending, MineNode
<1>2. ASSUME NEW n \in MineNode
      PROVE  FileAt(disk, n) = FileOf(view, n)
  <2>1. PICK q \in Mine : n = NodeOf[q]
    BY <1>2 DEF MineNode
  <2>2. /\ n \in Node /\ q \notin Dir
        /\ \A e \in Entries : FileHere(e, n) => e.path = q
    BY <2>1, MineFacts
  <2>3. CASE q \in job.updates /\ FileAt(disk, n) # Missing
    <3> DEFINE e == [path |-> q, hash |-> FileAt(disk, n)]
    <3>1. e \in view
      BY <2>1, <2>3 DEF Upload
    <3>2. FileHere(e, n) /\ e.hash = FileAt(disk, n)
      BY <2>1, <2>2 DEF FileHere
    <3> HIDE DEF e
    <3> QED
      BY <1>0, <3>1, <3>2, FileOfFacts
  <2>4. CASE q \in job.updates /\ FileAt(disk, n) = Missing
    <3>1. \A e \in view : ~FileHere(e, n)
      BY <1>0, <2>1, <2>2, <2>4 DEF Upload
    <3> QED
      BY <1>0, <2>4, <3>1, FileOfFacts
  <2>5. CASE q \notin job.updates
    <3>1. n \notin {NodeOf[u] : u \in job.updates}
      <4> SUFFICES ASSUME NEW u \in job.updates, NodeOf[u] = n PROVE FALSE
        OBVIOUS
      <4>1. u \in Path \ Dir /\ q \in Path \ Dir
        BY <1>0, <2>1, MineFacts
      <4> QED
        BY <2>1, <2>5, <4>1, TreeAssumption
    <3>2. FileAt(disk, n) = FileOf(At(rows, version), n)
      BY <1>0, <2>2, <3>1 DEF Sending
    <3>3. \A e : e \in At(rows, version) /\ FileHere(e, n) <=> e \in view /\ FileHere(e, n)
      <4> SUFFICES ASSUME NEW e, FileHere(e, n), e \in At(rows, version) \cup view
                   PROVE  e \in At(rows, version) <=> e \in view
        OBVIOUS
      <4>1. e.path = q
        BY <1>0, <2>2, FilesFacts
      <4>2. e \in At(rows, version) <=> e \in Files
        BY <1>0, <2>1, <4>1, SettledSame, FilesFacts DEF Sending
      <4>3. e \in view <=> e \in Files
        BY <2>5, <4>1 DEF Upload
      <4> QED
        BY <4>2, <4>3
    <3> QED
      BY <3>2, <3>3, FileOfSame
  <2> QED
    BY <2>3, <2>4, <2>5
<1>3. ASSUME version = latest, NEW n \in Node \ MineNode
      PROVE  FileAt(disk, n) = FileOf(view, n)
  <2>1. Files = At(rows, version)
    BY <1>3, FilesFacts
  <2>2. \A e : e \in Files /\ FileHere(e, n) <=> e \in view /\ FileHere(e, n)
    <3> SUFFICES ASSUME NEW e, FileHere(e, n), e \in Files \cup view
                 PROVE  e \in Files <=> e \in view
      OBVIOUS
    <3>1. e.path \notin job.updates
      BY <1>0, <1>3, FilesFacts, MineFacts
    <3> QED
      BY <3>1 DEF Upload
  <2> QED
    BY <1>1, <1>3, <2>1, <2>2, FileOfSame
<1>4. version = latest => Holds(disk, view)
  BY <1>2, <1>3 DEF Holds
<1> QED
  BY <1>1, <1>2, <1>4

LEMMA SyncSend ==
  ASSUME TypeOK, SyncInv, SendUpdate
  PROVE  SyncInv'
<1>0. /\ latest \in Nat /\ version \in Nat /\ version <= latest /\ job.pc = "send" /\ Sending
  BY TypeFacts DEF SyncInv, SendUpdate
<1>1. PICK view : /\ Upload(view) /\ rows' = PublishRows(view) /\ latest' = latest + 1
                  /\ UNCHANGED <<disk, version, summary>>
                  /\ job'.pc = "answer" /\ job'.from = job.from /\ job'.to = latest + 1
                  /\ job'.summarize = job.summarize
  BY SendStep
<1>2. /\ History(rows', latest + 1) /\ Same(rows, rows', 0, latest) /\ At(rows', latest + 1) = view
  BY <1>0, <1>1, SendPublishes
<1>3. At(rows', version) = At(rows, version)
  BY <1>0, <1>2 DEF Same
<1>4. Settled(rows', latest + 1)
  BY <1>2 DEF Settled, History, Bounded
<1>5. Evidence(rows', version, latest + 1)
  BY <1>0, <1>1, SendEvidence
<1>6. /\ \A n \in Node \ MineNode : FileAt(disk, n) = FileOf(At(rows', version), n)
      /\ \A n \in MineNode : FileAt(disk, n) = FileOf(At(rows', latest + 1), n)
      /\ version + 1 = latest + 1 => Holds(disk, At(rows', latest + 1))
  <2>1. version + 1 = latest + 1 => version = latest
    BY <1>0
  <2> QED
    BY <1>0, <1>1, <1>2, <1>3, <2>1, SendFiles
<1>7. version < latest + 1
  BY <1>0
<1>8. Sent'
  BY <1>0, <1>1, <1>4, <1>5, <1>6, <1>7 DEF Sent, Sending
<1> QED
  BY <1>1, <1>2, <1>8 DEF SyncInv

LEMMA SyncAnswer ==
  ASSUME TypeOK, SyncInv, ReceiveAnswer
  PROVE  SyncInv'
<1>0. job \in JobUpTo(latest) /\ job.pc = "answer" /\ Sent
  BY TypeFacts DEF SyncInv, ReceiveAnswer
<1>1. UNCHANGED <<rows, latest, disk, version, summary>>
  BY DEF ReceiveAnswer, server
<1>2. /\ job'.pc = IF job.from + 1 = job.to THEN "version" ELSE "rebuild"
      /\ job'.from = job.from /\ job'.to = job.to /\ job'.summarize = job.summarize
  BY <1>0 DEF ReceiveAnswer, JobUpTo
<1>3. Sent'
  BY <1>0, <1>1, <1>2 DEF Sent
<1>4. job'.pc = "version" => version + 1 = job.to
  BY <1>0, <1>2 DEF Sent
<1> QED
  BY <1>1, <1>2, <1>3, <1>4 DEF SyncInv

(* Somebody else published before the update: the directory is between the    *)
(* version it was at and the latest one.                                      *)
LEMMA SyncAgain ==
  ASSUME TypeOK, SyncInv, RebuildAfterUpdate
  PROVE  SyncInv'
<1>0. /\ latest \in Nat /\ version \in Nat /\ job.to \in Nat /\ version < job.to /\ job.to <= latest
      /\ version < latest /\ rows \in SUBSET Row /\ History(rows, latest) /\ Sent
      /\ disk \in Disk /\ Missing \notin Hash
  <2>1. latest \in Nat /\ version \in Nat /\ job \in JobUpTo(latest) /\ disk \in Disk
    BY TypeFacts
  <2>2. job.to \in Nat /\ job.to <= latest
    BY <2>1 DEF JobUpTo
  <2>3. Sent /\ version < job.to /\ rows \in SUBSET Row /\ History(rows, latest)
    BY DEF RebuildAfterUpdate, SyncInv, History, Sent
  <2> QED
    BY <2>1, <2>2, <2>3, SyncAssumption
<1>1. /\ job'.pc = "query" /\ job'.from = version /\ job'.to = latest /\ job'.summarize = TRUE
      /\ job'.failed = FALSE
      /\ UNCHANGED <<rows, latest, disk, version, summary>>
  <2>1. Begin(latest, TRUE) /\ UNCHANGED <<rows, latest, disk, version, summary>>
    BY DEF RebuildAfterUpdate, server
  <2>2. job' = [pc |-> "query", from |-> version, to |-> latest, summarize |-> TRUE,
                tars |-> {}, failed |-> FALSE, updates |-> {}]
    BY <2>1, BeginJob
  <2> QED
    BY <2>1, <2>2
<1>2. \A r \in rows : r.start \in Nat /\ (Live(r) \/ r.stop \in Nat)
  BY <1>0, RowFacts
<1>3. Settled(rows, latest) /\ Evidence(rows, version, latest)
  <2>1. Settled(rows, latest)
    BY <1>0, <1>2 DEF Sent, Settled
  <2>2. Evidence(rows, version, latest)
    BY <1>0, <1>2 DEF Sent, Evidence
  <2> QED
    BY <2>1, <2>2
<1> DEFINE old == At(rows, version)
           sent == At(rows, job.to)
           new == At(rows, latest)
           U == Put(rows, version, latest)
<1>4. Change(old, new, U, Gone(rows, version, latest))
  BY <1>0, QueriesDescribe
<1>5. sent \in SUBSET Entries /\ Once(sent)
  <2>1. Change(sent, sent, Put(rows, job.to, job.to), Gone(rows, job.to, job.to))
    BY <1>0, QueriesDescribe
  <2> QED
    BY <2>1 DEF Change
<1>6. \A e : e.path \in Mine => (e \in sent <=> e \in new)
  BY <1>0, SettledSame DEF Sent
<1>7. /\ \A n \in Node \ MineNode : FileAt(disk, n) = FileOf(old, n)
      /\ \A n \in MineNode : FileAt(disk, n) = FileOf(sent, n)
  BY <1>0 DEF Sent
<1>8. \A e \in Entries, n \in MineNode : FileHere(e, n) => e.path \in Mine
  <2> SUFFICES ASSUME NEW e \in Entries, NEW n \in MineNode, FileHere(e, n)
               PROVE  e.path \in Mine
    OBVIOUS
  <2>1. PICK q \in Mine : n = NodeOf[q]
    BY DEF MineNode
  <2> QED
    BY <2>1, MineFacts
<1> HIDE DEF old, sent, new, U
<1>9. old \in SUBSET Entries /\ Once(old) /\ new \in SUBSET Entries
  BY <1>4 DEF Change
<1>10. ASSUME NEW e \in new, e \notin U, e.path \notin Dir
       PROVE  disk[NodeOf[e.path]] = e.hash
  <2> DEFINE n == NodeOf[e.path]
  <2>1. n \in Node /\ e.hash \in Hash /\ FileHere(e, n) /\ e \in Entries
    BY <1>9, <1>10, SyncAssumption DEF Entries, FileHere
  <2>2. e \in old
    BY <1>4, <1>10 DEF Change
  <2> HIDE DEF n
  <2>3. FileAt(disk, n) = e.hash
    <3>1. CASE n \in MineNode
      <4>1. e \in sent
        BY <1>6, <1>8, <2>1, <3>1
      <4> QED
        BY <1>5, <1>7, <2>1, <3>1, <4>1, FileOfFacts
    <3>2. CASE n \notin MineNode
      BY <1>7, <1>9, <2>1, <2>2, <3>2, FileOfFacts
    <3> QED
      BY <3>1, <3>2
  <2> QED
    BY <1>0, <2>1, <2>3 DEF FileAt, IsFile, n
<1>11. ASSUME NEW n \in Node, disk[n] \in Hash
       PROVE  \E e \in old \cup new : FileHere(e, n)
  <2>1. FileAt(disk, n) # Missing
    BY <1>0, <1>11 DEF FileAt, IsFile
  <2>2. CASE n \in MineNode
    <3>1. PICK e \in sent : FileHere(e, n)
      BY <1>5, <1>7, <2>1, <2>2, FileOfFacts
    <3> QED
      BY <1>5, <1>6, <1>8, <2>2, <3>1
  <2>3. CASE n \notin MineNode
    BY <1>7, <1>9, <2>1, <2>3, FileOfFacts
  <2> QED
    BY <2>2, <2>3
<1>12. Underway(rows, disk, version, latest)
  BY <1>10, <1>11 DEF Underway, Between, old, new, U
<1>13. Querying'
  BY <1>0, <1>1, <1>3, <1>12 DEF Querying
<1> QED
  BY <1>1, <1>13 DEF SyncInv

LEMMA SyncInit == Init => SyncInv
<1> SUFFICES ASSUME Init PROVE SyncInv
  OBVIOUS
<1>1. rows = {} /\ latest = 0 /\ version = 0 /\ job.pc = "idle"
  BY DEF Init, Idle
<1>2. At(rows, version) = {}
  <2>1. rows \in SUBSET Row
    BY <1>1
  <2> QED
    BY <1>1, <2>1, ViewRows
<1>3. History(rows, latest)
  BY <1>1 DEF History, Bounded, Apart, FileFirst, Lone, Known
<1>4. \A n \in Node : disk[n] = Missing /\ summary[n] = Missing
  BY DEF Init
<1>5. Missing \notin Hash
  BY SyncAssumption
<1>6. \A n \in Node : FileOf({}, n) = Missing
  BY DEF FileOf
<1>7. Clean
  BY <1>1, <1>2, <1>4, <1>5, <1>6 DEF Clean, Holds, FileAt, IsFile, Settled
<1>8. Rooted(disk)
  BY <1>4 DEF Rooted
<1>9. Distinct(disk)
  BY <1>4, SyncAssumption DEF Distinct
<1> QED
  BY <1>1, <1>3, <1>7, <1>8, <1>9 DEF SyncInv

LEMMA SyncNext == Undisturbed /\ TypeOK /\ SyncInv /\ [Next]_vars => SyncInv'
<1> SUFFICES ASSUME Undisturbed, TypeOK, SyncInv, [Next]_vars
             PROVE  SyncInv'
  OBVIOUS
<1>0. ~(faults < MaxFaults)
  BY TypeFacts, SyncAssumption DEF Undisturbed
<1>1. CASE \E tree \in Trees : Publish(tree)
  BY <1>1, SyncPublish
<1>2. CASE \E keep \in Keeps : GcProject(keep)
  BY <1>2, SyncGc
<1>3. CASE \E to \in 1 .. latest, summarize \in Summarize : Rebuild(to, summarize)
  BY <1>3, SyncRebuild
<1>4. CASE GetCompress
  BY <1>4, SyncCompress
<1>5. CASE \E t \in job.tars : \E o \in t : WriteObject(t, o) \/ RemoveTarget(t, o)
  BY <1>5, SyncWrite
<1>6. CASE RebuildError
  BY <1>6 DEF RebuildError, SyncInv, Writing
<1>7. CASE WriteVersionFile
  BY <1>7, SyncVersion
<1>8. CASE WriteSummary
  <2>1. /\ job.pc = "summary" /\ summary' = disk /\ job' = Idle
        /\ UNCHANGED <<rows, latest, disk, version>>
    BY <1>8 DEF WriteSummary, server
  <2>2. Clean'
    BY <2>1 DEF Clean, SyncInv
  <2> QED
    BY <2>1, <2>2 DEF SyncInv, Idle
<1>9. CASE Mine # {} /\ Update
  BY <1>9, SyncUpdate
<1>10. CASE UpdateStep
  BY <1>10, SyncSend, SyncAnswer, SyncAgain DEF UpdateStep
<1>11. CASE \E q \in Mine, value \in Hash \cup {Missing} : Edit(q, value)
  BY <1>11, SyncEdit
<1>12. CASE \E t \in job.tars : WriteFails(t)
  BY <1>0, <1>12 DEF WriteFails
<1>13. CASE Fault
  BY <1>0, <1>13 DEF Fault
<1>14. CASE UNCHANGED vars
  BY <1>14 DEF vars, SyncInv, Clean, Querying, Writing, Sending, Sent, Pending
<1> QED
  BY <1>1, <1>2, <1>3, <1>4, <1>5, <1>6, <1>7, <1>8, <1>9, <1>10, <1>11, <1>12, <1>13, <1>14
     DEF Next, RebuildStep

LEMMA SyncedBetween == SyncInv => Synced
<1> SUFFICES ASSUME SyncInv, job = Idle, NEW n \in Node,
                    FileAt(disk, n) # FileOf(View(rows, project, version), n)
             PROVE  \E q \in Diff : NodeOf[q] = n
  BY DEF Synced
<1>1. Clean
  BY DEF SyncInv, Idle
<1>2. FileAt(disk, n) # FileAt(summary, n)
  BY <1>1 DEF Clean, Holds, At
<1>3. PICK q \in Mine : NodeOf[q] = n
  BY <1>1, <1>2 DEF Clean, MineNode
<1>4. q \in Diff
  BY <1>2, <1>3, SyncAssumption DEF Diff
<1> QED
  BY <1>3, <1>4

(* Between calls every file of the directory is what the version file says,   *)
(* or an edit that the next Update will find, whatever others publish and the *)
(* server collects meanwhile (client.go:361-654, dir.go:25-131).  An Update   *)
(* that somebody overtook rebuilds the directory first; one that nobody       *)
(* overtook may write down the version it was answered.  It is needed that    *)
(* the client is not cut short, that files are edited between calls and       *)
(* uploaded before a rebuild, that nobody else writes them, and that no name  *)
(* the others write is a file at one time and a directory at another.         *)
THEOREM AlwaysSynced == Undisturbed => (Spec => []Synced)
<1> SUFFICES ASSUME Undisturbed
             PROVE  Spec => []Synced
  OBVIOUS
<1>1. Undisturbed
  OBVIOUS
<1> QED
  BY <1>1, SyncInit, SyncNext, SyncedBetween, SyncTypeCorrect, PTL DEF Spec

=============================================================================
