----------------------------- MODULE ObjectStore -----------------------------
(* The versioned object store: the tables dl.projects, dl.objects and         *)
(* dl.contents, and every API operation that writes them (pkg/api/fs.go and   *)
(* internal/db/{update,project,copy,reset,gc}.go).                            *)
(*                                                                            *)
(* Transactions run at READ COMMITTED: a statement sees what is committed     *)
(* when it starts and the writes of its own transaction.  tx[s] is the        *)
(* transaction of session s; its writes stay in tx[s] until it commits.       *)
(* Contents are inserted outside the transaction, so they show at once.       *)
EXTENDS QueryBuilder

CONSTANTS
  Project,       \* project ids
  Hash,          \* hashes of object contents
  Session,       \* concurrent API calls that hold a transaction
  PackPatterns,  \* PackPatterns[p]: the patterns project p is created with
  NoPatterns,    \* the empty pattern list, '{}'
  Streams,       \* the object updates one Update stream may carry, as sets
  Keeps,         \* values of GcProjectRequest.keep_versions
  Froms,         \* values of GcProjectRequest.from_version, 0 when unset
  Samples,       \* what the random sample of GcContents may be
  Templates,     \* projects that serve as a template of new projects
  Rollbacks,     \* projects that Rollback and Reset are called for
  FreshIds,      \* TRUE: callers never give a new project the id of an old one
  QuiescentGc,   \* TRUE: contents are collected only while nothing is written
  StableClones,  \* TRUE: the files a clone copies do not change meanwhile
  MaxVersion     \* bound: no project goes past this version

(* One object of an Update stream.  A "pack" is a packed parent with the hash *)
(* of its merged contents, Null when the merge leaves the pack empty.         *)
Update ==
       [kind : {"put"}, path : Path, hash : Hash]
  \cup [kind : {"delete"}, path : Path, hash : {Null}]
  \cup [kind : {"pack"}, path : Path, hash : Hash \cup {Null}]

ASSUME StoreAssumption ==
  /\ MaxVersion \in Nat
  /\ PackPatterns \in [Project -> {NoPatterns} \cup {PackPatterns[p] : p \in Project}]
  /\ Streams \subseteq (SUBSET Update) \ {{}}
  /\ Keeps \subseteq Nat \ {0}
  /\ Froms \subseteq Nat
  /\ Samples \subseteq SUBSET Hash
  /\ Templates \subseteq Project
  /\ Rollbacks \subseteq Project
  /\ FreshIds \in BOOLEAN
  /\ QuiescentGc \in BOOLEAN
  /\ StableClones \in BOOLEAN
  /\ Null \notin Hash \cup Project \cup Update

VARIABLES
  latest,    \* dl.projects: latest_version of each project, or Absent
  objects,   \* dl.objects: the committed rows
  contents,  \* dl.contents: the hashes that have a row
  tx,        \* the open transaction of each session
  gcHashes,  \* hashes a running GC has collected and not yet looked at
  used,      \* history: the project ids ever created
  floor      \* history: the oldest version of each project still complete

vars == <<latest, objects, contents, tx, gcHashes, used, floor>>

Absent == -1
Version == 0 .. MaxVersion

Row == [project : Project, start : Nat \ {0}, stop : Nat \cup {Null},
        path : Path, hash : Hash]

-----------------------------------------------------------------------------
(* Transactions.                                                              *)

Idle == [op |-> "idle", project |-> Null, source |-> Null, version |-> 0,
         next |-> 0, batch |-> {}, todo |-> {}, staged |-> Null,
         stopped |-> {}, added |-> {}, seen |-> {}, changed |-> FALSE]

Begin(op, p) == [Idle EXCEPT !.op = op, !.project = p]

(* Mutant of Locked: the project's row is read without FOR UPDATE.            *)
NeverLocked(p) == FALSE

(* LockLatestVersion, and the UPDATE or DELETE of a project's row, wait for   *)
(* the transaction that holds the row's lock.                                 *)
Locked(p) == \E s \in Session : /\ tx[s].op \in {"update", "clone"}
                                /\ tx[s].project = p

(* What transaction t sees and, once it commits, what everybody sees.         *)
Pending(t) == (objects \ t.stopped)
                \cup {[r EXCEPT !.stop = t.next] : r \in t.stopped}
                \cup t.added

LiveRows(rows, p) == {r \in rows : r.project = p /\ Live(r)}

(* Mutant of StopRows: the rows stay live.                                    *)
NeverStop(t, R) == t

(* UPDATE dl.objects SET stop_version = t.next, for the visible rows R.       *)
StopRows(t, R) ==
  [t EXCEPT !.stopped = @ \cup (R \ t.added),
            !.added   = (@ \ R) \cup {[r EXCEPT !.stop = t.next] : r \in R \cap t.added}]

(* objects_latest_idx: one row of a path for each stop_version (NULLs are     *)
(* distinct).  A statement that would break it fails, and its transaction     *)
(* with it.                                                                   *)
UniqueStops(rows) ==
  \A r1, r2 \in rows :
    (/\ r1.project = r2.project /\ r1.path = r2.path
     /\ ~Live(r1) /\ r1.stop = r2.stop) => r1 = r2

(* identical_objects_idx: a live row with the same path, hash and mode.       *)
IsIdentical(rows, p, e) == \E r \in LiveRows(rows, p) : Entry(r) = e

(* Mutant of NewRow: the row starts at the version being replaced.            *)
EarlyRow(p, version, path, hash) ==
  [project |-> p, start |-> version - 1, stop |-> Null, path |-> path, hash |-> hash]

NewRow(p, version, path, hash) ==
  [project |-> p, start |-> version, stop |-> Null, path |-> path, hash |-> hash]

Finish(s) == tx' = [tx EXCEPT ![s] = Idle]

Init ==
  /\ latest = [p \in Project |-> Absent]
  /\ objects = {}
  /\ contents = {}
  /\ tx = [s \in Session |-> Idle]
  /\ gcHashes = {}
  /\ used = {}
  /\ floor = [p \in Project |-> 0]

-----------------------------------------------------------------------------
(* Fs.Update.  The stream is read to its end before the project is locked;    *)
(* the objects of one stream arrive in any order, packed parents last.        *)

LockLatestVersion(s, p, batch) ==
  /\ tx[s] = Idle
  /\ latest[p] # Absent
  /\ latest[p] < MaxVersion
  /\ ~Locked(p)
  /\ tx' = [tx EXCEPT ![s] = [Begin("update", p) EXCEPT
                                !.next = latest[p] + 1, !.batch = batch, !.todo = batch]]
  /\ UNCHANGED <<latest, objects, contents, gcHashes, used, floor>>

(* The next object of the stream to be written.                               *)
Current(t, u) ==
  /\ t.op = "update"
  /\ u \in t.todo
  /\ u.kind = "pack" => \A w \in t.todo : w.kind = "pack"

Done(t, u) == [t EXCEPT !.todo = @ \ {u}, !.staged = Null]

DeleteObject(s, u) ==
  LET t == tx[s]
      R == {r \in LiveRows(Pending(t), t.project) : r.path = u.path}
      n == [StopRows(Done(t, u), R) EXCEPT !.changed = TRUE]
  IN  /\ Current(t, u)
      /\ t.staged = Null
      /\ u.kind = "delete"
      /\ UniqueStops(Pending(n))
      /\ tx' = [tx EXCEPT ![s] = n]
      /\ UNCHANGED <<latest, objects, contents, gcHashes, used, floor>>

(* UpdatePackedObjects reads the live pack joined with its contents: a pack   *)
(* whose contents are missing reads as no pack at all.                        *)
SamePack(t, u) ==
  \E r \in LiveRows(Pending(t), t.project) :
     r.path = u.path /\ r.hash = u.hash /\ r.hash \in contents

(* INSERT INTO dl.contents, on a connection of its own.                       *)
InsertContent(s, u) ==
  /\ Current(tx[s], u)
  /\ tx[s].staged = Null
  /\ u.hash # Null
  /\ u.kind = "pack" => ~SamePack(tx[s], u)
  /\ contents' = contents \cup {u.hash}
  /\ tx' = [tx EXCEPT ![s].staged = u]
  /\ UNCHANGED <<latest, objects, gcHashes, used, floor>>

(* UpdateObject, when ON CONFLICT DO NOTHING inserts no row.                  *)
IdenticalObject(s, u) ==
  LET t == tx[s]
  IN  /\ Current(t, u)
      /\ t.staged = u
      /\ u.kind = "put"
      /\ IsIdentical(Pending(t), t.project, Entry(u))
      /\ tx' = [tx EXCEPT ![s] = Done(t, u)]
      /\ UNCHANGED <<latest, objects, contents, gcHashes, used, floor>>

(* Mutant of previousRows: the row just inserted is stopped too.              *)
allRows(rows, t, path) ==
  {r \in LiveRows(rows, t.project) : r.path \in {path} \cup Parents(path)}

(* UpdateObject, when the row is new: the live rows of the path and of the    *)
(* directory markers above it stop, except those this version started.        *)
previousRows(rows, t, path) ==
  {r \in LiveRows(rows, t.project) :
     r.path \in {path} \cup Parents(path) /\ r.start # t.next}

UpdateObject(s, u) ==
  LET t == tx[s]
      i == [Done(t, u) EXCEPT !.added = @ \cup {NewRow(t.project, t.next, u.path, u.hash)}]
      n == [StopRows(i, previousRows(Pending(i), t, u.path)) EXCEPT !.changed = TRUE]
  IN  /\ Current(t, u)
      /\ t.staged = u
      /\ u.kind = "put"
      /\ ~IsIdentical(Pending(t), t.project, Entry(u))
      /\ UniqueStops(Pending(n))
      /\ tx' = [tx EXCEPT ![s] = n]
      /\ UNCHANGED <<latest, objects, contents, gcHashes, used, floor>>

(* UpdatePackedObjects, when the merge left the pack as it was.               *)
IdenticalPack(s, u) ==
  LET t == tx[s]
  IN  /\ Current(t, u)
      /\ t.staged = Null
      /\ u.kind = "pack"
      /\ SamePack(t, u)
      /\ tx' = [tx EXCEPT ![s] = Done(t, u)]
      /\ UNCHANGED <<latest, objects, contents, gcHashes, used, floor>>

(* UpdatePackedObjects, the batch: the live pack stops, and the merged one is *)
(* inserted unless it is empty.                                               *)
UpdatePackedObjects(s, u) ==
  LET t == tx[s]
      R == {r \in LiveRows(Pending(t), t.project) : r.path = u.path}
      new == IF u.hash = Null THEN {} ELSE {NewRow(t.project, t.next, u.path, u.hash)}
      n == [StopRows(Done(t, u), R) EXCEPT !.added = @ \cup new, !.changed = TRUE]
  IN  /\ Current(t, u)
      /\ u.kind = "pack"
      /\ t.staged = IF u.hash = Null THEN Null ELSE u
      /\ UniqueStops(Pending(n))
      /\ tx' = [tx EXCEPT ![s] = n]
      /\ UNCHANGED <<latest, objects, contents, gcHashes, used, floor>>

(* UpdateLatestVersion and COMMIT.                                            *)
CommitUpdate(s) ==
  LET t == tx[s]
  IN  /\ t.op = "update"
      /\ t.todo = {}
      /\ t.changed
      /\ objects' = Pending(t)
      /\ latest' = [latest EXCEPT ![t.project] = t.next]
      /\ Finish(s)
      /\ UNCHANGED <<contents, gcHashes, used, floor>>

(* Nothing changed: the transaction is dropped and latest_version returned.   *)
UnchangedUpdate(s) ==
  /\ tx[s].op = "update"
  /\ tx[s].todo = {}
  /\ ~tx[s].changed
  /\ Finish(s)
  /\ UNCHANGED <<latest, objects, contents, gcHashes, used, floor>>

(* An error, a cancelled call or a crash: the deferred close rolls the        *)
(* transaction back.                                                          *)
Abort(s) ==
  /\ tx[s] # Idle
  /\ Finish(s)
  /\ UNCHANGED <<latest, objects, contents, gcHashes, used, floor>>

-----------------------------------------------------------------------------
(* Fs.NewProject.                                                             *)

(* CreateProject: the primary key rejects the id of an existing project, and  *)
(* waits for a transaction that is inserting the same id.                     *)
CanCreate(p) ==
  /\ latest[p] = Absent
  /\ \A s \in Session : ~(tx[s].op = "new" /\ tx[s].project = p)
  /\ FreshIds => p \notin used

CreateProject(p) ==
  /\ CanCreate(p)
  /\ latest' = [latest EXCEPT ![p] = 0]
  /\ used' = used \cup {p}
  /\ floor' = [floor EXCEPT ![p] = 0]
  /\ UNCHANGED <<objects, contents, tx, gcHashes>>

PatternsOf(p) == IF latest[p] = Absent THEN NoPatterns ELSE PackPatterns[p]

(* CreateProject and the first statement of CopyAllObjects: the live rows of  *)
(* the template, with the versions they have there.                           *)
CopyAllObjects(s, template, p) ==
  /\ tx[s] = Idle
  /\ CanCreate(p)
  /\ template # p
  /\ PatternsOf(template) = PackPatterns[p]
  /\ tx' = [tx EXCEPT ![s] = [Begin("new", p) EXCEPT
                                !.source = template,
                                !.added = {[r EXCEPT !.project = p] : r \in LiveRows(objects, template)}]]
  /\ UNCHANGED <<latest, objects, contents, gcHashes, used, floor>>

(* The second statement of CopyAllObjects reads the template's version, NULL  *)
(* (an error) when the template is gone, and the transaction commits.         *)
CommitNewProject(s) ==
  LET t == tx[s]
  IN  /\ t.op = "new"
      /\ latest[t.source] # Absent
      /\ \A r \in t.added : ~IsIdentical(objects, t.project, Entry(r))
      /\ objects' = objects \cup t.added
      /\ latest' = [latest EXCEPT ![t.project] = latest[t.source]]
      /\ used' = used \cup {t.project}
      /\ floor' = [floor EXCEPT ![t.project] = latest[t.source]]
      /\ Finish(s)
      /\ UNCHANGED <<contents, gcHashes>>

-----------------------------------------------------------------------------
(* Fs.CloneToProject.                                                         *)

(* Mutant of toRemove: the target's other objects stay.                       *)
removeNothing(source, p, version) == {}

(* The first statement: stop the target's objects that the source does not    *)
(* have at the given version.                                                 *)
toRemove(source, p, version) ==
  {e.path : e \in View(objects, p, latest[p]) \ View(objects, source, version)}

CloneRemoved(s, source, p, version) ==
  LET n == [Begin("clone", p) EXCEPT
              !.source = source, !.version = version, !.next = latest[p] + 1,
              !.seen = View(objects, source, version),
              !.stopped = {r \in LiveRows(objects, p) :
                             r.path \in toRemove(source, p, version)}]
  IN  /\ tx[s] = Idle
      /\ PatternsOf(source) = PatternsOf(p)
      /\ latest[p] # Absent
      /\ latest[p] < MaxVersion
      /\ ~Locked(p)
      /\ UniqueStops(Pending(n))
      /\ tx' = [tx EXCEPT ![s] = n]
      /\ UNCHANGED <<latest, objects, contents, gcHashes, used, floor>>

(* The second statement inserts the source's objects, read again, and the     *)
(* transaction commits.                                                       *)
CommitClone(s) ==
  LET t == tx[s]
      rows == Pending(t)
      fresh == {e \in View(rows, t.source, t.version) : ~IsIdentical(rows, t.project, e)}
  IN  /\ t.op = "clone"
      /\ StableClones => View(objects, t.source, t.version) = t.seen
      /\ objects' = rows \cup {NewRow(t.project, t.next, e.path, e.hash) : e \in fresh}
      /\ latest' = [latest EXCEPT ![t.project] = t.next]
      /\ Finish(s)
      /\ UNCHANGED <<contents, gcHashes, used, floor>>

-----------------------------------------------------------------------------
(* Fs.DeleteProject.                                                          *)

(* DELETE FROM dl.objects: the rows it sees when it starts, deleted as they   *)
(* are once the transactions that hold them are over.  (An update that stops  *)
(* one of these rows meanwhile would wait, or fail as a deadlock's victim;    *)
(* here it may also go on, and its stopped row is deleted all the same.)      *)
DeleteObjects(s, p) ==
  /\ tx[s] = Idle
  /\ tx' = [tx EXCEPT ![s] = [Begin("delete", p) EXCEPT
                                !.stopped = {r \in objects : r.project = p}]]
  /\ UNCHANGED <<latest, objects, contents, gcHashes, used, floor>>

SameRow(r1, r2) == r1.start = r2.start /\ Entry(r1) = Entry(r2)

(* DELETE FROM dl.projects waits for the row's lock; then COMMIT.             *)
DeleteProject(s) ==
  LET t == tx[s]
  IN  /\ t.op = "delete"
      /\ ~Locked(t.project)
      /\ objects' = {r \in objects : r.project = t.project =>
                                     \A d \in t.stopped : ~SameRow(r, d)}
      /\ latest' = [latest EXCEPT ![t.project] = Absent]
      /\ floor' = [floor EXCEPT ![t.project] = 0]
      /\ Finish(s)
      /\ UNCHANGED <<contents, gcHashes, used>>

-----------------------------------------------------------------------------
(* Mutant of ResetRows: the objects of the discarded versions stay.           *)
KeepFuture(rows, p, version) ==
  LET Revived(r) == r.project = p /\ ~Live(r) /\ r.stop > version
  IN  {r \in rows : ~Revived(r)} \cup {[r EXCEPT !.stop = Null] : r \in {o \in rows : Revived(o)}}

(* Mutant of ResetRows: the objects the discarded versions stopped stay dead. *)
NeverRevive(rows, p, version) == {r \in rows : r.project = p => r.start <= version}

(* Fs.Rollback and Fs.Reset.  ResetProject starts with the project's row, so  *)
(* it waits for the transaction that holds it, and then runs alone on the     *)
(* project.  It neither looks at the current version nor needs the project    *)
(* to exist.                                                                  *)

ResetRows(rows, p, version) ==
  LET kept == {r \in rows : r.project = p => r.start <= version}
      Revived(r) == r.project = p /\ ~Live(r) /\ r.stop > version
  IN  {r \in kept : ~Revived(r)}
        \cup {[r EXCEPT !.stop = Null] : r \in {o \in kept : Revived(o)}}

ResetVersion(p, version) == IF latest[p] = Absent THEN Absent ELSE version
ResetFloor(p, version) == IF version < floor[p] THEN version ELSE floor[p]

Rollback(p, version) ==
  /\ ~Locked(p)
  /\ objects' = ResetRows(objects, p, version)
  /\ latest' = [latest EXCEPT ![p] = ResetVersion(p, version)]
  /\ floor' = [floor EXCEPT ![p] = ResetFloor(p, version)]
  /\ UNCHANGED <<contents, tx, gcHashes, used>>

(* The objects when those of the other projects are deleted.                  *)
DropOtherProjects(rows, p) == {r \in rows : r.project = p}

(* Reset with one project: ResetProject, then DropOtherProjects, projects     *)
(* before objects.                                                            *)
Reset(p, version) ==
  /\ \A q \in Project : ~Locked(q)
  /\ objects' = DropOtherProjects(ResetRows(objects, p, version), p)
  /\ latest' = [q \in Project |-> IF q = p THEN ResetVersion(p, version) ELSE Absent]
  /\ floor' = [q \in Project |-> IF q = p THEN ResetFloor(p, version) ELSE 0]
  /\ UNCHANGED <<contents, tx, gcHashes, used>>

(* Reset without projects truncates the tables, which waits for every open    *)
(* transaction.                                                               *)
ResetAll ==
  /\ \A s \in Session : tx[s] = Idle
  /\ objects' = {}
  /\ contents' = {}
  /\ latest' = [p \in Project |-> Absent]
  /\ floor' = [p \in Project |-> 0]
  /\ UNCHANGED <<tx, gcHashes, used>>

-----------------------------------------------------------------------------
(* Fs.GcProject, Fs.GcRandomProjects and Fs.GcContents: statements outside    *)
(* any transaction.                                                           *)

(* Mutant of GcDead: one version too many.                                    *)
GcOneMore(p, keep, from) ==
  {r \in objects : /\ r.project = p
                   /\ r.start > from
                   /\ ~Live(r)
                   /\ r.stop <= latest[p] - keep + 1}

GcDead(p, keep, from) ==
  {r \in objects : /\ r.project = p
                   /\ r.start > from
                   /\ ~Live(r)
                   /\ r.stop <= latest[p] - keep}

GcProjectObjects(p, keep, from) ==
  LET dead == GcDead(p, keep, from)
      horizon == latest[p] - keep
  IN  /\ latest[p] # Absent
      /\ dead # {}
      /\ objects' = objects \ dead
      /\ gcHashes' = gcHashes \cup {r.hash : r \in dead}
      /\ floor' = [floor EXCEPT ![p] = IF @ < horizon THEN horizon ELSE @]
      /\ UNCHANGED <<latest, contents, tx, used>>

RandomContents(sample) ==
  /\ sample \subseteq contents
  /\ gcHashes' = gcHashes \cup sample
  /\ UNCHANGED <<latest, objects, contents, tx, used, floor>>

(* Mutant of GcContentHashes: old objects do not count as references.         *)
GcUnlessLive(chunk) ==
  /\ QuiescentGc => \A s \in Session : tx[s] = Idle
  /\ contents' = {c \in contents : c \in chunk => \E r \in objects : Live(r) /\ r.hash = c}
  /\ gcHashes' = gcHashes \ chunk
  /\ UNCHANGED <<latest, objects, tx, used, floor>>

(* One chunk: the contents no object refers to are deleted.                   *)
GcContentHashes(chunk) ==
  /\ QuiescentGc => \A s \in Session : tx[s] = Idle
  /\ contents' = {c \in contents : c \in chunk => \E r \in objects : r.hash = c}
  /\ gcHashes' = gcHashes \ chunk
  /\ UNCHANGED <<latest, objects, tx, used, floor>>

(* A GC that fails between its statements forgets the hashes it collected.    *)
GcFail ==
  /\ gcHashes # {}
  /\ gcHashes' = {}
  /\ UNCHANGED <<latest, objects, contents, tx, used, floor>>

-----------------------------------------------------------------------------
UpdateStep(s) ==
  \/ \E p \in Project, batch \in Streams : LockLatestVersion(s, p, batch)
  \/ \E u \in tx[s].todo : \/ DeleteObject(s, u)
                           \/ InsertContent(s, u)
                           \/ IdenticalObject(s, u)
                           \/ UpdateObject(s, u)
                           \/ IdenticalPack(s, u)
                           \/ UpdatePackedObjects(s, u)
  \/ CommitUpdate(s)
  \/ UnchangedUpdate(s)

ProjectStep(s) ==
  \/ \E template \in Templates, p \in Project : CopyAllObjects(s, template, p)
  \/ CommitNewProject(s)
  \/ \E source \in Project, p \in Project, version \in Version :
       CloneRemoved(s, source, p, version)
  \/ CommitClone(s)
  \/ \E p \in Project : DeleteObjects(s, p)
  \/ DeleteProject(s)
  \/ Abort(s)

AdminStep ==
  \/ \E p \in Project : CreateProject(p)
  \/ \E p \in Rollbacks, version \in Version : Rollback(p, version) \/ Reset(p, version)
  \/ ResetAll

GcStep ==
  \/ \E p \in Project, keep \in Keeps, from \in Froms : GcProjectObjects(p, keep, from)
  \/ \E sample \in Samples : RandomContents(sample)
  \/ \E chunk \in (SUBSET gcHashes) \ {{}} : GcContentHashes(chunk)
  \/ GcFail

Next == \/ \E s \in Session : UpdateStep(s) \/ ProjectStep(s)
        \/ AdminStep
        \/ GcStep

Spec == Init /\ [][Next]_vars

-----------------------------------------------------------------------------
(* What callers must respect for the store to keep its structure: ids are not *)
(* reused, a template is not rolled back, the files being cloned do not       *)
(* change, and an update stream names a path once.  The code checks none of   *)
(* these.                                                                     *)
DistinctPaths(batch) == \A u, w \in batch : u.path = w.path => u = w

SafeUse ==
  /\ FreshIds
  /\ StableClones
  /\ Templates \cap Rollbacks = {}
  /\ \A batch \in Streams : DistinctPaths(batch)

TxRecord ==
  [op : {"idle", "update", "clone", "new", "delete"},
   project : Project \cup {Null}, source : Project \cup {Null},
   version : Nat, next : Nat,
   batch : SUBSET Update, todo : SUBSET Update, staged : Update \cup {Null},
   stopped : SUBSET Row, added : SUBSET Row,
   seen : SUBSET [path : Path, hash : Hash], changed : BOOLEAN]

Tx == {t \in TxRecord : /\ t.op # "idle" => t.project \in Project
                        /\ t.op \in {"update", "clone"} => t.next # 0
                        /\ t.op \in {"clone", "new"} => t.source \in Project}

(* Types of the tables and of the open transactions.                          *)
TypeOK ==
  /\ latest \in [Project -> Nat \cup {Absent}]
  /\ objects \subseteq Row
  /\ contents \subseteq Hash
  /\ tx \in [Session -> Tx]
  /\ gcHashes \subseteq Hash
  /\ used \subseteq Project
  /\ floor \in [Project -> Nat]

Before(r1, r2) == ~Live(r1) /\ r1.stop <= r2.start

(* The lives of the objects a path has had never overlap, so a version has    *)
(* one object at a path: every writer stops the live row of a path it writes, *)
(* whatever other calls, failures and collections run in between.             *)
DisjointLives ==
  /\ \A r \in objects : Live(r) \/ r.start < r.stop
  /\ \A r1, r2 \in objects :
       (r1.project = r2.project /\ r1.path = r2.path /\ r1 # r2)
         => Before(r1, r2) \/ Before(r2, r1)

(* No committed row of a project is from a version the project has not        *)
(* reached: a template copy, a clone or a rollback never publishes rows whose *)
(* versions a later update would number again.                                *)
NoFutureRows ==
  \A r \in objects :
    latest[r.project] # Absent =>
      r.start <= latest[r.project] /\ (Live(r) \/ r.stop <= latest[r.project])

(* What makes the two hold: the state of the open transactions.  A       *)
(* project's lock holder is alone with its live rows, so every live row at a  *)
(* path it adds is one it stops; a clone keeps only rows the source has too;  *)
(* and a template copy is older than the template's version, because the      *)
(* template only grows.                                                       *)
HoldsLock(t) == t.op \in {"update", "clone"}

LockInv(t) ==
  HoldsLock(t) =>
    /\ latest[t.project] # Absent
    /\ t.next = latest[t.project] + 1
    /\ t.stopped \subseteq LiveRows(objects, t.project)

UpdateInv(t) ==
  t.op = "update" =>
    /\ DistinctPaths(t.todo)
    /\ \A a \in t.added :
         /\ a.project = t.project /\ a.start = t.next /\ Live(a)
         /\ \A u \in t.todo : u.path # a.path
         /\ \A b \in t.added : a.path = b.path => a = b
         /\ \A r \in LiveRows(objects, t.project) : r.path = a.path => r \in t.stopped

CloneInv(t) ==
  t.op = "clone" =>
    /\ t.added = {}
    /\ \A r \in LiveRows(objects, t.project) \ t.stopped : Entry(r) \in t.seen

NewInv(t) ==
  t.op = "new" =>
    /\ t.project \notin used
    /\ t.source \in Templates
    /\ t.source \notin used => t.added = {}
    /\ \A a \in t.added :
         /\ a.project = t.project /\ Live(a)
         /\ latest[t.source] # Absent => a.start <= latest[t.source]
         /\ \A b \in t.added : a.path = b.path => a = b

Alone(s1, s2) ==
  \/ s1 = s2
  \/ tx[s1].project # tx[s2].project
  \/ ~(\/ HoldsLock(tx[s1]) /\ HoldsLock(tx[s2])
       \/ tx[s1].op = "new" /\ tx[s2].op = "new")

UsedInv ==
  /\ \A p \in Project : latest[p] # Absent => p \in used
  /\ \A r \in objects : r.project \in used

(* The inductive invariant: rows, version numbers and the open transactions  *)
(* agree, whatever statements of updates, clones, copies, deletions, resets   *)
(* and collections have run in between.                                       *)
StoreInv ==
  /\ DisjointLives
  /\ NoFutureRows
  /\ UsedInv
  /\ \A s \in Session : /\ LockInv(tx[s]) /\ UpdateInv(tx[s])
                         /\ CloneInv(tx[s]) /\ NewInv(tx[s])
  /\ \A s1, s2 \in Session : Alone(s1, s2)

(* Every committed object, live or old, has its contents: what one update     *)
(* inserted and another one relies on is not collected in between.            *)
ContentsAvailable == \A r \in objects : r.hash \in contents

EntriesAt(view, path) == {e \in view : e.path = path}

(* An update publishes exactly its batch: at every file path the new version  *)
(* has what the stream said and elsewhere what the previous version had.      *)
BatchPublished ==
  [][\A s \in Session : CommitUpdate(s) =>
       LET t == tx[s]
           old == View(objects, t.project, t.next - 1)
           new == View(objects', t.project, t.next)
       IN  \A path \in Path \ Dir :
             EntriesAt(new, path) =
               IF \E u \in t.batch : u.path = path
               THEN {Entry(u) : u \in {w \in t.batch : w.path = path /\ w.hash # Null}}
               ELSE EntriesAt(old, path)]_vars

(* A clone gives the target exactly the files the source had at the version   *)
(* asked for, when the target was locked.                                     *)
CloneExact ==
  [][\A s \in Session :
       CommitClone(s) => View(objects', tx[s].project, tx[s].next) = tx[s].seen]_vars

(* What is new is sent, what is sent is there, what is gone is removed or     *)
(* covered by something that is sent at or inside its path, and nothing is    *)
(* removed that should stay, except a directory's marker that is sent again.  *)
DifferenceExact(p, from, to) ==
  LET old == View(objects, p, from)
      new == View(objects, p, to)
      updated == updatedObjects(objects, p, from, to)
      removed == removedObjects(objects, p, from, to)
      Covered(path) == \E u \in updated : u.path \in {path} \cup Inside[path]
  IN  /\ new \ old \subseteq updated /\ updated \subseteq new
      /\ \A e \in old \ new : e.path \in removed \/ Covered(e.path)
      /\ \A e \in new : e.path \in removed => e.path \in Dir /\ e \in updated

(* The queries of queryBuilder.go are exact between any two versions that are *)
(* complete: a client at one is sent what leads it to the other.              *)
QueriesExact ==
  \A p \in Project : latest[p] # Absent =>
    \A from, to \in floor[p] .. latest[p] : from <= to => DifferenceExact(p, from, to)

(* The versions of each project that are still complete, with their files.    *)
Windows ==
  [p \in Project |-> IF latest[p] = Absent
                     THEN [v \in {} |-> {}]
                     ELSE [v \in floor[p] .. latest[p] |-> View(objects, p, v)]]

Fs == INSTANCE VersionedFs WITH
        FileSet <- SUBSET [path : Path, hash : Hash], hist <- Windows

(* The store implements VersionedFs: no update, clone, template copy, failed  *)
(* call or collection changes a version that is still complete, and a         *)
(* rollback to a complete version restores it exactly.                        *)
StableVersions == Fs!Spec

=============================================================================
