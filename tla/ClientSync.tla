----------------------------- MODULE ClientSync -----------------------------
(* The client's directory: Rebuild and Update of pkg/client/client.go, the    *)
(* writing of objects in internal/files/writer.go, and the version and        *)
(* summary files of pkg/client/dir.go, beside a project that others publish   *)
(* to.                                                                        *)
(*                                                                            *)
(* The server is one project's rows and latest version; an update there is    *)
(* one step, which is what ObjectStore shows of it.  The version queries are  *)
(* those of QueryBuilder.                                                     *)
EXTENDS QueryBuilder

CONSTANTS
  project,     \* the project
  Hash,        \* hashes of file contents
  Node,        \* the names in the directory: "a" and "a/f", never "a/"
  Under,       \* Under[n]: the nodes inside n
  NodeOf,      \* NodeOf[q]: the node of path q; a marker "a/" is node "a"
  Packed,      \* the paths that are packed
  Rank,        \* Rank[q]: the place of path q in ORDER BY path
  Missing,     \* no such file
  Folder,      \* a directory
  Mine,        \* paths of the files that are edited in the directory
  Theirs,      \* paths that the other writers of the project write
  Trees,       \* the files they may leave at those paths
  Keeps,       \* values of GcProjectRequest.keep_versions
  Summarize,   \* values of the summarize flag of a rebuild
  Folding,     \* a directory may become a file when it held only these paths
  Crowding,    \* files that may become a directory with more than one entry
  Interrupts,  \* TRUE: files are edited while the client runs, and a rebuild
               \* is started although edits are not uploaded
  GcKeepsUp,   \* TRUE: no version the directory may be at is collected
  MaxFaults,   \* bound: how often the client is killed or loses the server
  MaxVersion   \* bound: the project does not go past this version

ASSUME SyncAssumption ==
  /\ MaxVersion \in Nat /\ MaxFaults \in Nat
  /\ Under \in [Node -> SUBSET Node]
  /\ NodeOf \in [Path -> Node]
  /\ Rank \in [Path -> Nat] /\ \A q, r \in Path : Rank[q] = Rank[r] => q = r
  /\ Packed \subseteq Path \ Dir
  /\ Mine \subseteq Path \ (Dir \cup Packed) /\ Theirs \subseteq Path
  /\ Trees \subseteq SUBSET [path : Theirs, hash : Hash]
  /\ Keeps \subseteq Nat \ {0}
  /\ Summarize \subseteq BOOLEAN
  /\ Folding \subseteq Path /\ Crowding \subseteq Path /\ Interrupts \in BOOLEAN /\ GcKeepsUp \in BOOLEAN
  /\ {Missing, Folder, Null} \cap Hash = {} /\ Missing # Folder

Above(n) == {m \in Node : n \in Under[m]}

(* The directory a node is in, if it is not at the top.                       *)
InDir(n) == {m \in Above(n) : Above(n) \subseteq Above(m) \cup {m}}

(* Names: what is inside what.  A path "a/f" is inside the file "a" when its  *)
(* node is under a's, and so is the marker "a/".  A pack is one leaf of the   *)
(* tree, and no file has its name.                                            *)
ASSUME TreeAssumption ==
  /\ \A n \in Node : n \notin Under[n] /\ \A m \in Under[n] : Under[m] \subseteq Under[n]
  /\ \A q, r \in Path \ Dir : NodeOf[q] = NodeOf[r] => q = r
  /\ \A q \in Path \ Dir, r \in Path :
       r \in Inside[q] <=> (NodeOf[r] \in Under[NodeOf[q]] \/ (r \in Dir /\ NodeOf[r] = NodeOf[q]))
  /\ \A q \in Dir, r \in Path : NodeOf[r] \in Under[NodeOf[q]] => r \in Inside[q]
  /\ \A n \in Node : Above(n) # {} => InDir(n) # {}
  /\ \A q \in Packed : Under[NodeOf[q]] = {}

(* The files that are edited are at the top of the directory, and no path is  *)
(* inside them.                                                               *)
ASSUME EditAssumption ==
  \A q \in Mine : /\ Inside[q] = {} /\ Under[NodeOf[q]] = {}
                 /\ \A n \in Node : NodeOf[q] \notin Under[n]

(* What the others publish is a tree: a path once, and nothing inside a file. *)
ASSUME TreesAssumption ==
  \A tree \in Trees : \A e, f \in tree :
    /\ e.path = f.path => e = f
    /\ e.path \notin Dir => f.path \notin Inside[e.path]

VARIABLES
  rows,      \* the project's rows
  latest,    \* its latest version
  disk,      \* disk[n]: a hash, Folder or Missing
  version,   \* .dl/version, 0 when there is none
  summary,   \* .dl/sum.s2: the files as they were when it was written
  job,       \* the call the client is in
  attempts,  \* history: targets of the rebuilds since the last one that was
             \* never cut short on the way to another version
  faults     \* history: how often the client was cut short

vars == <<rows, latest, disk, version, summary, job, attempts, faults>>

server == <<rows, latest>>

(* An object that is left to write.  "kind" is what its worker does next: a   *)
(* file's directory is made ("file") before it is opened ("open"), and an     *)
(* existing pack is removed ("pack") before the new one is moved ("place").   *)
(* "step" is where retryFileErrors is: it tries, removes and tries again.     *)
Object ==
  LET Of(kinds, steps, paths, hashes) ==
        [kind : kinds, step : steps, path : paths, hash : hashes]
      Steps == {"try", "clear", "again"}
  IN  Of({"file", "open"}, Steps, Path \ (Dir \cup Packed), Hash)
        \cup Of({"dir"}, Steps, Dir, Hash)
        \cup Of({"delete"}, {"try"}, Path \ Packed, {Null})
        \cup Of({"pack"}, {"try"}, Packed, Hash \cup {Null})
        \cup Of({"place"}, {"try"}, Packed, Hash)

-----------------------------------------------------------------------------
(* The disk.                                                                  *)

IsFile(d, n) == d[n] \in Hash
FileAt(d, n) == IF IsFile(d, n) THEN d[n] ELSE Missing

(* os.RemoveAll(n)                                                            *)
RemoveAll(d, n) == [m \in Node |-> IF m \in Under[n] \cup {n} THEN Missing ELSE d[m]]

(* os.MkdirAll: of n, and of the directory that n is in.                      *)
MkdirAll(d, n) == [m \in Node |-> IF m \in Above(n) \cup {n} THEN Folder ELSE d[m]]
MkdirParents(d, n) == [m \in Node |-> IF m \in Above(n) THEN Folder ELSE d[m]]

(* A directory above n is a file: ENOTDIR.                                    *)
NotDir(d, n) == \E m \in Above(n) : IsFile(d, m)

(* What an object's next system call fails of.  Removing a path is no error   *)
(* when the path is gone (ErrNotExist) or is a directory that is not empty    *)
(* (ErrExist).  A pack that is removed and not there has nothing to write.    *)
Blocked(d, o) ==
  LET n == NodeOf[o.path]
  IN  \/ o.kind \in {"file", "dir", "delete"} /\ NotDir(d, n)
      \/ o.kind = "pack" /\ o.hash # Null /\ NotDir(d, n)
      \/ o.kind = "dir" /\ IsFile(d, n)
      \/ o.kind = "open" /\ d[n] = Folder
      \/ o.kind \in {"open", "place"} /\ \E m \in Above(n) : d[m] # Folder

(* The disk after the call.                                                   *)
Written(d, o) ==
  LET n == NodeOf[o.path]
  IN  CASE o.kind = "file" -> MkdirParents(d, n)
        [] o.kind = "dir" -> MkdirAll(d, n)
        [] o.kind = "delete" ->
             IF \E m \in Under[n] : d[m] # Missing THEN d ELSE [d EXCEPT ![n] = Missing]
        [] o.kind = "pack" /\ (o.hash = Null \/ d[n] # Missing) -> RemoveAll(d, n)
        [] OTHER -> [MkdirParents(d, n) EXCEPT ![n] = o.hash]

(* Mutant of Retries: mkdir and open are not tried again.                     *)
RetriesNever(o) == FALSE

(* retryFileErrors removes its path and tries again, once.                    *)
Retries(o) == o.kind \in {"file", "dir", "open"} /\ o.step = "try"

(* The path it removes: the directory of a file, or the object's own.         *)
Target(o) == IF o.kind = "file" THEN InDir(NodeOf[o.path]) ELSE {NodeOf[o.path]}

(* What is left of tar t when a directory was made.  It is in existingDirs    *)
(* and not made again for this tar.                                           *)
Made(t, dir) ==
  LET Skipped(x) == x.kind = "dir" /\ {NodeOf[x.path]} = dir
      Opens(x) == x.kind = "file" /\ InDir(NodeOf[x.path]) = dir
  IN  {IF Opens(x) THEN [x EXCEPT !.kind = "open", !.step = "try"] ELSE x :
         x \in {y \in t : ~Skipped(y)}}

(* What is left of tar t after the call for object o on disk d.  A pack that  *)
(* exists is unpacked elsewhere, removed, and put in place.                   *)
Rest(t, d, o) ==
  LET n == NodeOf[o.path]
  IN  CASE o.kind = "file" -> Made(t, InDir(n))
        [] o.kind = "dir" -> Made(t, {n})
        [] o.kind = "pack" /\ o.hash # Null /\ d[n] # Missing ->
             (t \ {o}) \cup {[o EXCEPT !.kind = "place"]}
        [] OTHER -> t \ {o}

-----------------------------------------------------------------------------
(* The project.                                                               *)

Files == View(rows, project, latest)

(* Mutant of PublishRows: the rows start at the version they replace.         *)
PublishEarly(view) ==
  LET Changed(r) == Live(r) /\ Entry(r) \notin view
  IN  {r \in rows : ~Changed(r)}
        \cup {[r EXCEPT !.stop = latest] : r \in {o \in rows : Changed(o)}}
        \cup {[project |-> project, start |-> latest, stop |-> Null,
               path |-> e.path, hash |-> e.hash] : e \in view \ Files}

(* The rows when the project's files become "view" at the next version.       *)
PublishRows(view) ==
  LET Changed(r) == Live(r) /\ Entry(r) \notin view
  IN  {r \in rows : ~Changed(r)}
        \cup {[r EXCEPT !.stop = latest + 1] : r \in {o \in rows : Changed(o)}}
        \cup {[project |-> project, start |-> latest + 1, stop |-> Null,
               path |-> e.path, hash |-> e.hash] : e \in view \ Files}

(* Another client or the API updates the project.                             *)
Publish(tree) ==
  LET view == tree \cup {e \in Files : e.path \notin Theirs}
  IN  /\ latest < MaxVersion
      /\ view # Files
      /\ \A e \in view, r \in rows : e.path \in Dir \/ r.path \notin Inside[e.path] \ Folding
      /\ \A r \in rows : r.path \in Dir \cup Crowding \/
           \A e, f \in view : {e.path, f.path} \subseteq Inside[r.path] => e.path = f.path
      /\ rows' = PublishRows(view)
      /\ latest' = latest + 1
      /\ UNCHANGED <<disk, version, summary, job, attempts, faults>>

GcProject(keep) ==
  LET dead == {r \in rows : ~Live(r) /\ r.stop <= latest - keep}
  IN  /\ GcKeepsUp => latest - keep <= version
      /\ dead # {}
      /\ rows' = rows \ dead
      /\ UNCHANGED <<latest, disk, version, summary, job, attempts, faults>>

-----------------------------------------------------------------------------
(* Client.Rebuild                                                             *)

Idle == [pc |-> "idle", from |-> 0, to |-> 0, summarize |-> FALSE,
         tars |-> {}, failed |-> FALSE, updates |-> {}]

(* fsdiff: the files that differ from the summary.                            *)
Diff == {q \in Path \ (Dir \cup Packed) :
           FileAt(disk, NodeOf[q]) # FileAt(summary, NodeOf[q])}

Begin(to, summarize) ==
  job' = [Idle EXCEPT !.pc = "query", !.from = version, !.to = to,
                      !.summarize = summarize]

(* NewVersionRange: "to" is the version asked for, or the latest one.         *)
Rebuild(to, summarize) ==
  /\ job = Idle
  /\ to # version
  /\ ~Interrupts => Diff \cap Mine = {}
  /\ Begin(to, summarize)
  /\ UNCHANGED <<server, disk, version, summary, attempts, faults>>

(* DbObject.ToTarObject; a removed object has no contents.                    *)
ToTarObject(q, hash) ==
  [kind |-> CASE q \in Packed -> "pack"
              [] q \notin Packed /\ hash = Null -> "delete"
              [] q \in Dir \ Packed /\ hash # Null -> "dir"
              [] OTHER -> "file",
   step |-> "try", path |-> q, hash |-> hash]

(* The objects the server streams.                                            *)
Stream(from, to) ==
  LET updated == updatedObjects(rows, project, from, to)
      removed == IF from = 0 THEN {} ELSE removedObjects(rows, project, from, to)
  IN  {ToTarObject(e.path, e.hash) : e \in updated} \cup {ToTarObject(q, Null) : q \in removed}

(* The updated objects come first, then the removed ones, each by path.       *)
Earlier(o1, o2) ==
  \/ o1.hash # Null /\ o2.hash = Null
  \/ (o1.hash = Null <=> o2.hash = Null) /\ Rank[o1.path] < Rank[o2.path]

(* GetTars: a packed object is a tar of its own, the others are cut into tars *)
(* when their size passes TargetTarSize (here: at most once, anywhere).       *)
Plain(objects) == {o \in objects : o.kind # "pack"}

Starts(objects) ==
  {first \in SUBSET Plain(objects) :
     \A o1 \in first, o2 \in Plain(objects) \ first : Earlier(o1, o2)}

Tars(objects, first) ==
  ({first, Plain(objects) \ first} \cup {{o} : o \in objects \ Plain(objects)}) \ {{}}

(* The query.  Without objects the stream ends at once, and the client        *)
(* returns without a version or summary file.                                 *)
GetCompress ==
  LET objects == Stream(job.from, job.to)
  IN  /\ job.pc = "query"
      /\ \/ /\ objects = {}
            /\ job' = Idle
            /\ UNCHANGED attempts
         \/ /\ objects # {}
            /\ \E first \in Starts(objects) :
                 job' = [job EXCEPT !.pc = "write", !.tars = Tars(objects, first)]
            /\ attempts' = attempts \cup {job.to}
      /\ UNCHANGED <<server, disk, version, summary, faults>>

(* The tars when a worker leaves "rest" of tar t.                             *)
Leave(t, rest) == (job.tars \ {t}) \cup ({rest} \ {{}})

(* The worker of tar t is at object o, and goes on or returns an error.       *)
Current(t, o) == job.pc = "write" /\ \A other \in t : ~Earlier(other, o)

GoOn(t, rest, d) ==
  /\ disk' = d
  /\ job' = [job EXCEPT !.tars = Leave(t, rest)]
  /\ UNCHANGED <<server, version, summary, attempts, faults>>

GiveUp(t) ==
  /\ job' = [job EXCEPT !.failed = TRUE, !.tars = @ \ {t}]
  /\ UNCHANGED <<server, disk, version, summary, attempts>>

(* The next call for the next object of a tar.                                *)
WriteObject(t, o) ==
  /\ Current(t, o) /\ o.step # "clear"
  /\ IF ~Blocked(disk, o)
     THEN GoOn(t, Rest(t, disk, o), Written(disk, o))
     ELSE IF Retries(o)
     THEN GoOn(t, (t \ {o}) \cup {[o EXCEPT !.step = "clear"]}, disk)
     ELSE GiveUp(t) /\ UNCHANGED faults

(* The call failed: os.RemoveAll, which fails when a directory above is a     *)
(* file.  In between, other workers have written.                             *)
RemoveTarget(t, o) ==
  /\ Current(t, o) /\ o.step = "clear"
  /\ IF \E n \in Target(o) : NotDir(disk, n)
     THEN GiveUp(t) /\ UNCHANGED faults
     ELSE \E n \in Target(o) :
            GoOn(t, (t \ {o}) \cup {[o EXCEPT !.step = "again"]}, RemoveAll(disk, n))

(* The disk is full or refuses the object, an existing pack's removal         *)
(* included: the worker leaves the rest of its tar.                           *)
WriteFails(t) ==
  /\ job.pc = "write"
  /\ t \in job.tars
  /\ faults < MaxFaults
  /\ faults' = faults + 1
  /\ GiveUp(t)

(* group.Wait returns a worker's error.  The other workers may still have     *)
(* written their tars, or a part.                                             *)
RebuildError ==
  /\ job.pc = "write"
  /\ job.failed
  /\ job' = Idle
  /\ UNCHANGED <<server, disk, version, summary, attempts, faults>>

(* After the last tar, or after an update that nobody overtook.               *)
WriteVersionFile ==
  /\ \/ job.pc = "write" /\ job.tars = {} /\ ~job.failed
     \/ job.pc = "version"
  /\ version' = job.to
  /\ job' = IF job.summarize THEN [job EXCEPT !.pc = "summary"] ELSE Idle
  /\ attempts' = IF attempts \subseteq {job.to} THEN {} ELSE attempts
  /\ UNCHANGED <<server, disk, summary, faults>>

(* DiffAndSummarize at the end of a rebuild.                                  *)
WriteSummary ==
  /\ job.pc = "summary"
  /\ summary' = disk
  /\ job' = Idle
  /\ UNCHANGED <<server, disk, version, attempts, faults>>

-----------------------------------------------------------------------------
(* Client.Update                                                              *)

(* DiffAndSummarize: the summary is written before anything is sent.  It is   *)
(* called for directories that are edited, not for those that only follow.    *)
Update ==
  /\ job = Idle
  /\ Diff # {}
  /\ summary' = disk
  /\ job' = [Idle EXCEPT !.pc = "send", !.from = version, !.updates = Diff]
  /\ UNCHANGED <<server, disk, version, attempts, faults>>

(* The workers read the files and the sender streams them; a file that is     *)
(* gone by now is sent as deleted.  The server answers with the version it    *)
(* published, or with the latest one when nothing changed.                    *)
SendUpdate ==
  LET Now(q) == FileAt(disk, NodeOf[q])
      puts == {[path |-> q, hash |-> Now(q)] : q \in {u \in job.updates : Now(u) # Missing}}
      view == puts \cup {e \in Files : e.path \notin job.updates}
      changed == view # Files \/ \E q \in job.updates : Now(q) = Missing
  IN  /\ job.pc = "send"
      /\ IF changed
         THEN /\ latest < MaxVersion
              /\ rows' = PublishRows(view)
              /\ latest' = latest + 1
         ELSE UNCHANGED server
      /\ job' = [job EXCEPT !.pc = "answer", !.to = latest']
      /\ UNCHANGED <<disk, version, summary, attempts, faults>>

(* Mutant of ReceiveAnswer: whatever version comes back is written down.      *)
TrustAnswer ==
  /\ job.pc = "answer"
  /\ job' = [job EXCEPT !.pc = "version"]
  /\ UNCHANGED <<server, disk, version, summary, attempts, faults>>

(* When somebody else published in between, the directory is rebuilt.         *)
ReceiveAnswer ==
  /\ job.pc = "answer"
  /\ job' = [job EXCEPT !.pc = IF job.from + 1 = job.to THEN "version" ELSE "rebuild"]
  /\ UNCHANGED <<server, disk, version, summary, attempts, faults>>

RebuildAfterUpdate ==
  /\ job.pc = "rebuild"
  /\ Begin(latest, TRUE)
  /\ UNCHANGED <<server, disk, version, summary, attempts, faults>>

-----------------------------------------------------------------------------
(* A file is written or removed in the directory.                             *)
Edit(q, value) ==
  /\ ~Interrupts => job = Idle
  /\ disk[NodeOf[q]] # value
  /\ disk' = [disk EXCEPT ![NodeOf[q]] = value]
  /\ UNCHANGED <<server, version, summary, job, attempts, faults>>

(* The client is killed or the connection breaks: the call ends where it is.  *)
Fault ==
  /\ job # Idle
  /\ faults < MaxFaults
  /\ faults' = faults + 1
  /\ job' = Idle
  /\ UNCHANGED <<server, disk, version, summary, attempts>>

Init ==
  /\ rows = {}
  /\ latest = 0
  /\ disk = [n \in Node |-> Missing]
  /\ version = 0
  /\ summary = [n \in Node |-> Missing]
  /\ job = Idle
  /\ attempts = {}
  /\ faults = 0

RebuildStep ==
  \/ GetCompress
  \/ \E t \in job.tars : \E o \in t : WriteObject(t, o) \/ RemoveTarget(t, o)
  \/ RebuildError
  \/ WriteVersionFile
  \/ WriteSummary

UpdateStep == SendUpdate \/ ReceiveAnswer \/ RebuildAfterUpdate

Next ==
  \/ \E tree \in Trees : Publish(tree)
  \/ \E keep \in Keeps : GcProject(keep)
  \/ \E to \in 1 .. latest, summarize \in Summarize : Rebuild(to, summarize)
  \/ RebuildStep
  \/ Mine # {} /\ Update
  \/ UpdateStep
  \/ \E q \in Mine, value \in Hash \cup {Missing} : Edit(q, value)
  \/ \E t \in job.tars : WriteFails(t)
  \/ Fault

Spec == Init /\ [][Next]_vars

(* The caller keeps asking for the latest version, and a call makes progress. *)
FairSpec ==
  /\ Spec
  /\ WF_vars(RebuildStep)
  /\ SF_vars(\E summarize \in Summarize : Rebuild(latest, summarize))

-----------------------------------------------------------------------------
(* Types of the server's and the client's state.                              *)
TypeOK ==
  /\ rows \subseteq [project : {project}, start : 1 .. MaxVersion,
                     stop : 1 .. MaxVersion \cup {Null}, path : Path, hash : Hash]
  /\ latest \in 0 .. MaxVersion
  /\ disk \in [Node -> Hash \cup {Missing, Folder}]
  /\ version \in 0 .. latest
  /\ summary \in [Node -> Hash \cup {Missing, Folder}]
  /\ job \in [pc : {"idle", "query", "write", "version", "summary", "send", "answer", "rebuild"},
              from : 0 .. latest, to : 0 .. latest, summarize : BOOLEAN,
              tars : SUBSET ((SUBSET Object) \ {{}}), failed : BOOLEAN, updates : SUBSET Path]
  /\ attempts \subseteq 1 .. latest
  /\ faults \in 0 .. MaxFaults

(* The file that a version has at a node, in terms of the disk.               *)
FileOf(view, n) ==
  LET here == {e \in view : NodeOf[e.path] = n /\ e.path \notin Dir}
  IN  IF here = {} THEN Missing ELSE (CHOOSE e \in here : TRUE).hash

Matches(view) == \A n \in Node : FileAt(disk, n) = FileOf(view, n)

(* Between calls, every file is what the version in the version file says, or *)
(* it is an edit that the next Update will find and upload.                   *)
Synced ==
  job = Idle =>
    \A n \in Node : \/ FileAt(disk, n) = FileOf(View(rows, project, version), n)
                    \/ \E q \in Diff : NodeOf[q] = n

(* A rebuild that was cut short anywhere, any number of times, is completed   *)
(* by calling it again for the same version.                                  *)
RetryExact ==
  [][WriteVersionFile /\ attempts \subseteq {job.to}
       => Matches(View(rows, project, job.to))]_vars

UpToDate ==
  /\ Matches(Files)
  /\ version = latest \/ Stream(version, latest) = {}

(* A call was cut short, and the next one was for another version.            *)
Diverted == faults > 0 /\ job.pc = "query" /\ ~(attempts \subseteq {job.to})

(* Once the project rests, the directory ends up with its files and the       *)
(* client knows it: it "can be used to apply all updates between its current  *)
(* filesystem version and the new version" (docs/core.md).  A client that was *)
(* killed catches up too, if it is called again for the version it was at.    *)
CatchUp == <>[]UpToDate \/ <>Diverted

=============================================================================
