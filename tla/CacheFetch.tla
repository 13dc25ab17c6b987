----------------------------- MODULE CacheFetch -----------------------------
(* The cache of packs: CreateCache and GetCacheTars on the server, and        *)
(* Client.GetCache (pkg/client/client.go), which processes run on one cache   *)
(* directory.  A rebuild tells the server the versions in the directory's     *)
(* "versions" file and gets, for a pack of one of them, its hash instead of   *)
(* its files: HardlinkDir then takes the files from objects/<hash>.           *)
EXTENDS Integers, FiniteSets, FiniteSetsExt

CONSTANTS
  Proc,          \* processes that fetch the cache into the directory
  Hash,          \* hashes of packs
  Part,          \* the files of a pack
  Limit,         \* how many packs a cache version has at most
  Collects,      \* the packs that may go away; their contents are collected
  Faults,        \* what may go wrong: "crash", "break", "first", "write", "stop"
  MaxFaults,     \* bound: how often
  MaxVersion,    \* bound: cache versions
  None           \* no such directory

ASSUME CacheAssumption ==
  /\ Limit \in Nat /\ MaxFaults \in Nat /\ MaxVersion \in Nat
  /\ Collects \subseteq Hash
  /\ Faults \subseteq {"crash", "break", "first", "write", "stop"}
  /\ None \notin Proc /\ \A files \in SUBSET Part : files # None

VARIABLES
  live,      \* the hashes that objects refer to
  contents,  \* dl.contents
  cached,    \* dl.cache_versions: cached[v] is the hashes of version v
  objects,   \* objects/<hash>: its files, or None
  tmp,       \* tmp/<hash>: its files, or None
  lock,      \* the file .lock exists
  versions,  \* the file "versions"
  proc,      \* proc[p]: where process p is in GetCache
  lost,      \* history: the hashes that were ever collected
  faults     \* history: how often something went wrong

server == <<live, contents, cached, lost>>
vars == <<server, objects, tmp, lock, versions, proc, faults>>

Latest == Cardinality(DOMAIN cached)
Idle == [pc |-> "idle", version |-> 0, todo |-> {}, writing |-> {}, failed |-> FALSE]
Empty == [h \in Hash |-> None]

(* The processes that hold the lock.                                          *)
Holders == {p \in Proc : proc[p].pc \in {"ask", "fetch", "unlock"}}

Init ==
  /\ live = {} /\ contents = {} /\ lost = {}
  /\ cached = [v \in {} |-> {}]
  /\ objects = Empty /\ tmp = Empty
  /\ lock = FALSE
  /\ versions = {}
  /\ proc = [p \in Proc |-> Idle]
  /\ faults = 0

Mishap(kind) == kind \in Faults /\ faults < MaxFaults /\ faults' = faults + 1

-----------------------------------------------------------------------------
(* The server.                                                                *)

(* A pack is written, and goes away when its last row is collected.           *)
Store(h) ==
  /\ h \notin live
  /\ live' = live \cup {h} /\ contents' = contents \cup {h}
  /\ UNCHANGED <<cached, lost, objects, tmp, lock, versions, proc, faults>>

Retire(h) ==
  /\ h \in live \cap Collects
  /\ live' = live \ {h}
  /\ UNCHANGED <<contents, cached, lost, objects, tmp, lock, versions, proc, faults>>

(* Mutant of GcContents: contents are collected although objects need them.   *)
GcAnything(h) ==
  /\ h \in contents \cap Collects
  /\ contents' = contents \ {h} /\ lost' = lost \cup {h}
  /\ UNCHANGED <<live, cached, objects, tmp, lock, versions, proc, faults>>

(* GcContentHashes looks at dl.objects only.                                  *)
GcContents(h) ==
  /\ h \in (contents \ live) \cap Collects
  /\ contents' = contents \ {h} /\ lost' = lost \cup {h}
  /\ UNCHANGED <<live, cached, objects, tmp, lock, versions, proc, faults>>

(* CreateCache: the packs that most objects refer to, here any of them.       *)
CreateCache(S) ==
  /\ Latest < MaxVersion
  /\ S \subseteq live /\ Cardinality(S) = Min({Limit, Cardinality(live)})
  /\ cached' = [v \in 1 .. Latest + 1 |-> IF v = Latest + 1 THEN S ELSE cached[v]]
  /\ UNCHANGED <<live, contents, lost, objects, tmp, lock, versions, proc, faults>>

(* GetCacheTars joins the hashes of the latest version with dl.contents.      *)
CacheTars == IF Latest = 0 THEN {} ELSE cached[Latest] \cap contents

(* Fs.GetCache streams them, each with the version.                           *)
Responses == [version |-> Latest, tars |-> CacheTars]

-----------------------------------------------------------------------------
(* Client.GetCache                                                            *)

Goto(p, pc) == proc' = [proc EXCEPT ![p].pc = pc]

(* The temporary directory is emptied before the lock is taken.               *)
Start(p) ==
  /\ proc[p] = Idle
  /\ tmp' = Empty
  /\ Goto(p, "lock")
  /\ UNCHANGED <<server, objects, lock, versions, faults>>

(* O_EXCL.  The call that finds a lock returns, and its deferred RemoveAll    *)
(* empties the temporary directory.                                           *)
ObtainLock(p) ==
  /\ proc[p].pc = "lock"
  /\ \/ lock /\ tmp' = Empty /\ Goto(p, "idle") /\ UNCHANGED lock
     \/ ~lock /\ lock' = TRUE /\ Goto(p, "ask") /\ UNCHANGED tmp
  /\ UNCHANGED <<server, objects, versions, faults>>

(* The first response; without one the call ends.                             *)
Ask(p) ==
  /\ proc[p].pc = "ask"
  /\ \/ /\ proc' = [proc EXCEPT ![p] = [@ EXCEPT !.pc = IF Responses.tars = {} THEN "unlock" ELSE "fetch",
                                                 !.version = Responses.version,
                                                 !.todo = Responses.tars]]
        /\ UNCHANGED faults
     \/ Mishap("first") /\ Goto(p, "unlock")
  /\ UNCHANGED <<server, objects, tmp, lock, versions>>

(* Mutant of TakePack: a pack that an earlier fetch left is an error.         *)
TakeExisting(p, h) ==
  /\ proc[p].pc = "fetch"
  /\ h \in proc[p].todo
  /\ IF objects[h] # None
     THEN /\ proc' = [proc EXCEPT ![p].todo = {}, ![p].failed = TRUE]
          /\ UNCHANGED tmp
     ELSE /\ proc' = [proc EXCEPT ![p].todo = @ \ {h},
                                  ![p].writing = @ \cup {[hash |-> h, left |-> Part]}]
          /\ tmp' = [tmp EXCEPT ![h] = {}]
  /\ UNCHANGED <<server, objects, lock, versions, faults>>

(* A worker takes a response.  A pack that is there is not written again.     *)
TakePack(p, h) ==
  /\ proc[p].pc = "fetch"
  /\ h \in proc[p].todo
  /\ IF objects[h] # None
     THEN /\ proc' = [proc EXCEPT ![p].todo = @ \ {h}]
          /\ UNCHANGED tmp
     ELSE /\ proc' = [proc EXCEPT ![p].todo = @ \ {h},
                                  ![p].writing = @ \cup {[hash |-> h, left |-> Part]}]
          /\ tmp' = [tmp EXCEPT ![h] = {}]
  /\ UNCHANGED <<server, objects, lock, versions, faults>>

(* An error cancels the receiver and the workers that wait.                   *)
Failed(p, r) ==
  [proc EXCEPT ![p].todo = {}, ![p].writing = @ \ {r}, ![p].failed = TRUE]

(* WriteTar writes a file of the pack.  When the directory has been removed,  *)
(* the file is written if WriteTar still makes its directory, and is an error *)
(* if it had made it before.                                                  *)
WritePart(p, r, k) ==
  /\ r \in proc[p].writing /\ k \in r.left
  /\ \/ /\ tmp' = [tmp EXCEPT ![r.hash] = (IF @ = None THEN {} ELSE @) \cup {k}]
        /\ proc' = [proc EXCEPT ![p].writing = (@ \ {r}) \cup {[r EXCEPT !.left = @ \ {k}]}]
        /\ UNCHANGED faults
     \/ tmp[r.hash] = None /\ proc' = Failed(p, r) /\ UNCHANGED <<tmp, faults>>
     \/ Mishap("write") /\ proc' = Failed(p, r) /\ UNCHANGED tmp
  /\ UNCHANGED <<server, objects, lock, versions>>

(* Mutant of MovePack: tmp/<hash> is moved before all of it is written.       *)
MoveEarly(p, r) ==
  /\ r \in proc[p].writing
  /\ IF tmp[r.hash] = None
     THEN proc' = Failed(p, r) /\ UNCHANGED <<tmp, objects>>
     ELSE /\ objects' = [objects EXCEPT ![r.hash] = tmp[r.hash]]
          /\ tmp' = [tmp EXCEPT ![r.hash] = None]
          /\ proc' = [proc EXCEPT ![p].writing = @ \ {r}]
  /\ UNCHANGED <<server, lock, versions, faults>>

(* os.Rename(tempDest, finalDest)                                             *)
MovePack(p, r) ==
  /\ r \in proc[p].writing /\ r.left = {}
  /\ IF tmp[r.hash] = None
     THEN proc' = Failed(p, r) /\ UNCHANGED <<tmp, objects>>
     ELSE /\ objects' = [objects EXCEPT ![r.hash] = tmp[r.hash]]
          /\ tmp' = [tmp EXCEPT ![r.hash] = None]
          /\ proc' = [proc EXCEPT ![p].writing = @ \ {r}]
  /\ UNCHANGED <<server, lock, versions, faults>>

(* group.Wait, and the version is appended unless a worker failed or the file *)
(* cannot be opened or written.                                               *)
AppendVersion(p) ==
  /\ proc[p].pc = "fetch" /\ proc[p].todo = {} /\ proc[p].writing = {}
  /\ \/ proc[p].failed /\ UNCHANGED <<versions, faults>>
     \/ /\ ~proc[p].failed
        /\ versions' = versions \cup {proc[p].version}
        /\ UNCHANGED faults
     \/ ~proc[p].failed /\ Mishap("write") /\ UNCHANGED versions
  /\ Goto(p, "unlock")
  /\ UNCHANGED <<server, objects, tmp, lock>>

(* The deferred calls run last in, first out: the lock file is removed, then  *)
(* the temporary directory.                                                   *)
Unlock(p) ==
  /\ proc[p].pc = "unlock"
  /\ lock' = FALSE
  /\ Goto(p, "sweep")
  /\ UNCHANGED <<server, objects, tmp, versions, faults>>

Sweep(p) ==
  /\ proc[p].pc = "sweep"
  /\ tmp' = Empty
  /\ proc' = [proc EXCEPT ![p] = Idle]
  /\ UNCHANGED <<server, objects, lock, versions, faults>>

(* The stream breaks after the first response: Recv returns nil and an error, *)
(* response.Version is read first, and the process panics.                    *)
BreakStream(p) ==
  /\ proc[p].pc = "fetch"
  /\ Mishap("break")
  /\ proc' = [proc EXCEPT ![p] = Idle]
  /\ UNCHANGED <<server, objects, tmp, lock, versions>>

Crash(p) ==
  /\ proc[p] # Idle
  /\ Mishap("crash")
  /\ proc' = [proc EXCEPT ![p] = Idle]
  /\ UNCHANGED <<server, objects, tmp, lock, versions>>

(* A process that ended in the middle has left its lock file behind.          *)
StaleLock == lock /\ Holders = {}

(* Nothing in this code removes it: somebody does, or not, by hand.           *)
RemoveLock ==
  /\ StaleLock
  /\ Faults \cap {"crash", "break"} # {}
  /\ lock' = FALSE
  /\ UNCHANGED <<server, objects, tmp, versions, proc, faults>>

GetCache(p) ==
  \/ ObtainLock(p)
  \/ Ask(p)
  \/ \E h \in proc[p].todo : TakePack(p, h)
  \/ \E r \in proc[p].writing : \E k \in r.left : WritePart(p, r, k)
  \/ \E r \in proc[p].writing : MovePack(p, r)
  \/ AppendVersion(p)
  \/ Unlock(p)
  \/ Sweep(p)

Next ==
  \/ \E h \in Hash : Store(h) \/ Retire(h) \/ GcContents(h)
  \/ \E S \in SUBSET live : CreateCache(S)
  \/ \E p \in Proc : Start(p) \/ GetCache(p) \/ BreakStream(p) \/ Crash(p)
  \/ RemoveLock

Spec == Init /\ [][Next]_vars

-----------------------------------------------------------------------------
Directory == (SUBSET Part) \cup {None}
Process ==
  [pc : {"idle", "lock", "ask", "fetch", "unlock", "sweep"}, version : Nat, todo : SUBSET Hash,
   writing : SUBSET [hash : Hash, left : SUBSET Part], failed : BOOLEAN]

(* A process that fetches, fetches a version that there is.                   *)
VersionOK(t) == t.version <= Latest /\ (t.pc = "fetch" => t.version # 0)

(* Types of the server's, the directory's and the processes' state.           *)
TypeOK ==
  /\ live \subseteq contents /\ contents \subseteq Hash /\ lost \subseteq Hash
  /\ Latest \in 0 .. MaxVersion /\ cached \in [1 .. Latest -> SUBSET Hash]
  /\ objects \in [Hash -> Directory] /\ tmp \in [Hash -> Directory]
  /\ lock \in BOOLEAN
  /\ versions \subseteq 1 .. Latest
  /\ proc \in [Proc -> Process]
  /\ \A p \in Proc : VersionOK(proc[p])
  /\ faults \in 0 .. MaxFaults

(* Whatever version the directory has, it has all its packs with all their    *)
(* files, except those that were collected before they were fetched: the      *)
(* server sends only their hashes, and the rebuild links them                 *)
(* (TestRebuildWithCache).                                                    *)
CacheComplete == \A v \in versions : \A h \in cached[v] \ lost : objects[h] = Part

=============================================================================
