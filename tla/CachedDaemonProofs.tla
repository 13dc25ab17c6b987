------------------------- MODULE CachedDaemonProofs -------------------------
(* The cache directory and the volumes, for any number of daemons, packs,     *)
(* volumes and failures: where one daemon at a time prepares the directory,   *)
(* what its file "versions" names and what a volume was published with is     *)
(* there.                                                                     *)
EXTENDS CachedDaemon, FiniteSetTheorems, TLAPS

(* A process has taken no version before the server answers, and no pack but  *)
(* while it fetches.                                                          *)
ProcOK(t) ==
  /\ t.pc \in {"idle", "lock", "ask"} => t = [Idle EXCEPT !.pc = t.pc]
  /\ t.pc # "fetch" => t.todo = {} /\ t.writing = {}

Calm == \A p \in Proc : ProcOK(proc[p])

(* What a process knows about its fetch, as long as no other one empties the  *)
(* temporary directory.                                                       *)
ProcInv(p) ==
  LET t == proc[p]
  IN  /\ \A r \in t.writing :
           /\ tmp[r.hash] # None /\ Part \ r.left \subseteq tmp[r.hash]
           /\ r.hash \notin t.todo
           /\ \A s \in t.writing : s.hash = r.hash => s = r
      /\ t.pc = "fetch" /\ ~t.failed =>
           \A h \in cached[t.version] \ lost :
             h \in t.todo \/ objects[h] = Part \/ \E r \in t.writing : r.hash = h

(* A pack is in the directory whole or not at all, and the server still has   *)
(* those of a cache version that were never collected.                        *)
StagingInv ==
  /\ \A v \in DOMAIN cached : cached[v] \ lost \subseteq contents
  /\ \A h \in Hash : objects[h] \in {None, Part}
  /\ CacheComplete

FetchInv == StagingInv /\ \A p \in Proc : ProcInv(p)

(* One daemon at a time prepares the directory or may serve.                  *)
Active(p) == daemon[p].state \in {"prepare", "ready", "serving"}

OneActive == \A p, q \in Proc : Active(p) /\ Active(q) => p = q

(* A volume that is published is whole.                                       *)
Whole(v) ==
  v.published =>
    /\ v.promised # {} => v.versions
    /\ \A i \in v.promised : \A h \in cached[i] \ lost : {h} \X Part \subseteq v.files

(* What the call c has still to do for the volume v.                          *)
CallInv(v, c) ==
  /\ c.pc = "none" <=> c = NoCall
  /\ c.pc # "none" => ~v.published
  /\ c.pc = "link" =>
       /\ v.promised # {} => v.versions
       /\ \A i \in v.promised : \A h \in cached[i] \ lost : {h} \X Part \subseteq v.files \cup c.todo

VolumesInv == \A d \in Target : Whole(volume[d]) /\ CallInv(volume[d], call[d])

StageInv == FetchInv /\ OneActive /\ VolumesInv

-----------------------------------------------------------------------------
(* Types.                                                                     *)

LEMMA EmptyType == Empty \in [Hash -> Directory]
  BY DEF Empty, Directory

LEMMA InitType == Init => TypeOK
<1> SUFFICES ASSUME Init PROVE TypeOK
  OBVIOUS
<1>1. Latest = 0
  BY FS_EmptySet DEF Init, Latest
<1>2. Idle \in Process /\ VersionOK(Idle)
  BY <1>1 DEF Idle, Process, VersionOK
<1>3. cached \in [1 .. 0 -> SUBSET Hash]
  BY DEF Init
<1>4. TypeOK
  <2>1. lock \in BOOLEAN
    BY DEF Init
  <2>2. proc \in [Proc -> Process] /\ \A p \in Proc : VersionOK(proc[p])
    BY <1>2 DEF Init
  <2> QED
    BY <1>1, <1>3, <2>1, <2>2, EmptyType, CacheAssumption DEF Init, TypeOK
<1> QED
  BY <1>4

LEMMA MishapType ==
  ASSUME NEW kind, faults \in 0 .. MaxFaults, Mishap(kind)
  PROVE  faults' \in 0 .. MaxFaults
  BY CacheAssumption DEF Mishap

(* A version is added after the others.                                       *)
LEMMA CreateType ==
  ASSUME TypeOK, NEW S \in SUBSET live, CreateCache(S)
  PROVE  TypeOK' /\ Latest' = Latest + 1 /\ \A v \in 1 .. Latest : cached'[v] = cached[v]
<1>1. Latest \in Nat /\ Latest + 1 \in 0 .. MaxVersion
  BY CacheAssumption DEF TypeOK, CreateCache
<1> DEFINE n == Latest + 1
<1>2. cached' = [v \in 1 .. n |-> IF v = n THEN S ELSE cached[v]]
  BY DEF CreateCache
<1>3. DOMAIN cached' = 1 .. n
  BY <1>2
<1>4. Latest' = n
  BY <1>1, <1>3, FS_Interval DEF Latest
<1>5. cached' \in [1 .. n -> SUBSET Hash]
  BY <1>1, <1>2 DEF TypeOK
<1>6. \A v \in 1 .. Latest : cached'[v] = cached[v]
  BY <1>1, <1>2
<1>7. versions' \in SUBSET (1 .. n) /\ \A p \in Proc : VersionOK(proc[p])'
  BY <1>1, <1>4 DEF TypeOK, CreateCache, Process, VersionOK
<1> QED
  BY <1>1, <1>4, <1>5, <1>6, <1>7 DEF TypeOK, CreateCache

LEMMA ServerType ==
  ASSUME TypeOK, NEW h \in Hash, Store(h) \/ Retire(h) \/ GcContents(h)
  PROVE  TypeOK' /\ Latest' = Latest
<1>1. cached' = cached /\ Latest' = Latest
  BY DEF Store, Retire, GcContents, Latest
<1>2. live' \subseteq contents' /\ contents' \subseteq Hash /\ lost' \subseteq Hash
  BY DEF TypeOK, Store, Retire, GcContents
<1>3. UNCHANGED <<objects, tmp, lock, versions, proc, faults>>
  BY DEF Store, Retire, GcContents
<1> QED
  BY <1>1, <1>2, <1>3 DEF TypeOK, VersionOK

(* A process changes, and the directory.                                      *)
LEMMA ProcType ==
  ASSUME TypeOK, UNCHANGED server,
         objects' \in [Hash -> Directory], tmp' \in [Hash -> Directory],
         lock' \in BOOLEAN, versions' \subseteq 1 .. Latest, faults' \in 0 .. MaxFaults,
         NEW p, NEW n \in Process, VersionOK(n), proc' = [proc EXCEPT ![p] = n]
  PROVE  TypeOK'
<1>1. cached' = cached /\ Latest' = Latest
  BY DEF server, Latest
<1> QED
  BY <1>1 DEF TypeOK, VersionOK, server

LEMMA IdleType ==
  ASSUME TypeOK
  PROVE  Idle \in Process /\ VersionOK(Idle)
  BY DEF Idle, Process, VersionOK, TypeOK

LEMMA FetchType ==
  ASSUME TypeOK, NEW p \in Proc, Start(p) \/ GetCache(p) \/ BreakStream(p) \/ Crash(p)
  PROVE  TypeOK'
<1> DEFINE t == proc[p]
<1>0. t \in Process /\ VersionOK(t) /\ Latest \in Nat /\ proc \in [Proc -> Process]
  BY DEF TypeOK
<1>1. CASE Start(p)
  <2> DEFINE n == [t EXCEPT !.pc = "lock"]
  <2>1. n \in Process /\ VersionOK(n)
    BY <1>0 DEF Process, VersionOK
  <2>2. proc' = [proc EXCEPT ![p] = n] /\ tmp' = Empty
    BY <1>0, <1>1 DEF Start, Goto
  <2> QED
    BY <1>1, <2>1, <2>2, EmptyType, ProcType DEF Start, TypeOK
<1>2. CASE ObtainLock(p)
  <2>1. PICK x \in {"idle", "ask"} :
          /\ proc' = [proc EXCEPT ![p] = [t EXCEPT !.pc = x]]
          /\ tmp' \in [Hash -> Directory] /\ lock' \in BOOLEAN
    BY <1>0, <1>2, EmptyType DEF ObtainLock, Goto, TypeOK
  <2> DEFINE n == [t EXCEPT !.pc = x]
  <2>2. n \in Process /\ VersionOK(n)
    BY <1>0 DEF Process, VersionOK
  <2> QED
    BY <1>2, <2>1, <2>2, ProcType DEF ObtainLock, TypeOK
<1>3. CASE Ask(p)
  <2>1. PICK n \in Process : VersionOK(n) /\ proc' = [proc EXCEPT ![p] = n]
    <3>1. CacheTars \in SUBSET Hash
      BY DEF CacheTars, TypeOK
    <3>2. CASE Goto(p, "unlock")
      BY <1>0, <3>2 DEF Goto, Process, VersionOK
    <3>3. CASE proc' = [proc EXCEPT ![p] =
                          [t EXCEPT !.pc = IF Responses.tars = {} THEN "unlock" ELSE "fetch",
                                    !.version = Responses.version, !.todo = Responses.tars]]
      <4> DEFINE n == [t EXCEPT !.pc = IF CacheTars = {} THEN "unlock" ELSE "fetch",
                                !.version = Latest, !.todo = CacheTars]
      <4>1. proc' = [proc EXCEPT ![p] = n]
        BY <3>3 DEF Responses
      <4>2. n \in Process
        BY <1>0, <3>1 DEF Process
      <4>3. VersionOK(n)
        BY <1>0 DEF Process, VersionOK, CacheTars
      <4> QED
        BY <4>1, <4>2, <4>3
    <3> QED
      BY <1>3, <3>2, <3>3 DEF Ask
  <2>2. faults' \in 0 .. MaxFaults
    BY <1>3, MishapType DEF Ask, TypeOK
  <2> QED
    BY <1>3, <2>1, <2>2, ProcType DEF Ask, TypeOK
<1>4. ASSUME NEW h \in t.todo, TakePack(p, h)
      PROVE  TypeOK'
  <2>0. h \in Hash
    BY <1>0 DEF Process, VersionOK
  <2>1. PICK n \in Process : VersionOK(n) /\ proc' = [proc EXCEPT ![p] = n]
    <3>1. [hash |-> h, left |-> Part] \in [hash : Hash, left : SUBSET Part]
      BY <2>0
    <3>2. CASE objects[h] # None
      BY <1>0, <1>4, <3>2 DEF TakePack, Process, VersionOK
    <3>3. CASE objects[h] = None
      BY <1>0, <1>4, <3>1, <3>3 DEF TakePack, Process, VersionOK
    <3> QED
      BY <3>2, <3>3
  <2>2. tmp' \in [Hash -> Directory]
    BY <1>4 DEF TakePack, TypeOK, Directory
  <2> QED
    BY <1>4, <2>1, <2>2, ProcType DEF TakePack, TypeOK
<1>5. ASSUME NEW r \in t.writing, proc' = Failed(p, r)
      PROVE  \E n \in Process : VersionOK(n) /\ proc' = [proc EXCEPT ![p] = n]
  BY <1>0, <1>5 DEF Failed, Process, VersionOK
<1>6. ASSUME NEW r \in t.writing, NEW k \in r.left, WritePart(p, r, k)
      PROVE  TypeOK'
  <2>0. r \in [hash : Hash, left : SUBSET Part] /\ k \in Part
    BY <1>0 DEF Process, VersionOK
  <2>1. PICK n \in Process : VersionOK(n) /\ proc' = [proc EXCEPT ![p] = n]
    <3>1. [r EXCEPT !.left = @ \ {k}] \in [hash : Hash, left : SUBSET Part]
      BY <2>0
    <3>2. CASE proc' = [proc EXCEPT ![p].writing =
                          (@ \ {r}) \cup {[r EXCEPT !.left = @ \ {k}]}]
      BY <1>0, <3>1, <3>2 DEF Process, VersionOK
    <3> QED
      BY <1>5, <1>6, <3>2 DEF WritePart
  <2>2. tmp' \in [Hash -> Directory]
    <3>1. tmp' = tmp \/ tmp' = [tmp EXCEPT ![r.hash] = (IF @ = None THEN {} ELSE @) \cup {k}]
      BY <1>6 DEF WritePart
    <3> QED
      BY <2>0, <3>1 DEF TypeOK, Directory
  <2>3. faults' \in 0 .. MaxFaults
    BY <1>6, MishapType DEF WritePart, TypeOK
  <2> QED
    BY <1>6, <2>1, <2>2, <2>3, ProcType DEF WritePart, TypeOK
<1>7. ASSUME NEW r \in t.writing, MovePack(p, r)
      PROVE  TypeOK'
  <2>0. r.hash \in Hash
    BY <1>0 DEF Process, VersionOK
  <2>1. PICK n \in Process : VersionOK(n) /\ proc' = [proc EXCEPT ![p] = n]
    <3>1. CASE proc' = [proc EXCEPT ![p].writing = @ \ {r}]
      BY <1>0, <3>1 DEF Process, VersionOK
    <3> QED
      BY <1>5, <1>7, <3>1 DEF MovePack
  <2>2. /\ objects' \in [Hash -> Directory]
        /\ tmp' \in [Hash -> Directory]
    BY <1>7, <2>0 DEF MovePack, TypeOK, Directory
  <2> QED
    BY <1>7, <2>1, <2>2, ProcType DEF MovePack, TypeOK
<1>8. CASE AppendVersion(p)
  <2> DEFINE n == [t EXCEPT !.pc = "unlock"]
  <2>1. n \in Process /\ VersionOK(n)
    BY <1>0 DEF Process, VersionOK
  <2>2. proc' = [proc EXCEPT ![p] = n]
    BY <1>0, <1>8 DEF AppendVersion, Goto
  <2>3. versions' \subseteq 1 .. Latest
    <3>1. t.version \in 1 .. Latest
      BY <1>0, <1>8 DEF AppendVersion, VersionOK, Process
    <3> QED
      BY <1>8, <3>1 DEF AppendVersion, TypeOK
  <2> QED
    <3>1. faults' \in 0 .. MaxFaults
      BY <1>8, MishapType DEF AppendVersion, TypeOK
    <3> QED
      BY <1>8, <2>1, <2>2, <2>3, <3>1, ProcType DEF AppendVersion, TypeOK
<1>9. CASE Unlock(p)
  <2> DEFINE n == [t EXCEPT !.pc = "sweep"]
  <2>1. n \in Process /\ VersionOK(n)
    BY <1>0 DEF Process, VersionOK
  <2>2. proc' = [proc EXCEPT ![p] = n] /\ lock' \in BOOLEAN
    BY <1>0, <1>9 DEF Unlock, Goto
  <2> QED
    BY <1>9, <2>1, <2>2, ProcType DEF Unlock, TypeOK
<1>10. CASE Sweep(p)
  BY <1>0, <1>10, EmptyType, IdleType, ProcType DEF Sweep, TypeOK
<1>11. CASE BreakStream(p) \/ Crash(p)
  BY <1>0, <1>11, MishapType, IdleType, ProcType DEF BreakStream, Crash, TypeOK
<1> QED
  BY <1>1, <1>2, <1>3, <1>4, <1>6, <1>7, <1>8, <1>9, <1>10, <1>11 DEF GetCache

FetchSteps(p) == Start(p) \/ GetCache(p) \/ BreakStream(p) \/ Crash(p)

LEMMA FetchOK ==
  ASSUME TypeOK, NEW p \in Proc, ProcOK(proc[p]), FetchSteps(p)
  PROVE  ProcOK(proc'[p]) /\ \A q \in Proc \ {p} : proc'[q] = proc[q]
<1> DEFINE t == proc[p]
<1>0. t \in Process /\ proc \in [Proc -> Process]
  BY DEF TypeOK
<1>1. CASE Start(p)
  BY <1>0, <1>1 DEF Start, Goto, Idle, ProcOK
<1>2. CASE ObtainLock(p)
  BY <1>0, <1>2 DEF ObtainLock, Goto, Idle, ProcOK
<1>3. CASE Ask(p)
  <2>1. t.writing = {} /\ t.todo = {}
    BY <1>3 DEF Ask, ProcOK
  <2>2. CASE Goto(p, "unlock")
    BY <1>0, <2>1, <2>2 DEF Goto, ProcOK, Process
  <2>3. CASE proc' = [proc EXCEPT ![p] =
                        [t EXCEPT !.pc = IF Responses.tars = {} THEN "unlock" ELSE "fetch",
                                  !.version = Responses.version, !.todo = Responses.tars]]
    BY <1>0, <2>1, <2>3 DEF ProcOK, Process
  <2> QED
    BY <1>3, <2>2, <2>3 DEF Ask
<1>4. ASSUME NEW h \in t.todo, TakePack(p, h)
      PROVE  ProcOK(proc'[p]) /\ \A q \in Proc \ {p} : proc'[q] = proc[q]
  <2>1. proc'[p].pc = "fetch" /\ \A q \in Proc \ {p} : proc'[q] = proc[q]
    BY <1>0, <1>4 DEF TakePack, Process
  <2> QED
    BY <2>1 DEF ProcOK
<1>5. ASSUME NEW r \in t.writing,
             (\E k \in r.left : WritePart(p, r, k)) \/ MovePack(p, r)
      PROVE  ProcOK(proc'[p]) /\ \A q \in Proc \ {p} : proc'[q] = proc[q]
  <2>1. t.pc = "fetch"
    BY DEF ProcOK
  <2>2. proc'[p].pc = t.pc /\ \A q \in Proc \ {p} : proc'[q] = proc[q]
    BY <1>0, <1>5 DEF WritePart, MovePack, Failed, Process
  <2> QED
    BY <2>1, <2>2 DEF ProcOK
<1>6. CASE AppendVersion(p) \/ Unlock(p)
  BY <1>0, <1>6 DEF AppendVersion, Unlock, Goto, ProcOK, Process
<1>7. CASE Sweep(p) \/ BreakStream(p) \/ Crash(p)
  <2>1. proc' = [proc EXCEPT ![p] = Idle]
    BY <1>7 DEF Sweep, BreakStream, Crash
  <2> QED
    BY <1>0, <2>1 DEF ProcOK, Idle
<1> QED
  BY <1>1, <1>2, <1>3, <1>4, <1>5, <1>6, <1>7 DEF FetchSteps, GetCache

(* What a daemon knows after a step of GetCache.                              *)
LEMMA PrepareStep ==
  ASSUME TypeOK, NEW p \in Proc, ProcOK(proc[p]), daemon \in [Proc -> Daemon], GetCache(p)
  PROVE  /\ proc[p] # Idle
         /\ versions \subseteq versions'
         /\ \/ Prepared(p) = daemon[p]
            \/ Prepared(p) = [daemon[p] EXCEPT !.current = -1]
            \/ /\ Prepared(p) = [daemon[p] EXCEPT !.current = proc[p].version]
               /\ proc[p].version \in versions'
            \/ /\ Prepared(p) \in {Down, [daemon[p] EXCEPT !.state = "ready"]}
               /\ proc'[p] = Idle
<1> DEFINE t == proc[p]
<1>0. t \in Process /\ proc \in [Proc -> Process]
  BY DEF TypeOK
<1>1. t # Idle
  <2>1. t.pc # "idle" \/ t.todo # {} \/ t.writing # {}
    BY DEF GetCache, ObtainLock, Ask, TakePack, WritePart, MovePack, AppendVersion, Unlock, Sweep
  <2> QED
    BY <2>1 DEF Idle
<1>2. versions \subseteq versions'
  BY DEF GetCache, ObtainLock, Ask, TakePack, WritePart, MovePack, AppendVersion, Unlock, Sweep
<1>3. CASE t.pc = "lock" /\ lock
  <2>1. t = [Idle EXCEPT !.pc = "lock"]
    BY <1>3 DEF ProcOK
  <2>2. t.todo = {} /\ t.writing = {}
    BY <1>3 DEF ProcOK
  <2>3. ObtainLock(p)
    BY <1>3, <2>2 DEF GetCache, Ask, AppendVersion, Unlock, Sweep
  <2>4. proc'[p] = Idle
    <3>1. proc'[p] = [t EXCEPT !.pc = "idle"]
      BY <1>0, <1>3, <2>3 DEF ObtainLock, Goto
    <3> QED
      BY <2>1, <3>1 DEF Idle
  <2>5. Prepared(p) = Down
    BY <1>3 DEF Prepared
  <2> QED
    BY <1>1, <1>2, <2>4, <2>5
<1>4. CASE t.pc = "sweep"
  <2>1. t.todo = {} /\ t.writing = {}
    BY <1>4 DEF ProcOK
  <2>2. Sweep(p)
    BY <1>4, <2>1 DEF GetCache, ObtainLock, Ask, AppendVersion, Unlock
  <2>3. proc'[p] = Idle
    BY <1>0, <2>2 DEF Sweep
  <2>4. Prepared(p) \in {Down, [daemon[p] EXCEPT !.state = "ready"]}
    BY <1>4 DEF Prepared
  <2> QED
    BY <1>1, <1>2, <2>3, <2>4
<1>5. CASE t.pc = "fetch" /\ proc'[p].pc = "unlock" /\ ~t.failed /\ faults' = faults
  <2>1. AppendVersion(p)
    <3>1. ASSUME NEW h \in t.todo, TakePack(p, h)
          PROVE  proc'[p].pc = "fetch"
      BY <1>0, <1>5, <3>1 DEF TakePack, Process
    <3>2. ASSUME NEW r \in t.writing,
                 (\E k \in r.left : WritePart(p, r, k)) \/ MovePack(p, r)
          PROVE  proc'[p].pc = "fetch"
      BY <1>0, <1>5, <3>2 DEF WritePart, MovePack, Failed, Process
    <3> QED
      BY <1>5, <3>1, <3>2 DEF GetCache, ObtainLock, Ask, Unlock, Sweep
  <2>2. t.version \in versions'
    <3>1. ~Mishap("write")
      BY <1>5 DEF Mishap, TypeOK
    <3> QED
      BY <1>5, <2>1, <3>1 DEF AppendVersion
  <2>3. Prepared(p) = [daemon[p] EXCEPT !.current = t.version]
    BY <1>5 DEF Prepared
  <2> QED
    BY <1>1, <1>2, <2>2, <2>3
<1>6. CASE t.pc = "ask" /\ CacheTars = {} /\ faults' = faults
  <2>1. Prepared(p) = [daemon[p] EXCEPT !.current = -1]
    BY <1>6 DEF Prepared
  <2> QED
    BY <1>1, <1>2, <2>1
<1>7. CASE /\ ~(t.pc = "lock" /\ lock) /\ t.pc # "sweep"
           /\ ~(t.pc = "fetch" /\ proc'[p].pc = "unlock" /\ ~t.failed /\ faults' = faults)
           /\ ~(t.pc = "ask" /\ CacheTars = {} /\ faults' = faults)
  <2>1. Prepared(p) = daemon[p]
    BY <1>7 DEF Prepared
  <2> QED
    BY <1>1, <1>2, <2>1
<1> QED
  BY <1>3, <1>4, <1>5, <1>6, <1>7

LEMMA SameType ==
  ASSUME TypeOK, UNCHANGED <<server, fetchState>>, faults' \in 0 .. MaxFaults
  PROVE  TypeOK'
<1>1. Latest' = Latest
  BY DEF Latest, server
<1> QED
  BY <1>1 DEF TypeOK, VersionOK, server, fetchState

(* A daemon p becomes m.                                                      *)
LEMMA DaemonChange ==
  ASSUME DaemonTypeOK, TypeOK', NEW p \in Proc, NEW m \in Daemon,
         daemon' = [daemon EXCEPT ![p] = m],
         versions \subseteq versions', m.current \in {-1, 0} \cup versions',
         proc'[p] # Idle => m.state = "prepare",
         \A q \in Proc \ {p} : proc'[q] = proc[q],
         socket' \in Proc \cup {None}, volume' = volume, call' \in [Target -> Call],
         \A d \in Target :
           call'[d].by # None =>
             call'[d].by = call[d].by /\ (call[d].by = p => m.state \in {"serving", "stopping"})
  PROVE  DaemonTypeOK'
  BY DEF DaemonTypeOK

(* The calls of a daemon that does not serve.                                 *)
LEMMA NoCalls ==
  ASSUME DaemonTypeOK, NEW p \in Proc, daemon[p].state \notin {"serving", "stopping"}
  PROVE  \A d \in Target : call[d].by # p
  BY CacheAssumption DEF DaemonTypeOK

LEMMA DownType == Down \in Daemon /\ Down.state = "down" /\ Down.current = 0
  BY DEF Down, Daemon

LEMMA NoCallType == NoCall \in Call /\ NoCall.by = None
  BY DEF NoCall, Call

LEMMA DaemonProcStep ==
  ASSUME DaemonTypeOK, Calm, NEW p \in Proc,
         Run(p) \/ Prepare(p) \/ Serve(p) \/ GracefulStop(p) \/ Exit(p) \/ Kill(p) \/ KillFetch(p)
  PROVE  DaemonTypeOK' /\ Calm'
<1> DEFINE t == daemon[p]
<1>0. /\ TypeOK /\ ProcOK(proc[p]) /\ daemon \in [Proc -> Daemon] /\ call \in [Target -> Call]
      /\ t \in Daemon /\ t.current \in {-1, 0} \cup versions /\ socket \in Proc \cup {None}
      /\ proc[p] # Idle => t.state = "prepare"
  BY DEF DaemonTypeOK, Calm
<1>1. ASSUME FetchSteps(p)
      PROVE  TypeOK' /\ Calm' /\ \A q \in Proc \ {p} : proc'[q] = proc[q]
  <2>1. TypeOK'
    BY <1>0, <1>1, FetchType DEF FetchSteps
  <2>2. ProcOK(proc'[p]) /\ \A q \in Proc \ {p} : proc'[q] = proc[q]
    BY <1>0, <1>1, FetchOK
  <2>3. \A q \in Proc : ProcOK(proc'[q])
    BY <2>2 DEF Calm
  <2> QED
    BY <2>1, <2>2, <2>3 DEF Calm, ProcOK
<1>2. ASSUME UNCHANGED <<server, fetchState>>, faults' \in 0 .. MaxFaults
      PROVE  TypeOK' /\ Calm' /\ proc' = proc /\ versions' = versions
  BY <1>0, <1>2, SameType DEF fetchState, Calm, ProcOK
<1>3. CASE Run(p)
  <2> DEFINE m == [t EXCEPT !.state = "prepare"]
  <2>1. TypeOK' /\ Calm' /\ \A q \in Proc \ {p} : proc'[q] = proc[q]
    BY <1>1, <1>3 DEF Run, FetchSteps
  <2>2. m \in Daemon /\ m.current = t.current /\ m.state = "prepare"
    BY <1>0 DEF Daemon
  <2>3. /\ daemon' = [daemon EXCEPT ![p] = m] /\ versions' = versions
        /\ socket' = socket /\ volume' = volume /\ call' = call
    BY <1>0, <1>3 DEF Run, Start
  <2>4. \A d \in Target : call[d].by # p
    BY <1>3, DownType, NoCalls DEF Run
  <2> HIDE DEF m
  <2>5. DaemonTypeOK'
    BY <1>0, <2>1, <2>2, <2>3, <2>4, DaemonChange
  <2> QED
    BY <2>1, <2>5
<1>4. CASE Prepare(p)
  <2> DEFINE m == Prepared(p)
  <2>1. TypeOK' /\ Calm' /\ \A q \in Proc \ {p} : proc'[q] = proc[q]
    BY <1>1, <1>4 DEF Prepare, FetchSteps
  <2>2. /\ proc[p] # Idle
        /\ versions \subseteq versions'
        /\ \/ m = t
           \/ m = [t EXCEPT !.current = -1]
           \/ m = [t EXCEPT !.current = proc[p].version] /\ proc[p].version \in versions'
           \/ m \in {Down, [t EXCEPT !.state = "ready"]} /\ proc'[p] = Idle
    BY <1>0, <1>4, PrepareStep DEF Prepare
  <2>3. daemon' = [daemon EXCEPT ![p] = m] /\ socket' = socket /\ volume' = volume /\ call' = call
    BY <1>4 DEF Prepare
  <2>4. t.state = "prepare" /\ \A d \in Target : call[d].by # p
    BY <1>0, <2>2, NoCalls
  <2> HIDE DEF m
  <2>5. m \in Daemon /\ m.current \in {-1, 0} \cup versions'
    <3>1. proc[p].version \in Int
      BY <1>0 DEF TypeOK, Process
    <3> QED
      BY <1>0, <2>2, <3>1, DownType DEF Daemon
  <2>6. proc'[p] # Idle => m.state = "prepare"
    BY <1>0, <2>2, <2>4 DEF Daemon
  <2>7. DaemonTypeOK'
    BY <1>0, <2>1, <2>2, <2>3, <2>4, <2>5, <2>6, DaemonChange
  <2> QED
    BY <2>1, <2>7
<1>5. CASE Serve(p) \/ GracefulStop(p)
  <2>1. PICK m : /\ m \in {[t EXCEPT !.state = "serving"], [t EXCEPT !.state = "stopping"]}
                 /\ daemon' = [daemon EXCEPT ![p] = m]
                 /\ socket' \in Proc \cup {None} /\ volume' = volume /\ call' = call
                 /\ t.state \in {"ready", "serving"}
    BY <1>0, <1>5 DEF Serve, GracefulStop
  <2>2. UNCHANGED <<server, fetchState>> /\ faults' \in 0 .. MaxFaults
    BY <1>0, <1>5, MishapType DEF Serve, GracefulStop, vars, fetchState, TypeOK
  <2>3. TypeOK' /\ Calm' /\ proc' = proc /\ versions' = versions
    BY <1>2, <2>2
  <2>4. m \in Daemon /\ m.state \in {"serving", "stopping"} /\ m.current = t.current
    BY <1>0, <2>1 DEF Daemon
  <2>5. proc[p] = Idle
    BY <1>0, <2>1
  <2>6. DaemonTypeOK'
    BY <1>0, <2>1, <2>3, <2>4, <2>5, DaemonChange
  <2> QED
    BY <2>3, <2>6
<1>6. CASE Exit(p) \/ Kill(p)
  <2>1. /\ daemon' = [daemon EXCEPT ![p] = Down] /\ t.state # "prepare"
        /\ socket' = socket /\ volume' = volume
    BY <1>6 DEF Exit, Kill
  <2>2. UNCHANGED <<server, fetchState>> /\ faults' \in 0 .. MaxFaults
    BY <1>0, <1>6, MishapType DEF Exit, Kill, vars, fetchState, TypeOK
  <2>3. TypeOK' /\ Calm' /\ proc' = proc /\ versions' = versions
    BY <1>2, <2>2
  <2>4. /\ call' \in [Target -> Call]
        /\ \A d \in Target : call'[d].by # None => call'[d].by = call[d].by /\ call[d].by # p
    <3>1. CASE Exit(p)
      BY <1>0, <3>1 DEF Exit
    <3>2. CASE Kill(p)
      BY <1>0, <3>2, NoCallType DEF Kill
    <3> QED
      BY <1>6, <3>1, <3>2
  <2>5. proc[p] = Idle
    BY <1>0, <2>1
  <2>6. DaemonTypeOK'
    BY <1>0, <2>1, <2>3, <2>4, <2>5, DownType, DaemonChange
  <2> QED
    BY <2>3, <2>6
<1>7. CASE KillFetch(p)
  <2>1. TypeOK' /\ Calm' /\ \A q \in Proc \ {p} : proc'[q] = proc[q]
    BY <1>1, <1>7 DEF KillFetch, FetchSteps
  <2>2. proc'[p] = Idle /\ proc[p] # Idle /\ versions' = versions
    <3>1. CASE Crash(p)
      BY <1>0, <3>1 DEF Crash, TypeOK
    <3>2. CASE BreakStream(p)
      BY <1>0, <3>2 DEF BreakStream, TypeOK, Idle
    <3> QED
      BY <1>7, <3>1, <3>2 DEF KillFetch
  <2>3. /\ daemon' = [daemon EXCEPT ![p] = Down]
        /\ socket' = socket /\ volume' = volume /\ call' = call
    BY <1>7 DEF KillFetch
  <2>4. \A d \in Target : call[d].by # p
    BY <1>0, <2>2, NoCalls
  <2>5. DaemonTypeOK'
    BY <1>0, <2>1, <2>2, <2>3, <2>4, DownType, DaemonChange
  <2> QED
    BY <2>1, <2>5
<1> QED
  BY <1>3, <1>4, <1>5, <1>6, <1>7

(* A step of a call, for the volume d.                                        *)
CallStep(d) ==
  \/ Publish(d) \/ HardlinkDir(d) \/ LinkFails(d)
  \/ \E p \in Proc : writeCacheFails(d, p) \/ NodeUnpublishVolume(d, p)

(* The packs that a walk finds.                                               *)
Found == {f \in Hash \X Part : objects[f[1]] # None /\ f[2] \in objects[f[1]]}

(* How a step changes the volume from v to w, and the call from c to e.       *)
CallChange(v, c, w, e) ==
  \/ /\ c = NoCall /\ w = [NoVolume EXCEPT !.promised = versions]
     /\ \E p \in Proc : e = [NoCall EXCEPT !.pc = "walk", !.by = p] /\ daemon[p].state = "serving"
  \/ /\ c.pc = "walk" /\ w = [v EXCEPT !.versions = (versions # {})]
     /\ \E T \in SUBSET (Hash \cup {".lock"}) :
          e = [c EXCEPT !.pc = "link", !.todo = Found, !.temporary = T]
  \/ \E f \in c.todo : w = [v EXCEPT !.files = v.files \cup {f}] /\ e = [c EXCEPT !.todo = c.todo \ {f}]
  \/ \E x : w = v /\ x \in c.temporary /\ e = [c EXCEPT !.temporary = c.temporary \ {x}]
  \/ w = v /\ e = NoCall
  \/ c.pc = "link" /\ c.todo = {} /\ w = [v EXCEPT !.published = TRUE] /\ e = NoCall
  \/ c = NoCall /\ w = NoVolume /\ e = NoCall
  \/ c = NoCall /\ w = [v EXCEPT !.published = FALSE] /\ e = NoCall

LEMMA CallChanges ==
  ASSUME DaemonTypeOK, NEW d \in Target, CallStep(d)
  PROVE  /\ UNCHANGED <<server, fetchState, daemon, socket>> /\ faults' \in 0 .. MaxFaults
         /\ \E w, e : /\ volume' = [volume EXCEPT ![d] = w] /\ call' = [call EXCEPT ![d] = e]
                      /\ CallChange(volume[d], call[d], w, e)
<1> DEFINE v == volume[d]
           c == call[d]
           Goal == \E w, e : /\ volume' = [volume EXCEPT ![d] = w] /\ call' = [call EXCEPT ![d] = e]
                             /\ CallChange(v, c, w, e)
<1>0. /\ volume \in [Target -> Volume] /\ call \in [Target -> Call]
      /\ v \in Volume /\ c \in Call /\ faults \in 0 .. MaxFaults
  BY DEF DaemonTypeOK, TypeOK
<1>1. UNCHANGED <<server, fetchState, daemon, socket>> /\ faults' \in 0 .. MaxFaults
  <2>1. CASE LinkFails(d) \/ \E p \in Proc : writeCacheFails(d, p)
    BY <1>0, <2>1, MishapType DEF LinkFails, writeCacheFails, fetchState
  <2>2. CASE UNCHANGED <<vars, daemon, socket>>
    BY <1>0, <2>2 DEF vars, fetchState
  <2> QED
    BY <2>1, <2>2 DEF CallStep, Publish, NodePublishVolume, PopulateDiskCache, writeCache,
         HardlinkDir, Walk, Link, LinkTemporary, Answer, NodeUnpublishVolume
<1>2. ASSUME NEW p \in Proc, writeCache(d, p)
      PROVE  Goal
  <2> DEFINE w == [NoVolume EXCEPT !.promised = versions]
             e == [NoCall EXCEPT !.pc = "walk", !.by = p]
  <2>1. volume' = [volume EXCEPT ![d] = w] /\ call' = [call EXCEPT ![d] = e]
    BY <1>2 DEF writeCache
  <2>2. c = NoCall /\ daemon[p].state = "serving"
    BY <1>2 DEF writeCache, Answers
  <2>3. CallChange(v, c, w, e)
    BY <2>2 DEF CallChange
  <2> QED
    BY <2>1, <2>3
<1>3. ASSUME Walk(d)
      PROVE  Goal
  <2> DEFINE T == {h \in Hash : tmp[h] # None} \cup IF lock THEN {".lock"} ELSE {}
             w == [v EXCEPT !.versions = (versions # {})]
             e == [c EXCEPT !.pc = "link", !.todo = Found, !.temporary = T]
  <2>1. volume' = [volume EXCEPT ![d] = w]
    BY <1>3 DEF Walk
  <2>2. call' = [call EXCEPT ![d] = e]
    BY <1>0, <1>3 DEF Walk, Found, Call
  <2>3. T \in SUBSET (Hash \cup {".lock"})
    OBVIOUS
  <2> HIDE DEF T
  <2>4. CallChange(v, c, w, e)
    BY <1>3, <2>3 DEF CallChange, Walk
  <2> QED
    BY <2>1, <2>2, <2>4
<1>4. ASSUME NEW f \in c.todo, Link(d, f)
      PROVE  Goal
  <2> DEFINE w == [v EXCEPT !.files = v.files \cup {f}]
             e == [c EXCEPT !.todo = c.todo \ {f}]
  <2>1. volume' = [volume EXCEPT ![d] = w] /\ call' = [call EXCEPT ![d] = e]
    BY <1>4 DEF Link
  <2>2. CallChange(v, c, w, e)
    BY DEF CallChange
  <2> QED
    BY <2>1, <2>2
<1>5. ASSUME NEW e, volume' = volume, call' = [call EXCEPT ![d] = e], CallChange(v, c, v, e)
      PROVE  Goal
  <2>1. volume' = [volume EXCEPT ![d] = v]
    BY <1>0, <1>5
  <2> QED
    BY <1>5, <2>1
<1>6. ASSUME NEW x \in c.temporary, LinkTemporary(d, x)
      PROVE  Goal
  <2>1. CASE call' = [call EXCEPT ![d].temporary = @ \ {x}]
    <3> DEFINE e == [c EXCEPT !.temporary = c.temporary \ {x}]
    <3>1. call' = [call EXCEPT ![d] = e]
      BY <2>1
    <3>2. CallChange(v, c, v, e)
      BY DEF CallChange
    <3> QED
      BY <1>5, <1>6, <3>1, <3>2 DEF LinkTemporary
  <2>2. CASE call' = [call EXCEPT ![d] = NoCall]
    <3>1. CallChange(v, c, v, NoCall)
      BY DEF CallChange
    <3> QED
      BY <1>5, <1>6, <2>2, <3>1 DEF LinkTemporary
  <2> QED
    BY <1>6, <2>1, <2>2 DEF LinkTemporary
<1>7. ASSUME LinkFails(d)
      PROVE  Goal
  <2>1. CallChange(v, c, v, NoCall)
    BY DEF CallChange
  <2> QED
    BY <1>5, <1>7, <2>1 DEF LinkFails
<1>8. ASSUME Answer(d)
      PROVE  Goal
  <2> DEFINE w == [v EXCEPT !.published = TRUE]
  <2>1. volume' = [volume EXCEPT ![d] = w] /\ call' = [call EXCEPT ![d] = NoCall]
    BY <1>8 DEF Answer
  <2>2. CallChange(v, c, w, NoCall)
    BY <1>8 DEF CallChange, Answer
  <2> QED
    BY <2>1, <2>2
<1>9. ASSUME NEW p \in Proc, NodeUnpublishVolume(d, p)
      PROVE  Goal
  <2>1. volume' = [volume EXCEPT ![d] = NoVolume] /\ call' = [call EXCEPT ![d] = NoCall]
    BY <1>0, <1>9 DEF NodeUnpublishVolume
  <2>2. CallChange(v, c, NoVolume, NoCall)
    BY <1>9 DEF CallChange, NodeUnpublishVolume
  <2> QED
    BY <2>1, <2>2
<1>10. ASSUME NEW p \in Proc, writeCacheFails(d, p)
      PROVE  Goal
  <2> DEFINE w == [v EXCEPT !.published = FALSE]
  <2>1. volume' = [volume EXCEPT ![d] = w] /\ call' = [call EXCEPT ![d] = NoCall]
    BY <1>0, <1>10 DEF writeCacheFails
  <2>2. CallChange(v, c, w, NoCall)
    BY <1>10 DEF CallChange, writeCacheFails
  <2> QED
    BY <2>1, <2>2
<1> HIDE DEF Goal
<1>11. Goal
  BY <1>2, <1>3, <1>4, <1>6, <1>7, <1>8, <1>9, <1>10 DEF CallStep, Publish, NodePublishVolume,
       PopulateDiskCache, HardlinkDir
<1> QED
  BY <1>1, <1>11 DEF Goal

LEMMA CallType ==
  ASSUME versions \subseteq Nat, NEW v \in Volume, NEW c \in Call, NEW w, NEW e,
         CallChange(v, c, w, e)
  PROVE  /\ w \in Volume /\ e \in Call
         /\ w.promised \in {v.promised, versions, {}}
         /\ e.by \in {c.by, None} \/ daemon[e.by].state = "serving"
<1> USE DEF Volume, Call
<1>1. CASE /\ w = [NoVolume EXCEPT !.promised = versions]
           /\ \E p \in Proc : e = [NoCall EXCEPT !.pc = "walk", !.by = p] /\ daemon[p].state = "serving"
  BY <1>1 DEF NoVolume, NoCall
<1>2. ASSUME NEW T \in SUBSET (Hash \cup {".lock"}),
             w = [v EXCEPT !.versions = (versions # {})],
             e = [c EXCEPT !.pc = "link", !.todo = Found, !.temporary = T]
      PROVE  w \in Volume /\ e \in Call /\ w.promised = v.promised /\ e.by = c.by
  <2>1. (versions # {}) \in BOOLEAN /\ Found \in SUBSET (Hash \X Part)
    BY DEF Found
  <2> QED
    BY <1>2, <2>1
<1>3. ASSUME NEW f \in c.todo,
             w = [v EXCEPT !.files = v.files \cup {f}], e = [c EXCEPT !.todo = c.todo \ {f}]
      PROVE  w \in Volume /\ e \in Call /\ w.promised = v.promised /\ e.by = c.by
  BY <1>3
<1>4. ASSUME NEW x, w = v, e = [c EXCEPT !.temporary = c.temporary \ {x}]
      PROVE  w \in Volume /\ e \in Call /\ w.promised = v.promised /\ e.by = c.by
  BY <1>4
<1>5. CASE w \in {v, [v EXCEPT !.published = TRUE]} /\ e = NoCall
  BY <1>5 DEF NoCall
<1>6. CASE w = NoVolume /\ e = NoCall
  BY <1>6 DEF NoVolume, NoCall
<1> QED
  BY <1>1, <1>2, <1>3, <1>4, <1>5, <1>6 DEF CallChange

LEMMA DaemonTypeStep ==
  ASSUME DaemonTypeOK, Calm, [DaemonNext]_daemonVars
  PROVE  DaemonTypeOK' /\ Calm'
<1>0. TypeOK /\ versions \subseteq Nat
  BY DEF DaemonTypeOK, TypeOK
<1>1. ASSUME TypeOK', UNCHANGED <<proc, versions, daemon, socket, volume, call>>
      PROVE  DaemonTypeOK' /\ Calm'
  BY <1>1 DEF DaemonTypeOK, Calm, ProcOK
<1>2. CASE ServerStep
  <2>1. UNCHANGED <<proc, versions, daemon, socket, volume, call>>
    BY <1>2 DEF ServerStep, Store, Retire, GcContents, CreateCache
  <2>2. TypeOK'
    BY <1>0, <1>2, ServerType, CreateType DEF ServerStep
  <2> QED
    BY <1>1, <2>1, <2>2
<1>3. CASE RemoveStaleLock
  <2>1. UNCHANGED <<proc, versions, daemon, socket, volume, call>>
    BY <1>3 DEF RemoveStaleLock, RemoveLock
  <2>2. TypeOK'
    <3>1. Latest' = Latest /\ lock' \in BOOLEAN
      BY <1>3 DEF RemoveStaleLock, RemoveLock, server, Latest
    <3> QED
      BY <1>0, <1>3, <3>1 DEF RemoveStaleLock, RemoveLock, server, TypeOK, VersionOK
  <2> QED
    BY <1>1, <2>1, <2>2
<1>4. ASSUME NEW p \in Proc,
             Run(p) \/ Prepare(p) \/ Serve(p) \/ GracefulStop(p) \/ Exit(p) \/ Kill(p) \/ KillFetch(p)
      PROVE  DaemonTypeOK' /\ Calm'
  BY <1>4, DaemonProcStep
<1>5. ASSUME NEW d \in Target, CallStep(d)
      PROVE  DaemonTypeOK' /\ Calm'
  <2>1. UNCHANGED <<server, fetchState, daemon, socket>> /\ faults' \in 0 .. MaxFaults
    BY <1>5, CallChanges
  <2>2. PICK w, e : /\ volume' = [volume EXCEPT ![d] = w] /\ call' = [call EXCEPT ![d] = e]
                    /\ CallChange(volume[d], call[d], w, e)
    BY <1>5, CallChanges
  <2>3. TypeOK'
    BY <1>0, <2>1, SameType
  <2>4. /\ w \in Volume /\ e \in Call /\ w.promised \subseteq versions
        /\ e.by # None => daemon[e.by].state \in {"serving", "stopping"}
    <3>1. volume[d] \in Volume /\ call[d] \in Call
      BY DEF DaemonTypeOK
    <3> QED
      BY <1>0, <2>2, <3>1, CallType DEF DaemonTypeOK
  <2>5. UNCHANGED <<proc, versions, daemon, socket>>
    BY <2>1 DEF fetchState
  <2> QED
    BY <2>2, <2>3, <2>4, <2>5 DEF DaemonTypeOK, Calm, ProcOK
<1>6. CASE UNCHANGED daemonVars
  <2>1. TypeOK'
    <3>1. Latest' = Latest
      BY <1>6 DEF daemonVars, vars, server, Latest
    <3> QED
      BY <1>0, <1>6, <3>1 DEF daemonVars, vars, server, TypeOK, VersionOK
  <2> QED
    BY <1>1, <1>6, <2>1 DEF daemonVars, vars
<1> QED
  BY <1>2, <1>3, <1>4, <1>5, <1>6 DEF DaemonNext, CallStep

(* The types of the daemons, the volumes and the calls; a version that a      *)
(* daemon reports is one that the directory has, and a daemon that ends,      *)
(* crashes or is replaced leaves no call behind.                              *)
THEOREM DaemonTypeCorrect == DaemonSpec => []DaemonTypeOK /\ []Calm
<1>1. DaemonInit => DaemonTypeOK /\ Calm
  <2> SUFFICES ASSUME DaemonInit PROVE DaemonTypeOK /\ Calm
    OBVIOUS
  <2>1. TypeOK
    BY InitType DEF DaemonInit
  <2>2. \A p \in Proc : proc[p] = Idle
    BY DEF DaemonInit, Init
  <2>3. NoVolume \in Volume /\ NoVolume.promised = {}
    BY DEF NoVolume, Volume
  <2>4. Calm
    BY <2>2 DEF Calm, ProcOK, Idle
  <2>5. DaemonTypeOK
    BY <2>1, <2>2, <2>3, NoCallType, DownType DEF DaemonInit, DaemonTypeOK
  <2> QED
    BY <2>4, <2>5
<1>2. DaemonTypeOK /\ Calm /\ [DaemonNext]_daemonVars => DaemonTypeOK' /\ Calm'
  BY DaemonTypeStep
<1> QED
  BY <1>1, <1>2, PTL DEF DaemonSpec

-----------------------------------------------------------------------------
(* The cache directory.                                                       *)

(* What a step of the server leaves: the versions there were are the same,    *)
(* and what was collected stays named.                                        *)
ServerKeeps ==
  /\ \A v \in 1 .. Latest : cached'[v] \ lost' \subseteq cached[v] \ lost
  /\ \A v \in DOMAIN cached' : cached'[v] \ lost' \subseteq contents'

LEMMA ServerSteps ==
  ASSUME TypeOK, StagingInv, ServerStep
  PROVE  ServerKeeps
<1>0. DOMAIN cached = 1 .. Latest /\ Latest \in Nat /\ live \subseteq contents
  BY DEF TypeOK
<1>1. ASSUME NEW h \in Hash, Store(h) \/ Retire(h) \/ GcContents(h)
      PROVE  ServerKeeps
  <2>1. cached' = cached /\ lost \subseteq lost' /\ contents \ contents' \subseteq lost'
    BY <1>1 DEF Store, Retire, GcContents
  <2> QED
    BY <2>1 DEF ServerKeeps, StagingInv
<1>2. ASSUME NEW S \in SUBSET live, CreateCache(S)
      PROVE  ServerKeeps
  <2>1. \A v \in 1 .. Latest : cached'[v] = cached[v]
    BY <1>2, CreateType
  <2>2. lost' = lost /\ contents' = contents
    BY <1>2 DEF CreateCache
  <2>3. ASSUME NEW v \in DOMAIN cached'
        PROVE  cached'[v] \subseteq S \/ (v \in DOMAIN cached /\ cached'[v] = cached[v])
    BY <1>0, <1>2 DEF CreateCache
  <2> QED
    BY <1>0, <2>1, <2>2, <2>3 DEF ServerKeeps, StagingInv
<1> QED
  BY <1>1, <1>2 DEF ServerStep

(* The server goes on, and the directory stays.                               *)
LEMMA FetchInvServer ==
  ASSUME TypeOK, FetchInv, ServerKeeps, UNCHANGED <<objects, tmp, versions, proc>>
  PROVE  FetchInv'
<1>1. StagingInv'
  <2>1. versions \subseteq 1 .. Latest
    BY DEF TypeOK
  <2> QED
    BY <2>1 DEF FetchInv, StagingInv, CacheComplete, ServerKeeps
<1>2. ASSUME NEW p \in Proc
      PROVE  ProcInv(p)'
  <2>1. proc[p].pc = "fetch" => proc[p].version \in 1 .. Latest
    BY DEF TypeOK, VersionOK, Process
  <2>2. ProcInv(p)
    BY DEF FetchInv
  <2> QED
    BY <2>1, <2>2 DEF ProcInv, ServerKeeps
<1> QED
  BY <1>1, <1>2 DEF FetchInv

(* A pack is taken, written, moved or given up, by the only process there is. *)
LEMMA ProcInvStep ==
  ASSUME TypeOK, FetchInv, Calm, NEW p \in Proc, FetchSteps(p)
  PROVE  StagingInv' /\ ProcInv(p)'
<1> DEFINE t == proc[p]
           n == proc'[p]
<1>0. /\ t \in Process /\ proc \in [Proc -> Process] /\ ProcOK(t) /\ ProcInv(p) /\ StagingInv
      /\ VersionOK(t) /\ objects \in [Hash -> Directory] /\ tmp \in [Hash -> Directory]
  BY DEF TypeOK, Calm, FetchInv
<1>1. UNCHANGED server
  BY DEF FetchSteps, Start, GetCache, ObtainLock, Ask, TakePack, WritePart, MovePack,
       AppendVersion, Unlock, Sweep, BreakStream, Crash
<1>2. ASSUME objects' = objects, versions' = versions
      PROVE  StagingInv'
  BY <1>0, <1>1, <1>2 DEF StagingInv, CacheComplete, server
<1>3. ASSUME n.pc # "fetch", n.writing = {}
      PROVE  ProcInv(p)'
  BY <1>3 DEF ProcInv
<1>4. CASE Start(p) \/ ObtainLock(p) \/ Unlock(p) \/ Sweep(p) \/ BreakStream(p) \/ Crash(p)
  <2>1. objects' = objects /\ versions' = versions
    BY <1>4 DEF Start, ObtainLock, Unlock, Sweep, BreakStream, Crash
  <2>2. n.pc # "fetch"
    BY <1>0, <1>4 DEF Start, ObtainLock, Unlock, Sweep, BreakStream, Crash, Goto, Idle, Process
  <2>3. n.writing = {}
    <3>1. ProcOK(n)
      BY <1>0, FetchOK
    <3> QED
      BY <2>2, <3>1 DEF ProcOK
  <2> QED
    BY <1>2, <1>3, <2>1, <2>2, <2>3
<1>5. CASE Ask(p)
  <2>1. objects' = objects /\ versions' = versions
    BY <1>5 DEF Ask
  <2>2. t.writing = {} /\ t.todo = {}
    BY <1>0, <1>5 DEF Ask, ProcOK
  <2>3. CASE Goto(p, "unlock")
    <3>1. n.pc = "unlock" /\ n.writing = {}
      BY <1>0, <2>2, <2>3 DEF Goto, Process
    <3> QED
      BY <1>2, <1>3, <2>1, <3>1
  <2>4. CASE proc' = [proc EXCEPT ![p] =
                        [t EXCEPT !.pc = IF Responses.tars = {} THEN "unlock" ELSE "fetch",
                                  !.version = Responses.version, !.todo = Responses.tars]]
    <3>1. /\ n.pc = IF CacheTars = {} THEN "unlock" ELSE "fetch"
          /\ n.version = Latest /\ n.todo = CacheTars /\ n.writing = {}
      BY <1>0, <2>2, <2>4 DEF Responses, Process
    <3>2. ASSUME CacheTars # {}, NEW h \in cached[Latest] \ lost
          PROVE  h \in CacheTars
      <4>1. Latest \in DOMAIN cached
        BY <3>2 DEF CacheTars, TypeOK
      <4> QED
        BY <1>0, <3>2, <4>1 DEF CacheTars, StagingInv
    <3>3. ProcInv(p)'
      BY <1>1, <3>1, <3>2 DEF ProcInv, server
    <3> QED
      BY <1>2, <2>1, <3>3
  <2> QED
    BY <1>5, <2>3, <2>4 DEF Ask
<1>6. ASSUME NEW h \in t.todo, TakePack(p, h)
      PROVE  StagingInv' /\ ProcInv(p)'
  <2>0. h \in Hash /\ objects' = objects /\ versions' = versions
    BY <1>0, <1>6 DEF TakePack, Process
  <2>1. CASE objects[h] # None
    <3>1. objects[h] = Part
      BY <1>0, <2>0, <2>1 DEF StagingInv
    <3>2. /\ n.pc = t.pc /\ n.version = t.version /\ n.todo = t.todo \ {h}
          /\ n.writing = t.writing /\ n.failed = t.failed /\ tmp' = tmp
      BY <1>0, <1>6, <2>1 DEF TakePack, Process
    <3>3. ProcInv(p)'
      BY <1>0, <1>1, <2>0, <3>1, <3>2 DEF ProcInv, server
    <3> QED
      BY <1>2, <2>0, <3>3
  <2>2. CASE objects[h] = None
    <3> DEFINE new == [hash |-> h, left |-> Part]
    <3>1. /\ n.pc = t.pc /\ n.version = t.version /\ n.todo = t.todo \ {h}
          /\ n.writing = t.writing \cup {new} /\ n.failed = t.failed
          /\ tmp' = [tmp EXCEPT ![h] = {}]
      BY <1>0, <1>6, <2>2 DEF TakePack, Process
    <3>2. new.hash = h /\ new.left = Part /\ h \notin n.todo
      BY <3>1
    <3> HIDE DEF new
    <3>3. tmp'[h] = {} /\ {} # None /\ \A x \in Hash \ {h} : tmp'[x] = tmp[x]
      BY <1>0, <2>0, <3>1, CacheAssumption
    <3>4. \A r \in t.writing : r.hash \in Hash \ {h}
      BY <1>0, <1>6 DEF ProcInv, Process
    <3>5. ASSUME NEW r \in n.writing
          PROVE  /\ tmp'[r.hash] # None /\ Part \ r.left \subseteq tmp'[r.hash]
                 /\ r.hash \notin n.todo
                 /\ \A s \in n.writing : s.hash = r.hash => s = r
      <4>1. CASE r = new
        BY <3>1, <3>2, <3>3, <3>4, <4>1
      <4>2. CASE r \in t.writing
        BY <1>0, <3>1, <3>2, <3>3, <3>4, <4>2 DEF ProcInv
      <4> QED
        BY <3>1, <4>1, <4>2
    <3>6. ASSUME n.pc = "fetch", ~n.failed, NEW x \in cached[t.version] \ lost
          PROVE  x \in n.todo \/ objects[x] = Part \/ \E r \in n.writing : r.hash = x
      BY <1>0, <3>1, <3>2, <3>6 DEF ProcInv
    <3>7. ProcInv(p)'
      BY <1>1, <2>0, <3>1, <3>5, <3>6 DEF ProcInv, server
    <3> QED
      BY <1>2, <2>0, <3>7
  <2> QED
    BY <2>1, <2>2
<1>7. ASSUME NEW r \in t.writing, proc' = Failed(p, r), tmp' = tmp
      PROVE  ProcInv(p)'
  <2>1. n.todo = {} /\ n.writing = t.writing \ {r} /\ n.failed
    BY <1>0, <1>7 DEF Failed, Process
  <2> QED
    BY <1>0, <1>7, <2>1 DEF ProcInv
<1>8. ASSUME NEW r \in t.writing, NEW k \in r.left, WritePart(p, r, k)
      PROVE  StagingInv' /\ ProcInv(p)'
  <2>0. r.hash \in Hash /\ r.left \subseteq Part /\ k \in Part /\ objects' = objects /\ versions' = versions
    BY <1>0, <1>8 DEF WritePart, Process
  <2>1. CASE /\ tmp' = [tmp EXCEPT ![r.hash] = (IF @ = None THEN {} ELSE @) \cup {k}]
             /\ proc' = [proc EXCEPT ![p].writing = (@ \ {r}) \cup {[r EXCEPT !.left = @ \ {k}]}]
    <3> DEFINE new == [r EXCEPT !.left = @ \ {k}]
    <3>1. /\ n.pc = t.pc /\ n.version = t.version /\ n.todo = t.todo
          /\ n.writing = (t.writing \ {r}) \cup {new} /\ n.failed = t.failed
      BY <1>0, <2>1 DEF Process
    <3>2. new.hash = r.hash /\ new.left = r.left \ {k}
      BY <1>0 DEF Process
    <3> HIDE DEF new
    <3>3. tmp[r.hash] # None /\ Part \ r.left \subseteq tmp[r.hash] /\ r.hash \notin t.todo
      BY <1>0 DEF ProcInv
    <3>4. tmp'[r.hash] = tmp[r.hash] \cup {k} /\ \A x \in Hash \ {r.hash} : tmp'[x] = tmp[x]
      BY <1>0, <2>0, <2>1, <3>3
    <3>5. tmp'[r.hash] # None
      BY <1>0, <2>0, <3>3, <3>4, CacheAssumption DEF Directory
    <3>6. \A s \in t.writing \ {r} : s.hash \in Hash \ {r.hash}
      BY <1>0 DEF ProcInv, Process
    <3>7. ASSUME NEW s \in n.writing
          PROVE  /\ tmp'[s.hash] # None /\ Part \ s.left \subseteq tmp'[s.hash]
                 /\ s.hash \notin n.todo
                 /\ \A u \in n.writing : u.hash = s.hash => u = s
      <4>1. CASE s = new
        BY <3>1, <3>2, <3>3, <3>4, <3>5, <3>6, <4>1
      <4>2. CASE s \in t.writing \ {r}
        BY <1>0, <3>1, <3>2, <3>4, <3>6, <4>2 DEF ProcInv
      <4> QED
        BY <3>1, <4>1, <4>2
    <3>8. ASSUME n.pc = "fetch", ~n.failed, NEW x \in cached[t.version] \ lost
          PROVE  x \in n.todo \/ objects[x] = Part \/ \E s \in n.writing : s.hash = x
      BY <1>0, <3>1, <3>2, <3>8 DEF ProcInv
    <3>9. ProcInv(p)'
      BY <1>1, <2>0, <3>1, <3>7, <3>8 DEF ProcInv, server
    <3> QED
      BY <1>2, <2>0, <3>9
  <2> QED
    BY <1>2, <1>7, <1>8, <2>0, <2>1 DEF WritePart
<1>9. ASSUME NEW r \in t.writing, MovePack(p, r)
      PROVE  StagingInv' /\ ProcInv(p)'
  <2>0. r.hash \in Hash /\ versions' = versions /\ r.left = {}
    BY <1>0, <1>9 DEF MovePack, Process
  <2>1. tmp[r.hash] # None /\ tmp[r.hash] = Part
    <3>1. tmp[r.hash] # None /\ Part \ r.left \subseteq tmp[r.hash]
      BY <1>0 DEF ProcInv
    <3>2. tmp[r.hash] \subseteq Part
      BY <1>0, <2>0, <3>1 DEF Directory
    <3> QED
      BY <2>0, <3>1, <3>2
  <2>2. /\ objects' = [objects EXCEPT ![r.hash] = Part] /\ tmp' = [tmp EXCEPT ![r.hash] = None]
        /\ n = [t EXCEPT !.writing = t.writing \ {r}]
    BY <1>0, <1>9, <2>1 DEF MovePack
  <2>3. \A x \in Hash : objects'[x] = IF x = r.hash THEN Part ELSE objects[x]
    BY <1>0, <2>2
  <2>4. StagingInv'
    <3>1. \A v \in versions : cached[v] \subseteq Hash
      BY DEF TypeOK
    <3> QED
      BY <1>0, <1>1, <2>0, <2>3, <3>1 DEF StagingInv, CacheComplete, server
  <2>5. /\ n.pc = t.pc /\ n.version = t.version /\ n.todo = t.todo
        /\ n.writing = t.writing \ {r} /\ n.failed = t.failed
    BY <1>0, <2>2 DEF Process
  <2>6. \A s \in n.writing : s.hash \in Hash \ {r.hash} /\ tmp'[s.hash] = tmp[s.hash]
    BY <1>0, <2>2, <2>5 DEF ProcInv, Process
  <2>7. ASSUME n.pc = "fetch", ~n.failed, NEW x \in cached[t.version] \ lost
        PROVE  x \in n.todo \/ objects'[x] = Part \/ \E s \in n.writing : s.hash = x
    <3>1. x \in Hash
      BY <1>0, <2>5, <2>7 DEF TypeOK, VersionOK, Process
    <3> QED
      BY <1>0, <2>3, <2>5, <2>7, <3>1 DEF ProcInv
  <2>8. ProcInv(p)'
    BY <1>0, <1>1, <2>5, <2>6, <2>7 DEF ProcInv, server
  <2> QED
    BY <2>4, <2>8
<1>10. CASE AppendVersion(p)
  <2>1. n.pc = "unlock" /\ n.writing = {} /\ objects' = objects
    BY <1>0, <1>10 DEF AppendVersion, Goto, Process
  <2>2. ~t.failed => \A h \in cached[t.version] \ lost : objects[h] = Part
    BY <1>0, <1>10 DEF AppendVersion, ProcInv
  <2>3. StagingInv'
    BY <1>0, <1>1, <1>10, <2>1, <2>2 DEF AppendVersion, StagingInv, CacheComplete, server
  <2> QED
    BY <1>3, <2>1, <2>3
<1> QED
  BY <1>4, <1>5, <1>6, <1>8, <1>9, <1>10 DEF FetchSteps, GetCache

LEMMA FetchInvStep ==
  ASSUME TypeOK, FetchInv, Calm, NEW p \in Proc, FetchSteps(p),
         \A q \in Proc \ {p} : proc[q] = Idle
  PROVE  FetchInv'
<1>1. StagingInv' /\ ProcInv(p)'
  BY ProcInvStep
<1>2. ASSUME NEW q \in Proc \ {p}
      PROVE  ProcInv(q)'
  <2>1. proc'[q] = Idle
    BY FetchOK DEF Calm
  <2>2. proc'[q].pc = "idle" /\ proc'[q].writing = {}
    BY <2>1 DEF Idle
  <2> QED
    BY <2>2 DEF ProcInv
<1> QED
  BY <1>1, <1>2 DEF FetchInv

-----------------------------------------------------------------------------
(* The daemons and the volumes.                                               *)

(* The packs of a version stay or are collected: what a volume needs only     *)
(* gets less.                                                                 *)
LEMMA VolumesServer ==
  ASSUME DaemonTypeOK, VolumesInv, ServerKeeps, UNCHANGED <<volume, call>>
  PROVE  VolumesInv'
<1>1. \A d \in Target : volume[d].promised \subseteq 1 .. Latest
  BY DEF DaemonTypeOK, TypeOK
<1> QED
  BY <1>1 DEF VolumesInv, Whole, CallInv, ServerKeeps

LEMMA VolumeStep ==
  ASSUME TypeOK, StagingInv, NEW v \in Volume, v.promised \subseteq versions, NEW c \in Call,
         Whole(v), CallInv(v, c), NEW w, NEW e, CallChange(v, c, w, e)
  PROVE  Whole(w) /\ CallInv(w, e)
<1>1. ASSUME NEW p, w = [NoVolume EXCEPT !.promised = versions],
             e = [NoCall EXCEPT !.pc = "walk", !.by = p]
      PROVE  Whole(w) /\ CallInv(w, e)
  <2>1. ~w.published /\ e.pc = "walk" /\ NoCall.pc = "none"
    BY <1>1 DEF NoVolume, NoCall
  <2> QED
    BY <2>1 DEF Whole, CallInv
<1>2. ASSUME NEW T, c.pc = "walk", w = [v EXCEPT !.versions = (versions # {})],
             e = [c EXCEPT !.pc = "link", !.todo = Found, !.temporary = T]
      PROVE  Whole(w) /\ CallInv(w, e)
  <2>1. /\ ~w.published /\ w.promised = v.promised /\ w.versions = (versions # {})
        /\ w.files = v.files /\ e.pc = "link" /\ e.todo = Found /\ NoCall.pc = "none"
    BY <1>2 DEF Volume, Call, CallInv, NoCall
  <2>2. ASSUME NEW i \in v.promised, NEW h \in cached[i] \ lost
        PROVE  {h} \X Part \subseteq Found
    <3>1. objects[h] = Part /\ h \in Hash
      BY DEF StagingInv, CacheComplete, TypeOK
    <3>2. Part # None
      BY CacheAssumption
    <3> QED
      BY <3>1, <3>2 DEF Found
  <2>3. v.promised # {} => versions # {}
    OBVIOUS
  <2> QED
    BY <2>1, <2>2, <2>3 DEF Whole, CallInv
<1>3. ASSUME NEW f \in c.todo,
             w = [v EXCEPT !.files = v.files \cup {f}], e = [c EXCEPT !.todo = c.todo \ {f}]
      PROVE  Whole(w) /\ CallInv(w, e)
  <2>1. /\ w.published = v.published /\ w.promised = v.promised /\ w.versions = v.versions
        /\ w.files = v.files \cup {f} /\ e.pc = c.pc /\ e.todo = c.todo \ {f}
    BY <1>3 DEF Volume, Call
  <2>2. c # NoCall /\ NoCall.pc = "none"
    BY DEF NoCall
  <2>3. c.pc # "none"
    BY <2>2 DEF CallInv
  <2> QED
    BY <2>1, <2>2, <2>3 DEF Whole, CallInv
<1>4. ASSUME NEW x, w = v, x \in c.temporary, e = [c EXCEPT !.temporary = c.temporary \ {x}]
      PROVE  Whole(w) /\ CallInv(w, e)
  <2>1. e.pc = c.pc /\ e.todo = c.todo
    BY <1>4 DEF Call
  <2>2. c # NoCall /\ NoCall.pc = "none"
    BY <1>4 DEF NoCall
  <2>3. c.pc # "none"
    BY <2>2 DEF CallInv
  <2> QED
    BY <1>4, <2>1, <2>2, <2>3 DEF Whole, CallInv
<1>5. CASE w = v /\ e = NoCall
  BY <1>5 DEF Whole, CallInv, NoCall
<1>6. CASE c.pc = "link" /\ c.todo = {} /\ w = [v EXCEPT !.published = TRUE] /\ e = NoCall
  <2>1. w.promised = v.promised /\ w.versions = v.versions /\ w.files = v.files /\ e.pc = "none"
    BY <1>6 DEF Volume, NoCall
  <2>2. Whole(w)
    BY <1>6, <2>1 DEF Whole, CallInv
  <2> QED
    BY <1>6, <2>1, <2>2 DEF CallInv
<1>7. CASE w = NoVolume /\ e = NoCall
  BY <1>7 DEF Whole, CallInv, NoCall, NoVolume
<1>8. CASE w = [v EXCEPT !.published = FALSE] /\ e = NoCall
  <2>1. w.published = FALSE /\ e.pc = "none"
    BY <1>8 DEF Volume, NoCall
  <2> QED
    BY <1>8, <2>1 DEF Whole, CallInv
<1> QED
  BY <1>1, <1>2, <1>3, <1>4, <1>5, <1>6, <1>7, <1>8 DEF CallChange

(* Who may become active.                                                     *)
LEMMA ActiveStep ==
  ASSUME ~Overlap, DaemonTypeOK, Calm, OneActive, [DaemonNext]_daemonVars
  PROVE  OneActive'
<1>0. daemon \in [Proc -> Daemon]
  BY DEF DaemonTypeOK
<1>1. ASSUME \A q \in Proc : daemon'[q].state \in {"prepare", "ready", "serving"} => Active(q)
      PROVE  OneActive'
  BY <1>1 DEF OneActive, Active
<1>2. ASSUME NEW p \in Proc, Run(p)
      PROVE  OneActive'
  BY <1>0, <1>2 DEF Run, OneActive, Active, Daemon
<1>3. ASSUME NEW p \in Proc, Prepare(p)
      PROVE  OneActive'
  <2>1. daemon' = [daemon EXCEPT ![p] = Prepared(p)]
    BY <1>3 DEF Prepare
  <2>2. proc[p] # Idle
    BY <1>0, <1>3, PrepareStep DEF Prepare, DaemonTypeOK, Calm
  <2>3. Active(p)
    BY <2>2 DEF DaemonTypeOK, Active
  <2> QED
    BY <1>0, <1>1, <2>1, <2>3 DEF Active
<1>4. ASSUME NEW p \in Proc, Serve(p) \/ GracefulStop(p) \/ Exit(p) \/ Kill(p) \/ KillFetch(p)
      PROVE  OneActive'
  <2>1. \A q \in Proc : daemon'[q].state \in {"prepare", "ready", "serving"} => Active(q)
    BY <1>0, <1>4 DEF Serve, GracefulStop, Exit, Kill, KillFetch, Down, Active, Daemon
  <2> QED
    BY <1>1, <2>1
<1>5. CASE daemon' = daemon
  BY <1>1, <1>5 DEF Active
<1>6. ASSUME NEW d \in Target, CallStep(d)
      PROVE  OneActive'
  BY <1>5, <1>6, CallChanges
<1> QED
  BY <1>2, <1>3, <1>4, <1>5, <1>6 DEF DaemonNext, CallStep, ServerStep, RemoveStaleLock, daemonVars

(* Everybody but the one daemon that prepares itself is idle.                 *)
LEMMA OthersIdle ==
  ASSUME ~Overlap, DaemonTypeOK, OneActive, NEW p \in Proc, Run(p) \/ proc[p] # Idle
  PROVE  \A q \in Proc \ {p} : proc[q] = Idle
  BY DEF DaemonTypeOK, OneActive, Active, Run

LEMMA StageStep ==
  ASSUME ~Overlap, DaemonTypeOK, Calm, StageInv, [DaemonNext]_daemonVars
  PROVE  StageInv'
<1>0. TypeOK /\ FetchInv /\ OneActive /\ VolumesInv /\ StagingInv
  BY DEF DaemonTypeOK, StageInv, FetchInv
<1>1. OneActive'
  BY <1>0, ActiveStep
<1>2. ASSUME UNCHANGED <<server, objects, tmp, versions, proc>>
      PROVE  FetchInv' /\ ServerKeeps
  <2>1. ServerKeeps
    BY <1>0, <1>2 DEF ServerKeeps, StagingInv, server
  <2> QED
    BY <1>0, <1>2, <2>1, FetchInvServer
<1>3. CASE ServerStep
  <2>1. UNCHANGED <<objects, tmp, versions, proc, volume, call>>
    BY <1>3 DEF ServerStep, Store, Retire, GcContents, CreateCache
  <2>2. ServerKeeps
    BY <1>0, <1>3, ServerSteps
  <2> QED
    BY <1>0, <1>1, <2>1, <2>2, FetchInvServer, VolumesServer DEF StageInv
<1>4. ASSUME NEW p \in Proc, FetchSteps(p), UNCHANGED <<volume, call>>, Run(p) \/ proc[p] # Idle
      PROVE  StageInv'
  <2>1. FetchInv'
    BY <1>0, <1>4, OthersIdle, FetchInvStep
  <2>2. UNCHANGED server
    BY <1>4 DEF FetchSteps, Start, GetCache, ObtainLock, Ask, TakePack, WritePart, MovePack,
         AppendVersion, Unlock, Sweep, BreakStream, Crash
  <2>3. VolumesInv'
    BY <1>0, <1>4, <2>2 DEF VolumesInv, Whole, CallInv, server
  <2> QED
    BY <1>1, <2>1, <2>3 DEF StageInv
<1>5. ASSUME NEW p \in Proc, Run(p) \/ Prepare(p) \/ KillFetch(p)
      PROVE  StageInv'
  <2>1. FetchSteps(p) /\ UNCHANGED <<volume, call>>
    BY <1>5 DEF Run, Prepare, KillFetch, FetchSteps
  <2>2. ASSUME Prepare(p)
        PROVE  proc[p] # Idle
    BY <1>0, <2>2, PrepareStep DEF Prepare, DaemonTypeOK, Calm
  <2>3. ASSUME KillFetch(p)
        PROVE  proc[p] # Idle
    BY <2>3 DEF KillFetch, Crash, BreakStream, Idle
  <2> QED
    BY <1>4, <1>5, <2>1, <2>2, <2>3
<1>6. ASSUME NEW p \in Proc, Serve(p) \/ GracefulStop(p) \/ Exit(p) \/ Kill(p)
      PROVE  StageInv'
  <2>1. UNCHANGED <<server, objects, tmp, versions, proc, volume>>
    BY <1>6 DEF Serve, GracefulStop, Exit, Kill, vars, fetchState
  <2>2. FetchInv' /\ ServerKeeps
    BY <1>2, <2>1
  <2>3. VolumesInv'
    <3>1. \A d \in Target : call'[d] \in {call[d], NoCall}
      BY <1>6 DEF Serve, GracefulStop, Exit, Kill
    <3>2. ASSUME NEW d \in Target
          PROVE  Whole(volume[d])' /\ CallInv(volume[d], call[d])'
      <4>1. Whole(volume[d]) /\ CallInv(volume[d], call[d])
        BY <1>0 DEF VolumesInv
      <4>2. Whole(volume[d])'
        BY <2>1, <4>1 DEF Whole, server
      <4>3. CASE call'[d] = call[d]
        BY <2>1, <4>1, <4>2, <4>3 DEF CallInv, server
      <4>4. CASE call'[d] = NoCall
        BY <4>2, <4>4 DEF CallInv, NoCall
      <4> QED
        BY <3>1, <4>2, <4>3, <4>4
    <3> QED
      BY <3>2 DEF VolumesInv
  <2> QED
    BY <1>1, <2>2, <2>3 DEF StageInv
<1>7. ASSUME NEW d \in Target, CallStep(d)
      PROVE  StageInv'
  <2>1. UNCHANGED <<server, objects, tmp, versions, proc>>
    BY <1>7, CallChanges DEF fetchState
  <2>2. PICK w, e : /\ volume' = [volume EXCEPT ![d] = w] /\ call' = [call EXCEPT ![d] = e]
                    /\ CallChange(volume[d], call[d], w, e)
    BY <1>7, CallChanges
  <2>3. volume \in [Target -> Volume] /\ call \in [Target -> Call] /\ volume[d].promised \subseteq versions
    BY DEF DaemonTypeOK
  <2>4. Whole(w) /\ CallInv(w, e)
    BY <1>0, <2>2, <2>3, VolumeStep DEF VolumesInv
  <2>5. \A x \in Target : Whole(volume'[x]) /\ CallInv(volume'[x], call'[x])
    BY <1>0, <2>2, <2>3, <2>4 DEF VolumesInv
  <2>6. VolumesInv'
    BY <2>1, <2>5 DEF VolumesInv, Whole, CallInv, server
  <2> QED
    BY <1>1, <1>2, <2>1, <2>6 DEF StageInv
<1>8. CASE UNCHANGED <<server, objects, tmp, versions, proc, volume, call>>
  BY <1>0, <1>1, <1>2, <1>8, VolumesServer DEF StageInv
<1> QED
  BY <1>3, <1>5, <1>6, <1>7, <1>8 DEF DaemonNext, CallStep, RemoveStaleLock, RemoveLock,
       daemonVars, vars

LEMMA StageInit == DaemonInit => StageInv
<1> SUFFICES ASSUME DaemonInit PROVE StageInv
  OBVIOUS
<1>1. StagingInv
  BY DEF DaemonInit, Init, StagingInv, CacheComplete, Empty
<1>2. \A p \in Proc : ProcInv(p)
  BY DEF DaemonInit, Init, ProcInv, Idle
<1>3. OneActive
  BY DEF DaemonInit, OneActive, Active, Down
<1>4. VolumesInv
  BY DEF DaemonInit, VolumesInv, Whole, CallInv, NoVolume, NoCall
<1> QED
  BY <1>1, <1>2, <1>3, <1>4 DEF StageInv, FetchInv

(* While one daemon at a time prepares it, the directory has every version    *)
(* that its file "versions" names, whole, whatever crashes, broken streams,   *)
(* failed writes, left-over locks and collections there were.                 *)
THEOREM CacheAlwaysComplete == ~Overlap => (DaemonSpec => []CacheComplete)
<1> SUFFICES ASSUME ~Overlap PROVE DaemonSpec => []CacheComplete
  OBVIOUS
<1>1. DaemonTypeOK /\ Calm /\ StageInv /\ [DaemonNext]_daemonVars => StageInv'
  BY StageStep
<1>2. StageInv => CacheComplete
  BY DEF StageInv, FetchInv, StagingInv
<1> QED
  BY <1>1, <1>2, StageInit, DaemonTypeCorrect, PTL DEF DaemonSpec

(* And every volume that a call has published has all packs of the versions   *)
(* that it was asked for.                                                     *)
THEOREM VolumesAlwaysWhole == ~Overlap => (DaemonSpec => []VolumeWhole)
<1> SUFFICES ASSUME ~Overlap PROVE DaemonSpec => []VolumeWhole
  OBVIOUS
<1>1. DaemonTypeOK /\ Calm /\ StageInv /\ [DaemonNext]_daemonVars => StageInv'
  BY StageStep
<1>2. StageInv => VolumeWhole
  BY DEF StageInv, VolumesInv, Whole, VolumeWhole
<1> QED
  BY <1>1, <1>2, StageInit, DaemonTypeCorrect, PTL DEF DaemonSpec

=============================================================================
