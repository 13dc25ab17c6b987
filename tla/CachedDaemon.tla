---------------------------- MODULE CachedDaemon ----------------------------
(* The cache daemon: cachedcli/server.go prepares the staging directory with  *)
(* Client.GetCache (CacheFetch), serves a unix socket (cached/cached.go), and *)
(* hard-links the staging directory into the volumes that kubelet asks for    *)
(* (api/cached.go).  A daemon that ends is started again, and a new one may   *)
(* start while the old one still answers its last calls.                      *)
(*                                                                            *)
(* The file "versions" of a volume is a hard link: it shows what the staging  *)
(* directory's file says, also what is appended later.                        *)
EXTENDS CacheFetch

CONSTANTS
  Target,   \* target paths of volumes
  Env,      \* environment.Env: "prod", "dev" or "test"
  Overlap   \* TRUE: a daemon may start while another one prepares or serves

ASSUME DaemonAssumption ==
  /\ Env \in {"prod", "dev", "test"}
  /\ Overlap \in BOOLEAN

VARIABLES
  daemon,  \* daemon[p]: the state and Cached.currentVersion of process p
  socket,  \* the process that listens at the socket's path, or None
  volume,  \* volume[d]: the directory at target path d
  call     \* call[d]: the call that writes it

daemonVars == <<vars, daemon, socket, volume, call>>
fetchState == <<objects, tmp, lock, versions, proc>>

Down == [state |-> "down", current |-> 0]
NoCall == [pc |-> "none", by |-> None, todo |-> {}, temporary |-> {}]
(* "files" are those linked from objects/, "versions" is the link to that     *)
(* file.  History: the versions there were when the volume was asked for, and *)
(* whether the last call for it succeeded.                                    *)
NoVolume == [files |-> {}, versions |-> FALSE, promised |-> {}, published |-> FALSE]

DaemonInit ==
  /\ Init
  /\ daemon = [p \in Proc |-> Down]
  /\ socket = None
  /\ volume = [d \in Target |-> NoVolume]
  /\ call = [d \in Target |-> NoCall]

(* The server's side of the cache goes on.                                    *)
ServerStep ==
  /\ \/ \E h \in Hash : Store(h) \/ Retire(h) \/ GcContents(h)
     \/ \E S \in SUBSET live : CreateCache(S)
  /\ UNCHANGED <<daemon, socket, volume, call>>

-----------------------------------------------------------------------------
(* The process.                                                               *)

(* The command is run: Prepare calls GetCache.                                *)
Run(p) ==
  /\ daemon[p] = Down
  /\ Overlap \/ \A q \in Proc : daemon[q].state \in {"down", "stopping"}
  /\ Start(p)
  /\ daemon' = [daemon EXCEPT ![p].state = "prepare"]
  /\ UNCHANGED <<socket, volume, call>>

(* What the daemon knows after the next step of GetCache.  The version is -1  *)
(* without a cache, and an error of GetCache, here current = 0, ends the      *)
(* command.                                                                   *)
Prepared(p) ==
  CASE proc[p].pc = "lock" /\ lock -> Down
    [] proc[p].pc = "ask" /\ CacheTars = {} /\ faults' = faults ->
         [daemon[p] EXCEPT !.current = -1]
    [] proc[p].pc = "fetch" /\ proc'[p].pc = "unlock" /\ ~proc[p].failed /\ faults' = faults ->
         [daemon[p] EXCEPT !.current = proc[p].version]
    [] proc[p].pc = "sweep" ->
         IF daemon[p].current = 0 THEN Down ELSE [daemon[p] EXCEPT !.state = "ready"]
    [] OTHER -> daemon[p]

Prepare(p) ==
  /\ GetCache(p)
  /\ daemon' = [daemon EXCEPT ![p] = Prepared(p)]
  /\ UNCHANGED <<socket, volume, call>>

(* CachedServer.Serve removes the socket of another daemon and listens.       *)
Serve(p) ==
  /\ daemon[p].state = "ready"
  /\ daemon' = [daemon EXCEPT ![p].state = "serving"]
  /\ socket' = p
  /\ UNCHANGED <<vars, volume, call>>

(* SIGTERM.  GracefulStop closes the listener, which removes the file at the  *)
(* socket's path whoever made it, and waits for the calls.                    *)
GracefulStop(p) ==
  /\ daemon[p].state = "serving"
  /\ Mishap("stop")
  /\ daemon' = [daemon EXCEPT ![p].state = "stopping"]
  /\ socket' = None
  /\ UNCHANGED <<server, fetchState, volume, call>>

Exit(p) ==
  /\ daemon[p].state = "stopping"
  /\ \A d \in Target : call[d].by # p
  /\ daemon' = [daemon EXCEPT ![p] = Down]
  /\ UNCHANGED <<vars, socket, volume, call>>

(* The process is killed; kubelet sees its calls fail.  The socket's file     *)
(* stays, and nobody answers.                                                 *)
Kill(p) ==
  /\ daemon[p].state \in {"ready", "serving", "stopping"}
  /\ Mishap("crash")
  /\ daemon' = [daemon EXCEPT ![p] = Down]
  /\ call' = [d \in Target |-> IF call[d].by = p THEN NoCall ELSE call[d]]
  /\ UNCHANGED <<server, fetchState, socket, volume>>

(* It is killed, or panics, while it fetches the cache.                       *)
KillFetch(p) ==
  /\ Crash(p) \/ BreakStream(p)
  /\ daemon' = [daemon EXCEPT ![p] = Down]
  /\ UNCHANGED <<socket, volume, call>>

RemoveStaleLock == RemoveLock /\ UNCHANGED <<daemon, socket, volume, call>>

-----------------------------------------------------------------------------
(* Calls.  Kubelet makes one at a time for a volume.                          *)

Answers(p) == socket = p /\ daemon[p].state = "serving"

(* Probe says that the daemon is ready; writeCache asks the same.             *)
Probe(p) == daemon[p].current # 0

(* writeCache, up to the first statements of HardlinkDir: what was at the     *)
(* destination is removed.                                                    *)
writeCache(d, p) ==
  /\ Answers(p) /\ Probe(p)
  /\ call[d] = NoCall
  /\ volume' = [volume EXCEPT ![d] = [NoVolume EXCEPT !.promised = versions]]
  /\ call' = [call EXCEPT ![d] = [NoCall EXCEPT !.pc = "walk", !.by = p]]
  /\ UNCHANGED <<vars, daemon, socket>>

(* The destination is a file, cannot be written to, or cannot be looked at:   *)
(* the call fails before anything is removed.                                 *)
writeCacheFails(d, p) ==
  /\ Answers(p) /\ Probe(p)
  /\ call[d] = NoCall
  /\ Mishap("write")
  /\ volume' = [volume EXCEPT ![d].published = FALSE]
  /\ UNCHANGED <<server, fetchState, daemon, socket, call>>

NodePublishVolume(d, p) == writeCache(d, p)

PopulateDiskCache(d, p) == Env # "prod" /\ writeCache(d, p)

(* The walk reads the directories: the packs that are there, the file         *)
(* "versions" if there is one, and what a daemon that prepares itself has in  *)
(* the temporary directory, and its lock.                                     *)
Walk(d) ==
  /\ call[d].pc = "walk"
  /\ call' = [call EXCEPT ![d].pc = "link",
                          ![d].todo = {f \in Hash \X Part : objects[f[1]] # None /\ f[2] \in objects[f[1]]},
                          ![d].temporary = {h \in Hash : tmp[h] # None}
                                             \cup IF lock THEN {".lock"} ELSE {}]
  /\ volume' = [volume EXCEPT ![d].versions = versions # {}]
  /\ UNCHANGED <<vars, daemon, socket>>

Link(d, f) ==
  /\ f \in call[d].todo
  /\ volume' = [volume EXCEPT ![d].files = @ \cup {f}]
  /\ call' = [call EXCEPT ![d].todo = @ \ {f}]
  /\ UNCHANGED <<vars, daemon, socket>>

(* A file that the other daemon moved or removed since cannot be linked, and  *)
(* the call fails.                                                            *)
LinkTemporary(d, x) ==
  /\ x \in call[d].temporary
  /\ \/ /\ IF x = ".lock" THEN lock ELSE tmp[x] # None
        /\ call' = [call EXCEPT ![d].temporary = @ \ {x}]
     \/ call' = [call EXCEPT ![d] = NoCall]
  /\ UNCHANGED <<vars, daemon, socket, volume>>

(* Mutant of LinkFails: the walk goes on without the file.                    *)
LinkSkips(d) ==
  /\ call[d].pc = "link"
  /\ Mishap("write")
  /\ \E f \in call[d].todo : call' = [call EXCEPT ![d].todo = @ \ {f}]
  /\ UNCHANGED <<server, fetchState, daemon, socket, volume>>

(* os.Link or os.Mkdir fails.                                                 *)
LinkFails(d) ==
  /\ call[d].pc = "link"
  /\ Mishap("write")
  /\ call' = [call EXCEPT ![d] = NoCall]
  /\ UNCHANGED <<server, fetchState, daemon, socket, volume>>

Answer(d) ==
  /\ call[d].pc = "link" /\ call[d].todo = {} /\ call[d].temporary = {}
  /\ call' = [call EXCEPT ![d] = NoCall]
  /\ volume' = [volume EXCEPT ![d].published = TRUE]
  /\ UNCHANGED <<vars, daemon, socket>>

NodeUnpublishVolume(d, p) ==
  /\ Answers(p)
  /\ call[d] = NoCall
  /\ volume' = [volume EXCEPT ![d] = NoVolume]
  /\ UNCHANGED <<vars, daemon, socket, call>>

Publish(d) == \E p \in Proc : NodePublishVolume(d, p) \/ PopulateDiskCache(d, p)

HardlinkDir(d) ==
  \/ Walk(d)
  \/ \E f \in call[d].todo : Link(d, f)
  \/ \E x \in call[d].temporary : LinkTemporary(d, x)
  \/ Answer(d)

-----------------------------------------------------------------------------
DaemonNext ==
  \/ ServerStep
  \/ RemoveStaleLock
  \/ \E p \in Proc :
       Run(p) \/ Prepare(p) \/ Serve(p) \/ GracefulStop(p) \/ Exit(p) \/ Kill(p) \/ KillFetch(p)
  \/ \E d \in Target :
       Publish(d) \/ HardlinkDir(d) \/ LinkFails(d)
         \/ \E p \in Proc : writeCacheFails(d, p) \/ NodeUnpublishVolume(d, p)

DaemonSpec == DaemonInit /\ [][DaemonNext]_daemonVars

(* Daemons are run again, and what they have begun goes on; kubelet asks      *)
(* again for a volume that was not published.  Nobody has to remove a lock    *)
(* that was left behind.                                                      *)
DaemonFairSpec ==
  /\ DaemonSpec
  /\ WF_daemonVars(\E p \in Proc : Run(p))
  /\ \A p \in Proc : WF_daemonVars(Prepare(p)) /\ WF_daemonVars(Serve(p)) /\ WF_daemonVars(Exit(p))
  /\ \A d \in Target : WF_daemonVars(Publish(d)) /\ WF_daemonVars(HardlinkDir(d))

-----------------------------------------------------------------------------
Daemon == [state : {"down", "prepare", "ready", "serving", "stopping"}, current : Int]
Volume ==
  [files : SUBSET (Hash \X Part), versions : BOOLEAN, promised : SUBSET Nat, published : BOOLEAN]
Call ==
  [pc : {"none", "walk", "link"}, by : Proc \cup {None}, todo : SUBSET (Hash \X Part),
   temporary : SUBSET (Hash \cup {".lock"})]

(* Types of the daemons', the volumes' and the calls' state, a version that a *)
(* daemon reports is in the directory, and only a daemon that prepares itself *)
(* fetches, and only one that serves or stops has calls.                      *)
DaemonTypeOK ==
  /\ TypeOK
  /\ daemon \in [Proc -> Daemon]
  /\ \A p \in Proc :
       /\ daemon[p].current \in {-1, 0} \cup versions
       /\ proc[p] # Idle => daemon[p].state = "prepare"
  /\ socket \in Proc \cup {None}
  /\ volume \in [Target -> Volume]
  /\ call \in [Target -> Call]
  /\ \A d \in Target :
       /\ volume[d].promised \subseteq versions
       /\ call[d].by # None => daemon[call[d].by].state \in {"serving", "stopping"}

(* A volume that a call has published has, with all their files, the packs of *)
(* every version that the staging directory had when the call began, which    *)
(* includes the version the daemon reports, whatever daemons, fetches and     *)
(* failed calls went before or ran beside it (writeCache, HardlinkDir); packs *)
(* that were collected before they were fetched excepted.  A rebuild that     *)
(* uses the volume links its packs from there.                                *)
VolumeWhole ==
  \A d \in Target : volume[d].published =>
    /\ volume[d].promised # {} => volume[d].versions
    /\ \A v \in volume[d].promised : \A h \in cached[v] \ lost :
         {h} \X Part \subseteq volume[d].files

(* Whatever crashes, broken streams and failed calls there were, and          *)
(* whichever daemon left the socket's file behind, a volume that is asked for *)
(* again and again is published (TestCachedCSIDriverMountsCache), unless a    *)
(* lock file that a killed process left stays for good: with it every daemon  *)
(* that is started ends in "unable to obtain cache lock file".                *)
Published == \A d \in Target : []<>volume[d].published \/ <>[]StaleLock

=============================================================================
