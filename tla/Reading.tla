------------------------------- MODULE Reading -------------------------------
(* The readers of the store: Fs.Get, GetUnary, GetCompress and Inspect        *)
(* (pkg/api/fs.go) over GetObjects, GetTars and the content cache             *)
(* (internal/db/{query,content}.go), beside every call that writes it.        *)
(*                                                                            *)
(* A reader's transaction is READ COMMITTED: the version, each query and each *)
(* chunk of contents is a statement of its own, and the writers run in        *)
(* between.  Reads are of whole versions (from_version unset); ClientSync has *)
(* the differences of two versions.                                           *)
EXTENDS ObjectStore, Sequences, FiniteSets, FiniteSetsExt

CONSTANTS
  Reader,    \* concurrent calls that read
  Packed,    \* the paths that are packed parents
  Wanted,    \* values of to_version; Null when it is unset
  Queries,   \* the queries of one call: sequences of sets of paths
  ChunkSize  \* chunkSize: objects whose contents are looked up together

ASSUME ReadAssumption ==
  /\ Packed \subseteq Path
  /\ Wanted \subseteq Nat \cup {Null}
  /\ Queries \subseteq Seq(SUBSET Path)
  /\ ChunkSize \in Nat \ {0}

VARIABLES
  reads,  \* reads[r]: the call that reader r is in
  known   \* the contents that the server's cache may have

readVars == <<vars, reads, known>>

NoRead == [pc |-> "idle", kind |-> Null, project |-> Null, want |-> Null, asked |-> <<>>,
           to |-> 0, queries |-> <<>>, rows |-> {}, sent |-> {}, steady |-> FALSE]

(* The version still has all its rows.                                        *)
Complete(p, version) == floor[p] <= version /\ version <= latest[p]

(* Absent: no rows, ErrNotFound.                                              *)
getLatestVersion(p) == latest[p]

(* Mutant of NewVersionRange: a project that is not found is not an error.    *)
NewVersionRangeAny(r, kind, p, want, queries) ==
  LET to == IF want = Null THEN getLatestVersion(p) ELSE want
  IN  /\ reads' = [reads EXCEPT ![r] =
                     [NoRead EXCEPT !.pc = IF kind = "tars" THEN "query" ELSE "patterns",
                                    !.kind = kind, !.project = p, !.want = want,
                                    !.asked = queries, !.to = to, !.queries = queries,
                                    !.steady = Complete(p, to)]]
      /\ UNCHANGED <<vars, known>>

(* NewVersionRange: the version is the one asked for or the latest, which a   *)
(* project that does not exist has not.  "steady" is history: the version is  *)
(* complete, and has been since.                                              *)
NewVersionRange(r, kind, p, want, queries) ==
  LET to == IF want = Null THEN getLatestVersion(p) ELSE want
  IN  /\ want = Null => getLatestVersion(p) # Absent
      /\ reads' = [reads EXCEPT ![r] =
                     [NoRead EXCEPT !.pc = IF kind = "tars" THEN "query" ELSE "patterns",
                                    !.kind = kind, !.project = p, !.want = want,
                                    !.asked = queries, !.to = to, !.queries = queries,
                                    !.steady = Complete(p, to)]]
      /\ UNCHANGED <<vars, known>>

Get(r, p, want, queries) == reads[r] = NoRead /\ NewVersionRange(r, "objects", p, want, queries)

(* As Get; the objects are answered together.                                 *)
GetUnary(r, p, want, queries) ==
  reads[r] = NoRead /\ NewVersionRange(r, "objects", p, want, queries)

GetCompress(r, p, want, queries) ==
  reads[r] = NoRead /\ NewVersionRange(r, "tars", p, want, queries)

(* All objects of the latest version, counted.  (The count of all rows, one   *)
(* more statement, is left out.)                                              *)
Inspect(r, p) == reads[r] = NoRead /\ NewVersionRange(r, "objects", p, Null, <<Path>>)

(* gRPC makes a call that failed as UNAVAILABLE again, by itself, unless a    *)
(* part of the answer has arrived: the handler starts anew, and what the      *)
(* first attempt sent is lost.  (Up to three attempts; here any number.)      *)
Retry(r) ==
  LET t == reads[r]
  IN  /\ t.pc \in {"patterns", "query", "load"}
      /\ NewVersionRange(r, t.kind, t.project, t.want, t.asked)

(* The project's patterns; without the project the call fails.                *)
NewPackManager(r) ==
  /\ reads[r].pc = "patterns"
  /\ reads' = [reads EXCEPT ![r] = IF latest[@.project] = Absent THEN NoRead
                                   ELSE [@ EXCEPT !.pc = "query"]]
  /\ UNCHANGED <<vars, known>>

(* Mutant of executeQuery: the latest version is read, not the version range. *)
queryLatest(r) ==
  LET t == reads[r]
      view == View(objects, t.project, latest[t.project])
  IN  /\ t.pc \in {"query", "load"} /\ t.rows = {} /\ t.queries # <<>>
      /\ reads' = [reads EXCEPT ![r].pc = "load", ![r].queries = Tail(@),
                                ![r].rows = {e \in view : e.path \in Head(t.queries)}]
      /\ UNCHANGED <<vars, known>>

(* The next query of the call, one statement.                                 *)
executeQuery(r) ==
  LET t == reads[r]
      view == View(objects, t.project, t.to)
  IN  /\ t.pc \in {"query", "load"} /\ t.rows = {} /\ t.queries # <<>>
      /\ reads' = [reads EXCEPT ![r].pc = "load", ![r].queries = Tail(@),
                                ![r].rows = {e \in view : e.path \in Head(t.queries)}]
      /\ UNCHANGED <<vars, known>>

(* ContentLookup.Lookup: the hashes that the cache still has ("hits") and     *)
(* those that dl.contents has.  Others are not in the result, and that is no  *)
(* error.                                                                     *)
Lookup(hashes, hits) == (hashes \cap known \cap hits) \cup (hashes \cap contents)

(* The next chunk.  The objects are in the order of their paths, which does   *)
(* not matter here.                                                           *)
Chunks(rows) == {c \in SUBSET rows : Cardinality(c) = Min({ChunkSize, Cardinality(rows)})}

(* A missing content is nil, that is, an empty file.                          *)
Loaded(chunk, found) ==
  {[path |-> e.path, hash |-> IF e.hash \in found THEN e.hash ELSE Null] : e \in chunk}

(* loadChunk, and the chunk is sent.                                          *)
loadChunk(r, chunk, found) ==
  /\ reads' = [reads EXCEPT ![r].rows = @ \ chunk, ![r].sent = @ \cup Loaded(chunk, found)]
  /\ known' = known \cup {e.hash : e \in {x \in chunk : x.hash \in found}}
  /\ UNCHANGED vars

(* GetTars sends what it has, an empty tar for a pack without contents.       *)
GetTars(r, chunk, hits) ==
  /\ reads[r].pc = "load" /\ reads[r].rows # {} /\ reads[r].kind = "tars"
  /\ loadChunk(r, chunk, Lookup({e.hash : e \in chunk}, hits))

(* What is in a pack, here its hash; a content that was not found is empty.   *)
unpackObjects(e, found) == {e.hash} \cap found

(* GetObjects unpacks the packs, and panics on an empty one: the call ends    *)
(* with an error.                                                             *)
GetObjects(r, chunk, hits) ==
  LET found == Lookup({e.hash : e \in chunk}, hits)
      empty == \E e \in chunk : e.path \in Packed /\ unpackObjects(e, found) = {}
  IN  /\ reads[r].pc = "load" /\ reads[r].rows # {} /\ reads[r].kind = "objects"
      /\ \/ ~empty /\ loadChunk(r, chunk, found)
         \/ /\ empty
            /\ reads' = [reads EXCEPT ![r] = NoRead]
            /\ UNCHANGED <<vars, known>>

(* io.EOF after the last query: the caller (Client.Get) has all objects.      *)
EndRead(r) ==
  /\ reads[r].pc = "load" /\ reads[r].rows = {} /\ reads[r].queries = <<>>
  /\ reads' = [reads EXCEPT ![r].pc = "done"]
  /\ UNCHANGED <<vars, known>>

(* The caller has used the answer, or gave up, or the database failed.        *)
Leave(r) ==
  /\ reads[r] # NoRead
  /\ reads' = [reads EXCEPT ![r] = NoRead]
  /\ UNCHANGED <<vars, known>>

ReadStep(r) ==
  \/ \E p \in Project, want \in Wanted, queries \in Queries :
       Get(r, p, want, queries) \/ GetUnary(r, p, want, queries) \/ GetCompress(r, p, want, queries)
  \/ \E p \in Project : Inspect(r, p)
  \/ Retry(r)
  \/ NewPackManager(r)
  \/ executeQuery(r)
  \/ \E chunk \in Chunks(reads[r].rows), hits \in SUBSET known :
       GetTars(r, chunk, hits) \/ GetObjects(r, chunk, hits)
  \/ EndRead(r)
  \/ Leave(r)

(* A writer's step.  (A reset that truncates the tables would wait for the    *)
(* readers; here it may also come between two of their statements.)           *)
WriteStep ==
  /\ Next
  /\ reads' = [r \in Reader |->
                 [reads[r] EXCEPT !.steady = /\ @
                                             /\ floor'[reads[r].project] <= reads[r].to
                                             /\ reads[r].to <= latest'[reads[r].project]]]
  /\ UNCHANGED known

ReadInit == Init /\ reads = [r \in Reader |-> NoRead] /\ known = {}

ReadNext == WriteStep \/ \E r \in Reader : ReadStep(r)

ReadSpec == ReadInit /\ [][ReadNext]_readVars

-----------------------------------------------------------------------------
ReadRecord ==
  [pc : {"idle", "patterns", "query", "load", "done"}, kind : {Null, "objects", "tars"},
   project : Project \cup {Null}, want : Nat \cup {Null}, asked : Seq(SUBSET Path),
   to : Nat, queries : Seq(SUBSET Path), rows : SUBSET [path : Path, hash : Hash],
   sent : SUBSET [path : Path, hash : Hash \cup {Null}], steady : BOOLEAN]

(* Types of the readers' state.                                               *)
ReadTypeOK ==
  /\ TypeOK
  /\ known \subseteq Hash
  /\ reads \in [Reader -> ReadRecord]

(* A call that ends without an error has delivered exactly the files, with    *)
(* their contents, of the version it says, whatever updates, clones,          *)
(* rollbacks and collections ran between its statements and however often it  *)
(* was retried, and they are still that version's files, unless the version   *)
(* itself was collected, rolled back or deleted meanwhile (NewVersionRange,   *)
(* executeQuery and loadChunk are statements of their own).                   *)
ReadExact ==
  \A r \in Reader :
    LET t == reads[r]
    IN  t.pc = "done" /\ t.steady =>
          t.sent = {e \in View(objects, t.project, t.to) :
                      \E i \in DOMAIN t.asked : e.path \in t.asked[i]}

=============================================================================
