---------------------------- MODULE ReadingProofs ----------------------------
(* What a reader is answered, for every choice of the constants: exactly the  *)
(* files of a version that stays complete while it is read.                   *)
EXTENDS Reading, ObjectStoreVersions

USE DEF Absent

(* A reader writes nothing of the store.                                      *)
LEMMA ReadersOnlyRead ==
  ASSUME [ReadNext]_readVars
  PROVE  [Next]_vars
<1>1. ASSUME NEW r \in Reader, ReadStep(r)
      PROVE  UNCHANGED vars
  BY <1>1 DEF ReadStep, Get, GetUnary, GetCompress, Inspect, Retry, NewVersionRange,
       NewPackManager, executeQuery, GetTars, GetObjects, loadChunk, EndRead, Leave
<1>2. CASE UNCHANGED readVars
  BY <1>2 DEF readVars
<1>3. CASE WriteStep
  BY <1>3 DEF WriteStep
<1> QED
  BY <1>1, <1>2, <1>3 DEF ReadNext

(* The writers beside readers are the store.                                  *)
THEOREM ReadersBesideStore == ReadSpec => Spec
<1>1. ReadInit => Init
  BY DEF ReadInit
<1>2. [ReadNext]_readVars => [Next]_vars
  BY ReadersOnlyRead
<1> QED
  BY <1>1, <1>2, PTL DEF ReadSpec, Spec

-----------------------------------------------------------------------------
(* Types.                                                                     *)

LEMMA NoReadType == NoRead \in ReadRecord
<1>1. <<>> \in Seq(SUBSET Path)
  OBVIOUS
<1> QED
  BY <1>1 DEF NoRead, ReadRecord

(* A call that has just begun, or begun again.                                *)
Started(n) ==
  \E kind \in {"objects", "tars"}, p \in Project, want \in Nat \cup {Null},
     queries \in Seq(SUBSET Path), to \in Nat :
    n = [NoRead EXCEPT !.pc = IF kind = "tars" THEN "query" ELSE "patterns",
                       !.kind = kind, !.project = p, !.want = want,
                       !.asked = queries, !.to = to, !.queries = queries,
                       !.steady = Complete(p, to)]

(* How the call t of a reader becomes n: it starts, is over, finds its        *)
(* project, makes its next query, sends a chunk or ends.                      *)
ReadChange(t, n) ==
  \/ n = NoRead
  \/ Started(n)
  \/ t.pc = "patterns" /\ n = [t EXCEPT !.pc = "query"]
  \/ /\ t.pc \in {"query", "load"} /\ t.rows = {} /\ t.queries # <<>>
     /\ n = [t EXCEPT !.pc = "load", !.queries = Tail(t.queries),
                !.rows = {e \in View(objects, t.project, t.to) : e.path \in Head(t.queries)}]
  \/ /\ t.pc = "load"
     /\ \E chunk, found :
          /\ chunk \subseteq t.rows
          /\ \A e \in chunk : e.hash \in contents => e.hash \in found
          /\ n = [t EXCEPT !.rows = t.rows \ chunk, !.sent = t.sent \cup Loaded(chunk, found)]
  \/ t.pc = "load" /\ t.rows = {} /\ t.queries = <<>> /\ n = [t EXCEPT !.pc = "done"]

(* A call that is under way is for a project.                                 *)
CallOK(t) == t.pc # "idle" => t.project \in Project /\ t.kind \in {"objects", "tars"}

LEMMA RangeStep ==
  ASSUME TypeOK, NEW r \in Reader, NEW kind \in {"objects", "tars"}, NEW p \in Project,
         NEW want \in Nat \cup {Null}, NEW queries \in Seq(SUBSET Path),
         NewVersionRange(r, kind, p, want, queries)
  PROVE  \E n : reads' = [reads EXCEPT ![r] = n] /\ Started(n)
<1> DEFINE to == IF want = Null THEN latest[p] ELSE want
           n == [NoRead EXCEPT !.pc = IF kind = "tars" THEN "query" ELSE "patterns",
                   !.kind = kind, !.project = p, !.want = want,
                   !.asked = queries, !.to = to, !.queries = queries,
                   !.steady = Complete(p, to)]
<1>1. to \in Nat
  BY DEF NewVersionRange, getLatestVersion, TypeOK
<1>2. reads' = [reads EXCEPT ![r] = n]
  BY DEF NewVersionRange, getLatestVersion
<1> HIDE DEF to
<1>3. Started(n)
  BY <1>1 DEF Started
<1> QED
  BY <1>2, <1>3

LEMMA ReadChanges ==
  ASSUME ReadTypeOK, NEW r \in Reader, CallOK(reads[r]), ReadStep(r)
  PROVE  \E n : reads' = [reads EXCEPT ![r] = n] /\ ReadChange(reads[r], n)
<1> DEFINE t == reads[r]
           Goal == \E n : reads' = [reads EXCEPT ![r] = n] /\ ReadChange(reads[r], n)
<1>0. TypeOK /\ reads \in [Reader -> ReadRecord] /\ t \in ReadRecord
  BY DEF ReadTypeOK
<1>1. ASSUME NEW kind \in {"objects", "tars"}, NEW p \in Project,
             NEW want \in Nat \cup {Null}, NEW queries \in Seq(SUBSET Path),
             NewVersionRange(r, kind, p, want, queries)
      PROVE  Goal
  BY <1>0, <1>1, RangeStep DEF ReadChange
<1>2. ASSUME NEW p \in Project, NEW want \in Wanted, NEW queries \in Queries,
             Get(r, p, want, queries) \/ GetUnary(r, p, want, queries)
               \/ GetCompress(r, p, want, queries)
      PROVE  Goal
  <2>1. want \in Nat \cup {Null} /\ queries \in Seq(SUBSET Path)
    BY ReadAssumption
  <2> HIDE DEF Goal
  <2> QED
    BY <1>1, <1>2, <2>1 DEF Get, GetUnary, GetCompress
<1>3. ASSUME NEW p \in Project, Inspect(r, p)
      PROVE  Goal
  <2>1. <<Path>> \in Seq(SUBSET Path)
    OBVIOUS
  <2> HIDE DEF Goal
  <2> QED
    BY <1>1, <1>3, <2>1 DEF Inspect
<1>4. ASSUME Retry(r)
      PROVE  Goal
  <2>1. /\ t.project \in Project /\ t.kind \in {"objects", "tars"} /\ t.want \in Nat \cup {Null}
        /\ t.asked \in Seq(SUBSET Path) /\ NewVersionRange(r, t.kind, t.project, t.want, t.asked)
    BY <1>0, <1>4 DEF Retry, CallOK, ReadRecord
  <2> HIDE DEF Goal, t
  <2> QED
    BY <1>1, <2>1
<1>5. ASSUME NewPackManager(r)
      PROVE  Goal
  BY <1>0, <1>5 DEF NewPackManager, ReadChange, ReadRecord
<1>6. ASSUME executeQuery(r)
      PROVE  Goal
  BY <1>0, <1>6 DEF executeQuery, ReadChange, ReadRecord
<1>7. ASSUME NEW chunk \in Chunks(t.rows), NEW found, t.pc = "load",
             loadChunk(r, chunk, found),
             \A e \in chunk : e.hash \in contents => e.hash \in found
      PROVE  Goal
  <2> DEFINE n == [t EXCEPT !.rows = t.rows \ chunk, !.sent = t.sent \cup Loaded(chunk, found)]
  <2>1. chunk \subseteq t.rows
    BY DEF Chunks
  <2>2. reads' = [reads EXCEPT ![r] = n]
    BY <1>0, <1>7 DEF loadChunk, ReadRecord
  <2>3. ReadChange(t, n)
    BY <1>7, <2>1 DEF ReadChange
  <2> QED
    BY <2>2, <2>3
<1>8. ASSUME NEW chunk \in Chunks(t.rows), NEW hits \in SUBSET known,
             GetTars(r, chunk, hits) \/ GetObjects(r, chunk, hits)
      PROVE  Goal
  <2> DEFINE found == Lookup({e.hash : e \in chunk}, hits)
  <2>1. \A e \in chunk : e.hash \in contents => e.hash \in found
    BY DEF Lookup
  <2>2. t.pc = "load" /\ (loadChunk(r, chunk, found) \/ reads' = [reads EXCEPT ![r] = NoRead])
    BY <1>8 DEF GetTars, GetObjects
  <2>3. CASE reads' = [reads EXCEPT ![r] = NoRead]
    BY <2>3 DEF ReadChange
  <2> HIDE DEF found, Goal
  <2> QED
    BY <1>7, <2>1, <2>2, <2>3 DEF Goal
<1>9. ASSUME EndRead(r)
      PROVE  Goal
  BY <1>0, <1>9 DEF EndRead, ReadChange, ReadRecord
<1>10. ASSUME Leave(r)
       PROVE  Goal
  BY <1>10 DEF Leave, ReadChange
<1> HIDE DEF Goal
<1>11. Goal
  BY <1>2, <1>3, <1>4, <1>5, <1>6, <1>8, <1>9, <1>10 DEF ReadStep
<1> QED
  BY <1>11 DEF Goal

LEMMA ChangeType ==
  ASSUME TypeOK, NEW t \in ReadRecord, CallOK(t), NEW n, ReadChange(t, n)
  PROVE  n \in ReadRecord /\ CallOK(n)
<1>1. CASE n = NoRead
  BY <1>1, NoReadType DEF CallOK, NoRead
<1>2. CASE Started(n)
  <2>1. PICK kind \in {"objects", "tars"}, p \in Project, want \in Nat \cup {Null},
             queries \in Seq(SUBSET Path), to \in Nat :
          n = [NoRead EXCEPT !.pc = IF kind = "tars" THEN "query" ELSE "patterns",
                             !.kind = kind, !.project = p, !.want = want,
                             !.asked = queries, !.to = to, !.queries = queries,
                             !.steady = Complete(p, to)]
    BY <1>2 DEF Started
  <2>2. Complete(p, to) \in BOOLEAN
    BY DEF Complete
  <2>3. n \in ReadRecord
    <3>1. n = [pc |-> IF kind = "tars" THEN "query" ELSE "patterns", kind |-> kind, project |-> p,
               want |-> want, asked |-> queries, to |-> to, queries |-> queries, rows |-> {},
               sent |-> {}, steady |-> Complete(p, to)]
      BY <2>1 DEF NoRead
    <3>2. (IF kind = "tars" THEN "query" ELSE "patterns") \in {"idle", "patterns", "query", "load", "done"}
      OBVIOUS
    <3>3. {} \in SUBSET [path : Path, hash : Hash] /\ {} \in SUBSET [path : Path, hash : Hash \cup {Null}]
      OBVIOUS
    <3> QED
      BY <2>2, <3>1, <3>2, <3>3 DEF ReadRecord
  <2>4. n.project \in Project /\ n.kind = kind
    BY <2>1 DEF NoRead
  <2> QED
    BY <2>3, <2>4 DEF CallOK
<1>3. CASE /\ t.pc \in {"query", "load"} /\ t.queries # <<>>
           /\ n = [t EXCEPT !.pc = "load", !.queries = Tail(t.queries),
                !.rows = {e \in View(objects, t.project, t.to) : e.path \in Head(t.queries)}]
  <2>1. Tail(t.queries) \in Seq(SUBSET Path)
    BY <1>3 DEF ReadRecord
  <2>2. View(objects, t.project, t.to) \in SUBSET [path : Path, hash : Hash]
    BY ViewType DEF TypeOK
  <2> QED
    BY <1>3, <2>1, <2>2 DEF ReadRecord, CallOK
<1>4. ASSUME NEW chunk, NEW found, t.pc = "load", chunk \subseteq t.rows,
             n = [t EXCEPT !.rows = t.rows \ chunk, !.sent = t.sent \cup Loaded(chunk, found)]
      PROVE  n \in ReadRecord /\ CallOK(n)
  <2>1. Loaded(chunk, found) \in SUBSET [path : Path, hash : Hash \cup {Null}]
    BY <1>4 DEF Loaded, ReadRecord
  <2> QED
    BY <1>4, <2>1 DEF ReadRecord, CallOK
<1>5. CASE t.pc = "patterns" /\ n = [t EXCEPT !.pc = "query"]
  BY <1>5 DEF ReadRecord, CallOK
<1>6. CASE t.pc = "load" /\ n = [t EXCEPT !.pc = "done"]
  BY <1>6 DEF ReadRecord, CallOK
<1> QED
  BY <1>1, <1>2, <1>3, <1>4, <1>5, <1>6 DEF ReadChange

(* What a step does to the readers' calls: one changes, or all stay, except   *)
(* that a version may stop being complete.                                    *)
LEMMA ReadTypeStep ==
  ASSUME ReadTypeOK, \A r \in Reader : CallOK(reads[r]), TypeOK', [ReadNext]_readVars
  PROVE  ReadTypeOK' /\ \A r \in Reader : CallOK(reads'[r])
<1>0. TypeOK /\ reads \in [Reader -> ReadRecord] /\ known \in SUBSET Hash
  BY DEF ReadTypeOK
<1>1. ASSUME NEW r \in Reader, ReadStep(r)
      PROVE  ReadTypeOK' /\ \A q \in Reader : CallOK(reads'[q])
  <2>1. PICK n : reads' = [reads EXCEPT ![r] = n] /\ ReadChange(reads[r], n)
    BY <1>1, ReadChanges
  <2>2. n \in ReadRecord /\ CallOK(n)
    BY <1>0, <2>1, ChangeType
  <2>3. known' \in SUBSET Hash
    <3>1. ASSUME NEW chunk \in Chunks(reads[r].rows), NEW found, loadChunk(r, chunk, found)
          PROVE  known' \in SUBSET Hash
      <4>1. chunk \subseteq reads[r].rows /\ reads[r].rows \in SUBSET [path : Path, hash : Hash]
        BY <1>0 DEF Chunks, ReadRecord
      <4> QED
        BY <1>0, <3>1, <4>1 DEF loadChunk
    <3>2. ASSUME NEW chunk \in Chunks(reads[r].rows), NEW hits,
                 GetTars(r, chunk, hits) \/ GetObjects(r, chunk, hits)
          PROVE  known' \in SUBSET Hash
      BY <1>0, <3>1, <3>2 DEF GetTars, GetObjects
    <3> QED
      BY <1>0, <1>1, <3>2 DEF ReadStep, Get, GetUnary, GetCompress, Inspect, Retry,
           NewVersionRange, NewPackManager, executeQuery, EndRead, Leave
  <2> QED
    BY <1>0, <2>1, <2>2, <2>3 DEF ReadTypeOK
<1>2. CASE WriteStep
  <2> DEFINE steady(r) == /\ reads[r].steady
                          /\ floor'[reads[r].project] <= reads[r].to
                          /\ reads[r].to <= latest'[reads[r].project]
  <2>1. reads' = [r \in Reader |-> [reads[r] EXCEPT !.steady = steady(r)]] /\ known' = known
    BY <1>2 DEF WriteStep
  <2>2. \A r \in Reader : steady(r) \in BOOLEAN
    OBVIOUS
  <2> HIDE DEF steady
  <2>3. ASSUME NEW r \in Reader
        PROVE  reads'[r] \in ReadRecord /\ CallOK(reads'[r])
    BY <1>0, <2>1, <2>2 DEF ReadRecord, CallOK
  <2> QED
    BY <1>0, <2>1, <2>3 DEF ReadTypeOK
<1>3. CASE UNCHANGED readVars
  BY <1>0, <1>3 DEF readVars, ReadTypeOK
<1> QED
  BY <1>1, <1>2, <1>3 DEF ReadNext

(* The calls that read keep their types beside every call that writes.        *)
THEOREM ReadTypeCorrect ==
  ReadSpec => []ReadTypeOK /\ [](\A r \in Reader : CallOK(reads[r]))
<1>1. ReadInit /\ TypeOK => ReadTypeOK /\ \A r \in Reader : CallOK(reads[r])
  BY NoReadType DEF ReadInit, ReadTypeOK, CallOK, NoRead
<1>2. ReadTypeOK /\ (\A r \in Reader : CallOK(reads[r])) /\ TypeOK' /\ [ReadNext]_readVars
        => ReadTypeOK' /\ (\A r \in Reader : CallOK(reads[r]))'
  BY ReadTypeStep DEF CallOK
<1> QED
  BY <1>1, <1>2, ReadersBesideStore, TypeCorrect, PTL DEF ReadSpec

-----------------------------------------------------------------------------
(* What is sent.                                                              *)

(* The files of a view that some of the queries ask for.                      *)
Matching(view, queries) == {e \in view : \E i \in DOMAIN queries : e.path \in queries[i]}

(* While a call's version stays complete, what it has sent, what it has read  *)
(* and what its remaining queries ask for are together what it was asked for. *)
ReaderInv(t) ==
  /\ t.pc = "done" => t.rows = {} /\ t.queries = <<>>
  /\ t.steady =>
       LET view == View(objects, t.project, t.to)
       IN  /\ t.pc # "idle"
           /\ Complete(t.project, t.to)
           /\ t.sent \cup t.rows \cup Matching(view, t.queries) = Matching(view, t.asked)

ReadInv == \A r \in Reader : ReaderInv(reads[r])

(* The first query, and the others.                                           *)
LEMMA MatchingTail ==
  ASSUME NEW view, NEW q \in Seq(SUBSET Path), q # <<>>
  PROVE  Matching(view, q) = {e \in view : e.path \in Head(q)} \cup Matching(view, Tail(q))
<1>1. /\ DOMAIN q = 1 .. Len(q) /\ Len(q) \in Nat \ {0} /\ Head(q) = q[1]
      /\ DOMAIN Tail(q) = 1 .. Len(q) - 1 /\ \A i \in 1 .. Len(q) - 1 : Tail(q)[i] = q[i + 1]
  OBVIOUS
<1>2. ASSUME NEW e, NEW i \in DOMAIN q, e.path \in q[i]
      PROVE  e.path \in Head(q) \/ \E j \in DOMAIN Tail(q) : e.path \in Tail(q)[j]
  <2>1. CASE i = 1
    BY <1>1, <1>2, <2>1
  <2>2. CASE i # 1
    <3>1. i - 1 \in DOMAIN Tail(q) /\ Tail(q)[i - 1] = q[i]
      BY <1>1, <2>2
    <3> QED
      BY <1>2, <3>1
  <2> QED
    BY <2>1, <2>2
<1>3. ASSUME NEW e, e.path \in Head(q) \/ \E j \in DOMAIN Tail(q) : e.path \in Tail(q)[j]
      PROVE  \E i \in DOMAIN q : e.path \in q[i]
  <2>1. CASE e.path \in Head(q)
    <3>1. 1 \in DOMAIN q
      BY <1>1
    <3> QED
      BY <1>1, <2>1, <3>1
  <2>2. CASE \E j \in DOMAIN Tail(q) : e.path \in Tail(q)[j]
    <3>1. PICK j \in DOMAIN Tail(q) : e.path \in Tail(q)[j]
      BY <2>2
    <3>2. j + 1 \in DOMAIN q /\ q[j + 1] = Tail(q)[j]
      BY <1>1
    <3> QED
      BY <3>1, <3>2
  <2> QED
    BY <1>3, <2>1, <2>2
<1> QED
  BY <1>2, <1>3 DEF Matching

(* A chunk of a complete version is sent with its contents.                   *)
LEMMA LoadedWhole ==
  ASSUME ContentsAvailable, NEW p, NEW v, NEW chunk, NEW found,
         chunk \subseteq View(objects, p, v),
         \A e \in chunk : e.hash \in contents => e.hash \in found
  PROVE  Loaded(chunk, found) = chunk
<1>1. ASSUME NEW e \in chunk
      PROVE  [path |-> e.path, hash |-> IF e.hash \in found THEN e.hash ELSE Null] = e
  <2>1. PICK r \in objects : e = Entry(r)
    BY ViewRows
  <2>2. e.hash = r.hash /\ e = [path |-> e.path, hash |-> e.hash]
    BY <2>1 DEF Entry
  <2>3. e.hash \in found
    BY <2>2 DEF ContentsAvailable
  <2> QED
    BY <2>2, <2>3
<1> QED
  BY <1>1 DEF Loaded

LEMMA ReaderStep ==
  ASSUME TypeOK, ContentsAvailable, NEW t \in ReadRecord, CallOK(t), ReaderInv(t),
         NEW n, ReadChange(t, n)
  PROVE  ReaderInv(n)
<1> DEFINE view == View(objects, t.project, t.to)
<1>1. CASE n = NoRead
  BY <1>1 DEF NoRead, ReaderInv
<1>2. CASE Started(n)
  <2>1. PICK kind \in {"objects", "tars"}, p \in Project, want \in Nat \cup {Null},
             queries \in Seq(SUBSET Path), to \in Nat :
          n = [NoRead EXCEPT !.pc = IF kind = "tars" THEN "query" ELSE "patterns",
                             !.kind = kind, !.project = p, !.want = want,
                             !.asked = queries, !.to = to, !.queries = queries,
                             !.steady = Complete(p, to)]
    BY <1>2 DEF Started
  <2>2. /\ n.pc \notin {"idle", "done"} /\ n.steady = Complete(n.project, n.to)
        /\ n.sent = {} /\ n.rows = {} /\ n.queries = n.asked
    BY <2>1 DEF NoRead
  <2> QED
    BY <2>2 DEF ReaderInv
<1>3. CASE /\ t.pc \in {"query", "load"} /\ t.rows = {} /\ t.queries # <<>>
           /\ n = [t EXCEPT !.pc = "load", !.queries = Tail(t.queries),
                             !.rows = {e \in view : e.path \in Head(t.queries)}]
  <2>1. /\ n.pc = "load" /\ n.steady = t.steady /\ n.project = t.project /\ n.to = t.to
        /\ n.asked = t.asked /\ n.sent = t.sent /\ n.queries = Tail(t.queries)
        /\ n.rows = {e \in view : e.path \in Head(t.queries)}
    BY <1>3 DEF ReadRecord
  <2>2. Matching(view, t.queries) = n.rows \cup Matching(view, n.queries)
    BY <1>3, <2>1, MatchingTail DEF ReadRecord
  <2> HIDE DEF view
  <2> QED
    BY <1>3, <2>1, <2>2 DEF ReaderInv, view
<1>4. ASSUME NEW chunk, NEW found, t.pc = "load", chunk \subseteq t.rows,
             \A e \in chunk : e.hash \in contents => e.hash \in found,
             n = [t EXCEPT !.rows = t.rows \ chunk, !.sent = t.sent \cup Loaded(chunk, found)]
      PROVE  ReaderInv(n)
  <2>1. /\ n.pc = "load" /\ n.steady = t.steady /\ n.project = t.project /\ n.to = t.to
        /\ n.asked = t.asked /\ n.queries = t.queries
        /\ n.rows = t.rows \ chunk /\ n.sent = t.sent \cup Loaded(chunk, found)
    BY <1>4 DEF ReadRecord
  <2>2. ASSUME t.steady
        PROVE  n.sent \cup n.rows = t.sent \cup t.rows
    <3>1. chunk \subseteq view
      BY <1>4, <2>2 DEF ReaderInv, Matching
    <3>2. Loaded(chunk, found) = chunk
      BY <1>4, <3>1, LoadedWhole
    <3> QED
      BY <1>4, <2>1, <3>2
  <2> QED
    BY <1>4, <2>1, <2>2 DEF ReaderInv
<1>5. CASE t.pc = "patterns" /\ n = [t EXCEPT !.pc = "query"]
  <2>1. /\ n.pc = "query" /\ n.steady = t.steady /\ n.project = t.project /\ n.to = t.to
        /\ n.asked = t.asked /\ n.sent = t.sent /\ n.queries = t.queries /\ n.rows = t.rows
    BY <1>5 DEF ReadRecord
  <2> QED
    BY <1>5, <2>1 DEF ReaderInv
<1>6. CASE t.pc = "load" /\ t.rows = {} /\ t.queries = <<>> /\ n = [t EXCEPT !.pc = "done"]
  <2>1. /\ n.pc = "done" /\ n.steady = t.steady /\ n.project = t.project /\ n.to = t.to
        /\ n.asked = t.asked /\ n.sent = t.sent /\ n.queries = t.queries /\ n.rows = t.rows
    BY <1>6 DEF ReadRecord
  <2> QED
    BY <1>6, <2>1 DEF ReaderInv
<1> QED
  BY <1>1, <1>2, <1>3, <1>4, <1>5, <1>6 DEF ReadChange

(* Every step keeps it: a reader's own step by ReaderStep, a writer's step    *)
(* because a version that is complete before and after it is the same.        *)
LEMMA ReadInvStep ==
  ASSUME SafeUse, ReadTypeOK, \A r \in Reader : CallOK(reads[r]), StoreInv,
         ContentsAvailable, ReadInv, [ReadNext]_readVars
  PROVE  ReadInv'
<1>0. TypeOK /\ reads \in [Reader -> ReadRecord]
  BY DEF ReadTypeOK
<1>1. ASSUME NEW r \in Reader, ReadStep(r)
      PROVE  ReadInv'
  <2>1. PICK n : reads' = [reads EXCEPT ![r] = n] /\ ReadChange(reads[r], n)
    BY <1>1, ReadChanges
  <2>2. ReaderInv(n)
    BY <1>0, <2>1, ReaderStep DEF ReadInv
  <2>3. \A q \in Reader : ReaderInv(reads'[q])
    BY <1>0, <2>1, <2>2 DEF ReadInv
  <2>4. UNCHANGED <<objects, floor, latest>>
    BY <1>1 DEF ReadStep, Get, GetUnary, GetCompress, Inspect, Retry, NewVersionRange,
         NewPackManager, executeQuery, GetTars, GetObjects, loadChunk, EndRead, Leave, vars
  <2> QED
    BY <2>3, <2>4 DEF ReadInv, ReaderInv, Complete, View, Live
<1>2. CASE WriteStep
  <2> SUFFICES ASSUME NEW r \in Reader
               PROVE  ReaderInv(reads[r])'
    BY DEF ReadInv
  <2> DEFINE t == reads[r]
             n == reads'[r]
  <2>1. /\ n.pc = t.pc /\ n.project = t.project /\ n.to = t.to /\ n.asked = t.asked
        /\ n.queries = t.queries /\ n.rows = t.rows /\ n.sent = t.sent
        /\ n.steady => t.steady /\ floor'[t.project] <= t.to /\ t.to <= latest'[t.project]
    BY <1>0, <1>2 DEF WriteStep, ReadRecord
  <2>2. ReaderInv(t) /\ CallOK(t) /\ t \in ReadRecord
    BY <1>0 DEF ReadInv
  <2>3. ASSUME n.steady
        PROVE  View(objects', t.project, t.to) = View(objects, t.project, t.to)
    <3>1. t.project \in Project /\ t.to \in Nat /\ t.to <= latest[t.project]
      BY <2>1, <2>2, <2>3 DEF ReaderInv, CallOK, Complete, ReadRecord
    <3>2. [Next]_vars
      BY <1>2 DEF WriteStep
    <3> QED
      BY <1>0, <2>1, <2>3, <3>1, <3>2, VersionKept
  <2> QED
    BY <2>1, <2>2, <2>3 DEF ReaderInv, Complete
<1>3. CASE UNCHANGED readVars
  BY <1>3 DEF readVars, vars, ReadInv, ReaderInv, Complete, View, Live
<1> QED
  BY <1>1, <1>2, <1>3 DEF ReadNext

(* A call that ends without an error has answered exactly the files of its    *)
(* version, with their contents, whatever was written, collected or retried   *)
(* between its statements, where resets and collections are used as the code  *)
(* asks for.                                                                  *)
THEOREM ReadsExact == SafeUse /\ QuiescentGc => (ReadSpec => []ReadExact)
<1> SUFFICES ASSUME SafeUse, QuiescentGc PROVE ReadSpec => []ReadExact
  OBVIOUS
<1>1. ReadInit => ReadInv
  BY DEF ReadInit, ReadInv, ReaderInv, NoRead
<1>2. /\ ReadTypeOK /\ (\A r \in Reader : CallOK(reads[r])) /\ StoreInv /\ ContentsAvailable
      /\ ReadInv /\ [ReadNext]_readVars
      => ReadInv'
  BY ReadInvStep
<1>3. ReadInv => ReadExact
  <2> SUFFICES ASSUME ReadInv, NEW r \in Reader, reads[r].pc = "done", reads[r].steady
               PROVE  reads[r].sent = Matching(View(objects, reads[r].project, reads[r].to),
                                               reads[r].asked)
    BY DEF ReadExact, Matching
  <2>1. ReaderInv(reads[r])
    BY DEF ReadInv
  <2>2. Matching(View(objects, reads[r].project, reads[r].to), <<>>) = {}
    BY DEF Matching
  <2> QED
    BY <2>1, <2>2 DEF ReaderInv
<1>4. Spec => []StoreInv
  BY StructureInvariant
<1>5. Spec => []ContentsAvailable
  BY ContentsNeverLost
<1> QED
  BY <1>1, <1>2, <1>3, <1>4, <1>5, ReadersBesideStore, ReadTypeCorrect, PTL DEF ReadSpec

=============================================================================
