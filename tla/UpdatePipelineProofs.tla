------------------------ MODULE UpdatePipelineProofs ------------------------
(* Proofs about TarPipeline, UpdatePipeline and PackMerge, for any number of  *)
(* workers, any channel, stream, diff and pack: a rebuild that writes the     *)
(* version file has written every tar, unless its caller gave up; the server  *)
(* publishes the whole diff or nothing, the client succeeds only for a        *)
(* published diff, and a pack is merged exactly.                              *)
EXTENDS UpdatePipeline, TLAPS, FiniteSetTheorems

(* TarPipeline: the goroutines of a rebuild.                                  *)

Busy(w) == worker[w] \in {"write", "failing"}

(* A tar that left the channel is written, or in a worker's hands, or its     *)
(* failure is known to the group.                                             *)
Accounted ==
  /\ \A w \in Workers : Busy(w) => holds[w] \in 1 .. taken
  /\ \A i \in 1 .. taken : i \in applied \/ err \/ \E w \in Workers : Busy(w) /\ holds[w] = i

(* Why a goroutine may stop early.                                            *)
Stops ==
  /\ cancelled => gone \/ err \/ receiver = "failing" \/ \E w \in Workers : worker[w] = "failing"
  /\ receiver = "done" => sent = Total \/ err \/ cancelled \/ gone
  /\ \A w \in Workers : worker[w] = "done" => err \/ (taken = sent /\ receiver = "done")
  /\ version \in Nat \ {0} => receiver = "done" /\ \A w \in Workers : worker[w] = "done"

(* All responses so far carry the tracked version.                            *)
OneVersion ==
  /\ receiver = "first" => sent = 0
  /\ receiver \in {"check", "send"} => sent < Total
  /\ receiver = "send" => answers[sent + 1] = tracked
  /\ err \/ \A i \in 1 .. sent : answers[i] = tracked

PipelineInv == TypeOK /\ Accounted /\ Stops /\ OneVersion /\ Complete

-----------------------------------------------------------------------------

LEMMA AnswersPositive ==
  ASSUME TypeOK
  PROVE  /\ Total \in Nat
         /\ \A i \in 1 .. Total : answers[i] \in Nat \ {0}
  BY PipelineAssumption DEF TypeOK, Total

LEMMA InitPipeline == Init => PipelineInv
  <1> SUFFICES ASSUME Init PROVE PipelineInv
    OBVIOUS
  <1>0. Total \in Nat
    BY PipelineAssumption DEF Init, Total
  <1>1. TypeOK
    <2>1. worker \in [Workers -> {"wait", "write", "failing", "done"}] /\ holds \in [Workers -> Nat]
      BY DEF Init
    <2>2. /\ applied \subseteq 1 .. taken
          /\ taken <= sent /\ sent <= Total /\ sent - taken <= Capacity
          /\ sent \in Nat /\ taken \in Nat /\ tracked \in Nat
      BY <1>0, PipelineAssumption DEF Init
    <2>3. gone \in BOOLEAN /\ cancelled \in BOOLEAN /\ err \in BOOLEAN
      BY DEF Init
    <2>4. /\ answers \in Answers
          /\ version \in Nat \cup {None}
          /\ receiver \in {"first", "check", "send", "recv", "failing", "done"}
      BY DEF Init
    <2> QED
      BY <2>1, <2>2, <2>3, <2>4 DEF TypeOK
  <1>2. Accounted
    BY DEF Init, Accounted, Busy
  <1>3. Stops /\ OneVersion /\ Complete
    BY PipelineAssumption DEF Init, Stops, OneVersion, Complete
  <1> QED
    BY <1>1, <1>2, <1>3 DEF PipelineInv

(* The receiver's steps.                                                      *)
LEMMA ReceiverKeepsInv == PipelineInv /\ Receiver => PipelineInv'
  <1> SUFFICES ASSUME PipelineInv, Receiver PROVE PipelineInv'
    OBVIOUS
  <1>0. Total \in Nat /\ (\A i \in 1 .. Total : answers[i] \in Nat \ {0}) /\ Total' = Total
    BY AnswersPositive DEF PipelineInv, Receiver, RecvFirst, CheckVersion, Send, Recv, ReceiverFails, Total
  <1> USE PipelineAssumption DEF PipelineInv, TypeOK, Done
  <1>1. CASE RecvFirst
    <2>1. TypeOK'
      BY <1>0, <1>1 DEF RecvFirst
    <2>2. Accounted'
      BY <1>1 DEF RecvFirst, Accounted, Busy
    <2>3. Stops'
      BY <1>0, <1>1 DEF RecvFirst, Stops
    <2>4. OneVersion' /\ Complete'
      <3>1. version = None
        BY <1>1 DEF RecvFirst, Running
      <3>2. OneVersion'
        BY <1>0, <1>1 DEF RecvFirst, OneVersion
      <3>3. Complete'
        BY <1>0, <1>1, <3>1 DEF RecvFirst, Complete
      <3> QED
        BY <3>2, <3>3
    <2> QED
      BY <2>1, <2>2, <2>3, <2>4
  <1>2. CASE CheckVersion
    <2>0. sent + 1 \in 1 .. Total
      BY <1>0, <1>2 DEF CheckVersion, OneVersion
    <2>1. TypeOK'
      BY <1>0, <1>2, <2>0 DEF CheckVersion
    <2>2. Accounted'
      BY <1>2 DEF CheckVersion, Accounted, Busy
    <2>3. Stops'
      BY <1>0, <1>2 DEF CheckVersion, Stops
    <2>4. OneVersion'
      BY <1>0, <1>2, <2>0 DEF CheckVersion, OneVersion
    <2>5. Complete'
      BY <1>0, <1>2 DEF CheckVersion, Complete
    <2> QED
      BY <2>1, <2>2, <2>3, <2>4, <2>5
  <1>3. CASE Send
    <2>1. TypeOK'
      BY <1>0, <1>3 DEF Send, OneVersion
    <2>2. Accounted'
      BY <1>3 DEF Send, Accounted, Busy
    <2>3. Stops'
      BY <1>0, <1>3 DEF Send, Stops
    <2>4. OneVersion' /\ Complete'
      BY <1>0, <1>3 DEF Send, OneVersion, Complete
    <2> QED
      BY <2>1, <2>2, <2>3, <2>4
  <1>4. CASE Recv
    <2>1. TypeOK'
      BY <1>0, <1>4 DEF Recv
    <2>2. Accounted'
      BY <1>4 DEF Recv, Accounted, Busy
    <2>3. Stops'
      BY <1>0, <1>4 DEF Recv, Stops
    <2>4. OneVersion' /\ Complete'
      BY <1>0, <1>4 DEF Recv, OneVersion, Complete
    <2> QED
      BY <2>1, <2>2, <2>3, <2>4
  <1>5. CASE ReceiverFails
    <2>1. TypeOK'
      BY <1>0, <1>5 DEF ReceiverFails
    <2>2. Accounted'
      BY <1>5 DEF ReceiverFails, Accounted, Busy
    <2>3. Stops'
      BY <1>0, <1>5 DEF ReceiverFails, Stops
    <2>4. OneVersion' /\ Complete'
      BY <1>0, <1>5 DEF ReceiverFails, OneVersion, Complete
    <2> QED
      BY <2>1, <2>2, <2>3, <2>4
  <1> QED
    BY <1>1, <1>2, <1>3, <1>4, <1>5 DEF Receiver

(* A worker's steps.                                                          *)
LEMMA WorkerKeepsInv ==
  ASSUME PipelineInv, NEW w \in Workers, Worker(w)
  PROVE  PipelineInv'
  <1>0. Total \in Nat /\ Total' = Total
    BY AnswersPositive DEF PipelineInv, Worker, Take, WriteTar, WorkerFails, Total
  <1> USE PipelineAssumption DEF PipelineInv, TypeOK, Done, Closed
  <1>1. CASE Take(w)
    <2>1. TypeOK'
      <3>1. worker' \in [Workers -> {"wait", "write", "failing", "done"}] /\ holds' \in [Workers -> Nat]
        BY <1>1 DEF Take
      <3>2. taken' \in Nat /\ taken' <= sent /\ sent - taken' <= Capacity /\ applied \subseteq 1 .. taken'
        BY <1>1 DEF Take
      <3>3. err' \in BOOLEAN /\ cancelled' \in BOOLEAN
        BY <1>1 DEF Take
      <3> QED
        BY <1>0, <1>1, <3>1, <3>2, <3>3 DEF Take
    <2>2. Accounted'
      <3>1. CASE taken' = taken
        BY <1>1, <3>1 DEF Take, Accounted, Busy
      <3>2. CASE taken' # taken
        <4>1. /\ taken' = taken + 1
              /\ holds' = [holds EXCEPT ![w] = taken + 1]
              /\ worker' = [worker EXCEPT ![w] = "write"]
              /\ worker[w] = "wait" /\ applied' = applied /\ err' = err
          BY <1>1, <3>2 DEF Take
        <4>2. \A v \in Workers : Busy(v)' => holds'[v] \in 1 .. taken'
          BY <4>1 DEF Accounted, Busy
        <4>3. ASSUME NEW i \in 1 .. taken'
              PROVE  i \in applied' \/ err' \/ \E v \in Workers : Busy(v)' /\ holds'[v] = i
          <5>1. CASE i = taken + 1
            BY <4>1, <5>1 DEF Busy
          <5>2. CASE i \in 1 .. taken
            BY <4>1, <5>2 DEF Accounted, Busy
          <5> QED
            BY <4>1, <5>1, <5>2
        <4> QED
          BY <4>2, <4>3 DEF Accounted
      <3> QED
        BY <3>1, <3>2
    <2>3. Stops'
      BY <1>0, <1>1 DEF Take, Stops
    <2>4. OneVersion' /\ Complete'
      BY <1>0, <1>1 DEF Take, OneVersion, Complete
    <2> QED
      BY <2>1, <2>2, <2>3, <2>4
  <1>2. CASE WriteTar(w)
    <2>1. TypeOK'
      <3>1. worker' \in [Workers -> {"wait", "write", "failing", "done"}]
        BY <1>2 DEF WriteTar
      <3>2. applied' \subseteq 1 .. taken
        <4>1. holds[w] \in 1 .. taken
          BY <1>2 DEF WriteTar, Accounted, Busy
        <4>2. applied' = applied \/ applied' = applied \cup {holds[w]}
          BY <1>2 DEF WriteTar
        <4> QED
          BY <4>1, <4>2
      <3>3. cancelled' \in BOOLEAN
        BY <1>2 DEF WriteTar
      <3> QED
        BY <1>0, <1>2, <3>1, <3>2, <3>3 DEF WriteTar
    <2>2. Accounted'
      BY <1>0, <1>2 DEF WriteTar, Accounted, Busy
    <2>3. Stops'
      BY <1>0, <1>2 DEF WriteTar, Stops
    <2>4. OneVersion' /\ Complete'
      BY <1>0, <1>2 DEF WriteTar, OneVersion, Complete, Stops
    <2> QED
      BY <2>1, <2>2, <2>3, <2>4
  <1>3. CASE WorkerFails(w)
    <2>1. TypeOK'
      BY <1>0, <1>3 DEF WorkerFails
    <2>2. Accounted'
      BY <1>0, <1>3 DEF WorkerFails, Accounted, Busy
    <2>3. Stops'
      BY <1>0, <1>3 DEF WorkerFails, Stops
    <2>4. OneVersion' /\ Complete'
      BY <1>0, <1>3 DEF WorkerFails, OneVersion, Complete, Stops
    <2> QED
      BY <2>1, <2>2, <2>3, <2>4
  <1> QED
    BY <1>1, <1>2, <1>3 DEF Worker

(* group.Wait: without an error, and with the caller there, every tar was     *)
(* taken, and every tar that was taken was written.                           *)
LEMMA FinishKeepsInv == PipelineInv /\ Finish => PipelineInv'
  <1> SUFFICES ASSUME PipelineInv, Finish PROVE PipelineInv'
    OBVIOUS
  <1>0. Total \in Nat /\ Total' = Total
    BY AnswersPositive DEF PipelineInv, Finish, Total
  <1>1. ~err /\ ~gone => sent = Total /\ taken = sent
    BY PipelineAssumption DEF PipelineInv, Finish, Stops
  <1>2. ~err /\ ~gone => applied = 1 .. Total /\ \A i \in 1 .. Total : answers[i] = tracked
    BY <1>0, <1>1 DEF PipelineInv, TypeOK, Finish, Accounted, Busy, OneVersion
  <1>3. Complete'
    BY <1>0, <1>2 DEF Finish, Complete
  <1>4. TypeOK' /\ Accounted' /\ Stops' /\ OneVersion'
    BY <1>0 DEF PipelineInv, TypeOK, Finish, Accounted, Busy, Stops, OneVersion
  <1> QED
    BY <1>3, <1>4 DEF PipelineInv

LEMMA PipelineInductive ==
  ASSUME PipelineInv, [Next]_vars
  PROVE  PipelineInv'
  <1>1. CASE Receiver
    BY <1>1, ReceiverKeepsInv
  <1>2. ASSUME NEW w \in Workers, Worker(w) PROVE PipelineInv'
    BY <1>2, WorkerKeepsInv
  <1>3. CASE Finish
    BY <1>3, FinishKeepsInv
  <1>4. CASE UNCHANGED vars
    BY <1>4 DEF vars, PipelineInv, TypeOK, Accounted, Busy, Stops, OneVersion, Complete, Total
  <1>5. CASE CallerCancels
    <2>1. Total' = Total
      BY <1>5 DEF CallerCancels, Total
    <2>2. TypeOK' /\ Accounted' /\ OneVersion'
      BY <1>5, <2>1 DEF CallerCancels, PipelineInv, TypeOK, Accounted, Busy, OneVersion
    <2>3. Stops' /\ Complete'
      BY <1>5, <2>1 DEF CallerCancels, PipelineInv, Stops, Complete
    <2> QED
      BY <2>2, <2>3 DEF PipelineInv
  <1> QED
    BY <1>1, <1>2, <1>3, <1>4, <1>5 DEF Next, Returned

(* The invariant holds in every state of a rebuild: no tar that left the      *)
(* channel is forgotten, and nobody stops early without a reason that the     *)
(* group or the caller knows of.                                              *)
THEOREM PipelineInvariant == Spec => []PipelineInv
  <1>1. Init => PipelineInv
    BY InitPipeline
  <1>2. PipelineInv /\ [Next]_vars => PipelineInv'
    BY PipelineInductive
  <1> QED
    BY <1>1, <1>2, PTL DEF Spec

(* Client.Rebuild writes the version file only when every tar of the stream   *)
(* was written into the directory and all carried that version, whichever     *)
(* goroutine fails and in whatever order they run, unless the caller gave up. *)
THEOREM RebuildComplete == Spec => []Complete
  <1>1. PipelineInv => Complete
    BY DEF PipelineInv
  <1> QED
    BY <1>1, PipelineInvariant, PTL

-----------------------------------------------------------------------------
(* UpdatePipeline: the goroutines of an update.                               *)

(* Sequences are functions on 1 .. n.                                         *)
LEMMA SeqFun ==
  ASSUME NEW T, NEW s \in Seq(T)
  PROVE  Len(s) \in Nat /\ s \in [1 .. Len(s) -> T] /\ DOMAIN s = 1 .. Len(s)
  OBVIOUS

LEMMA FunSeq ==
  ASSUME NEW T, NEW n \in Nat, NEW s \in [1 .. n -> T]
  PROVE  s \in Seq(T) /\ Len(s) = n /\ DOMAIN s = 1 .. n
  OBVIOUS

(* Numbers in order.                                                          *)

Increasing(s) == \A i, j \in DOMAIN s : i < j => s[i] < s[j]

Onto(s, N) == \A n \in N : \E i \in DOMAIN s : s[i] = n

(* An increasing sequence puts every number where its rank is.                *)
Rank(N, x) == Cardinality({k \in N : k <= x})

LEMMA RankFacts ==
  ASSUME NEW N \in SUBSET Nat, IsFiniteSet(N)
  PROVE  /\ \A x \in N : Rank(N, x) \in 1 .. Cardinality(N)
         /\ \A x, y \in N : x < y => Rank(N, x) < Rank(N, y)
<1> DEFINE Up(x) == {k \in N : k <= x}
<1>1. \A x \in N : IsFiniteSet(Up(x)) /\ Cardinality(Up(x)) \in Nat /\ Cardinality(Up(x)) <= Cardinality(N)
  <2> TAKE x \in N
  <2>1. Up(x) \in SUBSET N
    OBVIOUS
  <2>2. IsFiniteSet(Up(x)) /\ Cardinality(Up(x)) <= Cardinality(N)
    BY <2>1, FS_Subset
  <2> QED
    BY <2>2, FS_CardinalityType
<1>2. \A x \in N : Cardinality(Up(x)) # 0
  BY <1>1, FS_EmptySet
<1>3. ASSUME NEW x \in N, NEW y \in N, x < y
      PROVE  Cardinality(Up(x)) < Cardinality(Up(y))
  <2>0. x \in Nat /\ y \in Nat /\ y <= y /\ ~(y <= x)
    BY <1>3
  <2>1. ASSUME NEW k \in N, k <= x PROVE k <= y
    <3>1. k \in Nat
      OBVIOUS
    <3> QED
      BY <1>3, <2>0, <2>1, <3>1
  <2>2. IsFiniteSet(Up(y)) /\ Up(x) # Up(y) /\ Up(x) \in SUBSET Up(y)
    <3>1. y \in Up(y) /\ y \notin Up(x)
      BY <2>0
    <3>2. Up(x) \subseteq Up(y)
      BY <2>1
    <3> QED
      BY <1>1, <3>1, <3>2
  <2> HIDE DEF Up
  <2>3. Cardinality(Up(x)) <= Cardinality(Up(y)) /\ Cardinality(Up(y)) # Cardinality(Up(x))
    BY <2>2, FS_Subset
  <2> QED
    BY <1>1, <2>3
<1>4. Cardinality(N) \in Nat
  BY FS_CardinalityType
<1> HIDE DEF Up
<1>5. \A x \in N : Rank(N, x) = Cardinality(Up(x))
  BY DEF Rank, Up
<1> QED
  BY <1>1, <1>2, <1>3, <1>4, <1>5

(* An increasing sequence of that many numbers has them all.                  *)
LEMMA IncreasingOnto ==
  ASSUME NEW N \in SUBSET Nat, IsFiniteSet(N), NEW n \in Nat, n = Cardinality(N),
         NEW t \in [1 .. n -> N], Increasing(t)
  PROVE  Onto(t, N)
<1>1. t \in Injection(1 .. n, N)
  <2> SUFFICES ASSUME NEW i \in 1 .. n, NEW j \in 1 .. n, t[i] = t[j] PROVE i = j
    BY DEF Injection, IsInjective
  <2>1. i \in DOMAIN t /\ j \in DOMAIN t /\ t[i] \in Nat
    OBVIOUS
  <2>2. ~(i < j) /\ ~(j < i)
    BY <2>1 DEF Increasing
  <2> QED
    BY <2>2
<1>2. Cardinality(1 .. n) = n
  BY FS_Interval
<1> QED
  BY <1>1, <1>2, FS_Injection DEF Surjection, Onto

(* Every finite set of numbers can be put in order.                           *)
LEMMA InOrderFacts ==
  ASSUME NEW N \in SUBSET Nat, IsFiniteSet(N)
  PROVE  /\ Cardinality(N) \in Nat
         /\ InOrder(N) \in [1 .. Cardinality(N) -> N]
         /\ Increasing(InOrder(N)) /\ Onto(InOrder(N), N)
<1> DEFINE c == Cardinality(N)
           rank == [x \in N |-> Rank(N, x)]
           s == [i \in 1 .. c |-> CHOOSE x \in N : rank[x] = i]
<1>0. c \in Nat /\ IsFiniteSet(1 .. c) /\ Cardinality(1 .. c) = c
  BY FS_CardinalityType, FS_Interval
<1>1. rank \in Injection(N, 1 .. c)
  <2>1. rank \in [N -> 1 .. c]
    BY RankFacts
  <2>2. ASSUME NEW x \in N, NEW y \in N, rank[x] = rank[y] PROVE x = y
    <3>1. Rank(N, x) = Rank(N, y) /\ Rank(N, x) \in 1 .. c
      BY <2>2, RankFacts
    <3>2. ~(x < y) /\ ~(y < x)
      BY <3>1, RankFacts
    <3> QED
      BY <3>2
  <2> QED
    BY <2>1, <2>2 DEF Injection, IsInjective
<1>2. \A i \in 1 .. c : \E x \in N : rank[x] = i
  <2> HIDE DEF rank
  <2>1. rank \in Surjection(N, 1 .. c)
    BY <1>0, <1>1, FS_Injection
  <2> QED
    BY <2>1 DEF Surjection
<1>3. s \in [1 .. c -> N] /\ \A i \in 1 .. c : rank[s[i]] = i
  BY <1>2
<1> HIDE DEF s
<1>4. Increasing(s)
  <2> SUFFICES ASSUME NEW i \in 1 .. c, NEW j \in 1 .. c, i < j PROVE s[i] < s[j]
    BY <1>3 DEF Increasing
  <2>1. s[i] \in N /\ s[j] \in N /\ Rank(N, s[i]) = i /\ Rank(N, s[j]) = j
    BY <1>3
  <2>2. \A x, y \in N : x < y => Rank(N, x) < Rank(N, y)
    BY RankFacts
  <2>3. ~(s[j] < s[i]) /\ s[i] # s[j]
    <3>1. i \in Nat /\ j \in Nat /\ ~(j < i) /\ i # j
      BY <1>0
    <3> QED
      BY <2>1, <2>2, <3>1
  <2>4. s[i] \in Nat /\ s[j] \in Nat
    BY <2>1
  <2> QED
    BY <2>3, <2>4
<1>5. \E t \in [1 .. c -> N] : Increasing(t)
  BY <1>3, <1>4
<1>6. InOrder(N) = CHOOSE t \in [1 .. c -> N] : Increasing(t)
  BY DEF InOrder, Increasing
<1>7. InOrder(N) \in [1 .. c -> N] /\ Increasing(InOrder(N))
  BY <1>5, <1>6
<1> QED
  BY <1>0, <1>7, IncreasingOnto

(* An increasing sequence of all the numbers of N: its entries are at their   *)
(* ranks, and there is one for each rank.                                     *)
LEMMA IncreasingRank ==
  ASSUME NEW N \in SUBSET Nat, NEW n \in Nat, NEW s \in [1 .. n -> N], Increasing(s), Onto(s, N)
  PROVE  /\ IsFiniteSet(N) /\ Cardinality(N) = n
         /\ \A i \in 1 .. n : Rank(N, s[i]) = i
<1>1. ASSUME NEW M \in SUBSET N, NEW m \in 0 .. n, \A x : x \in M <=> \E i \in 1 .. m : s[i] = x
      PROVE  IsFiniteSet(M) /\ Cardinality(M) = m
  <2> DEFINE t == [i \in 1 .. m |-> s[i]]
  <2>1. t \in [1 .. m -> M] /\ \A x \in M : \E i \in 1 .. m : t[i] = x
    BY <1>1
  <2>2. ASSUME NEW i \in 1 .. m, NEW j \in 1 .. m, t[i] = t[j] PROVE i = j
    <3>0. i \in 1 .. n /\ j \in 1 .. n /\ DOMAIN s = 1 .. n
      OBVIOUS
    <3>1. s[i] = s[j] /\ i \in DOMAIN s /\ j \in DOMAIN s /\ s[i] \in Nat
      BY <2>2, <3>0
    <3>2. ~(i < j) /\ ~(j < i)
      BY <3>1 DEF Increasing
    <3> QED
      BY <3>1, <3>2
  <2> HIDE DEF t
  <2>3. t \in Bijection(1 .. m, M)
    BY <2>1, <2>2 DEF Bijection, Injection, Surjection, IsInjective
  <2>4. IsFiniteSet(1 .. m) /\ Cardinality(1 .. m) = m
    BY FS_Interval
  <2> QED
    BY <2>3, <2>4, FS_Bijection DEF ExistsBijection
<1>2. IsFiniteSet(N) /\ Cardinality(N) = n
  <2>1. \A x : x \in N <=> \E i \in 1 .. n : s[i] = x
    BY DEF Onto
  <2> QED
    BY <1>1, <2>1
<1>3. ASSUME NEW i \in 1 .. n PROVE Rank(N, s[i]) = i
  <2> DEFINE M == {k \in N : k <= s[i]}
  <2>1. ASSUME NEW j \in 1 .. n PROVE s[j] <= s[i] <=> j <= i
    <3>1. s[i] \in Nat /\ s[j] \in Nat /\ (i < j => s[i] < s[j]) /\ (j < i => s[j] < s[i])
      BY DEF Increasing
    <3> QED
      BY <3>1
  <2>2. \A x : x \in M <=> \E j \in 1 .. i : s[j] = x
    <3> TAKE x
    <3>1. ASSUME x \in M PROVE \E j \in 1 .. i : s[j] = x
      <4>1. PICK j \in 1 .. n : s[j] = x
        BY <3>1 DEF Onto
      <4> QED
        BY <2>1, <3>1, <4>1
    <3>2. ASSUME NEW j \in 1 .. i, s[j] = x PROVE x \in M
      BY <2>1, <3>2
    <3> QED
      BY <3>1, <3>2
  <2> HIDE DEF M
  <2>3. M \in SUBSET N /\ Rank(N, s[i]) = Cardinality(M)
    BY DEF M, Rank
  <2> QED
    BY <1>1, <2>2, <2>3
<1> QED
  BY <1>2, <1>3

(* There is only one order.                                                   *)
LEMMA InOrderUnique ==
  ASSUME NEW N \in SUBSET Nat, NEW n \in Nat, NEW s \in [1 .. n -> N], Increasing(s), Onto(s, N)
  PROVE  InOrder(N) = s
<1> DEFINE t == InOrder(N)
<1>1. IsFiniteSet(N) /\ Cardinality(N) = n
  BY IncreasingRank
<1>2. t \in [1 .. n -> N] /\ Increasing(t) /\ Onto(t, N)
  BY <1>1, InOrderFacts
<1> HIDE DEF t
<1>4. ASSUME NEW i \in 1 .. n PROVE t[i] = s[i]
  <2>1. Rank(N, t[i]) = i /\ Rank(N, s[i]) = i /\ t[i] \in N /\ s[i] \in N
    BY <1>2, IncreasingRank
  <2>2. \A x, y \in N : x < y => Rank(N, x) < Rank(N, y)
    BY <1>1, RankFacts
  <2>3. ~(t[i] < s[i]) /\ ~(s[i] < t[i])
    <3>1. i \in Nat /\ ~(i < i)
      OBVIOUS
    <3> QED
      BY <2>1, <2>2, <3>1
  <2>4. t[i] \in Nat /\ s[i] \in Nat
    BY <2>1
  <2> QED
    BY <2>3, <2>4
<1>5. t = s
  BY <1>2, <1>4
<1> QED
  BY <1>5 DEF t

LEMMA InOrderEmpty == InOrder({}) = <<>>
<1>1. <<>> \in [1 .. 0 -> {}] /\ Increasing(<<>>) /\ Onto(<<>>, {})
  BY DEF Increasing, Onto
<1> QED
  BY <1>1, InOrderUnique

LEMMA InOrderAll ==
  ASSUME NEW n \in Nat
  PROVE  InOrder(1 .. n) = [i \in 1 .. n |-> i]
<1> DEFINE s == [i \in 1 .. n |-> i]
<1>1. s \in [1 .. n -> 1 .. n] /\ Increasing(s) /\ Onto(s, 1 .. n) /\ 1 .. n \in SUBSET Nat
  BY DEF Increasing, Onto
<1> HIDE DEF s
<1>2. InOrder(1 .. n) = s
  BY <1>1, InOrderUnique
<1> QED
  BY <1>2 DEF s

(* A number above all the others comes last.                                  *)
LEMMA InOrderAdd ==
  ASSUME NEW N \in SUBSET Nat, IsFiniteSet(N), NEW x \in Nat, \A k \in N : k < x
  PROVE  InOrder(N \cup {x}) = Append(InOrder(N), x)
<1> DEFINE s == InOrder(N)
           n == Cardinality(N)
           t == Append(s, x)
<1>1. n \in Nat /\ s \in [1 .. n -> N] /\ Increasing(s) /\ Onto(s, N)
  BY InOrderFacts
<1> HIDE DEF s, n
<1>2. s \in Seq(N) /\ Len(s) = n
  BY <1>1
<1>3. /\ t \in [1 .. n + 1 -> N \cup {x}]
      /\ \A i \in 1 .. n : t[i] = s[i]
      /\ t[n + 1] = x
  <2>1. s \in Seq(N \cup {x})
    BY <1>1
  <2>2. t \in Seq(N \cup {x}) /\ Len(t) = n + 1
    BY <1>2, <2>1
  <2>3. (\A i \in 1 .. n : t[i] = s[i]) /\ t[n + 1] = x
    BY <1>2
  <2> HIDE DEF t
  <2>4. t \in [1 .. n + 1 -> N \cup {x}]
    BY <2>2, SeqFun
  <2> QED
    BY <2>3, <2>4
<1> HIDE DEF t
<1>4. Increasing(t)
  <2> SUFFICES ASSUME NEW i \in 1 .. n + 1, NEW j \in 1 .. n + 1, i < j PROVE t[i] < t[j]
    BY <1>3 DEF Increasing
  <2>1. i \in 1 .. n /\ (j \in 1 .. n \/ j = n + 1)
    BY <1>1
  <2>2. t[i] = s[i] /\ s[i] \in N
    BY <1>1, <1>3, <2>1
  <2>3. CASE j = n + 1
    BY <1>3, <2>2, <2>3
  <2>4. CASE j \in 1 .. n
    BY <1>1, <1>3, <2>1, <2>2, <2>4 DEF Increasing
  <2> QED
    BY <2>1, <2>3, <2>4
<1>5. Onto(t, N \cup {x})
  <2>1. DOMAIN t = 1 .. n + 1 /\ DOMAIN s = 1 .. n /\ n + 1 \in 1 .. n + 1 /\ \A i \in 1 .. n : i \in 1 .. n + 1
    BY <1>1, <1>3
  <2> QED
    BY <1>1, <1>3, <2>1 DEF Onto
<1>6. InOrder(N \cup {x}) = t
  BY <1>1, <1>3, <1>4, <1>5, InOrderUnique
<1> QED
  BY <1>6 DEF t, s

-----------------------------------------------------------------------------
(* Updates in the order of their paths.                                       *)

Sorted(s) == \A i, j \in DOMAIN s : i < j => s[i].path < s[j].path

OnePerPath(S) == \A u, w \in S : u.path = w.path => u = w

LEMMA SortByPathFacts ==
  ASSUME NEW S, IsFiniteSet(S), \A u \in S : u.path \in Nat, OnePerPath(S)
  PROVE  /\ SortByPath(S) \in Seq(S) /\ Sorted(SortByPath(S))
         /\ Onto(SortByPath(S), S)
<1> DEFINE P == {u.path : u \in S}
           p == InOrder(P)
           s == SortByPath(S)
           f == [u \in S |-> u.path]
<1>1. P \in SUBSET Nat /\ f \in Surjection(S, P)
  BY DEF Surjection
<1>2. IsFiniteSet(P)
  BY <1>1, FS_Surjection
<1>3. /\ Cardinality(P) \in Nat /\ p \in [1 .. Cardinality(P) -> P]
      /\ Increasing(p) /\ Onto(p, P)
  BY <1>1, <1>2, InOrderFacts
<1>4. s = [i \in DOMAIN p |-> CHOOSE u \in S : u.path = p[i]]
  BY DEF SortByPath
<1> HIDE DEF p, s
<1>5. DOMAIN s = DOMAIN p /\ \A i \in DOMAIN p : s[i] \in S /\ s[i].path = p[i]
  <2>1. DOMAIN s = DOMAIN p
    BY <1>4
  <2>2. ASSUME NEW i \in DOMAIN p PROVE s[i] \in S /\ s[i].path = p[i]
    <3>1. s[i] = CHOOSE u \in S : u.path = p[i]
      BY <1>4
    <3>2. p[i] \in P
      BY <1>3
    <3>3. \E u \in S : u.path = p[i]
      BY <3>2
    <3> QED
      BY <3>1, <3>3
  <2> QED
    BY <2>1, <2>2
<1>6. s \in Seq(S)
  <2>1. DOMAIN p = 1 .. Cardinality(P)
    BY <1>3
  <2>2. s \in [1 .. Cardinality(P) -> S]
    <3>1. \A i \in DOMAIN p : s[i] \in S
      BY <1>5
    <3>2. s = [i \in DOMAIN p |-> s[i]]
      BY <1>4
    <3> QED
      BY <2>1, <3>1, <3>2
  <2> HIDE DEF P
  <2> QED
    BY <1>3, <2>2, FunSeq
<1>7. Sorted(s)
  BY <1>3, <1>5 DEF Sorted, Increasing
<1>8. Onto(s, S)
  <2> SUFFICES ASSUME NEW u \in S PROVE \E i \in DOMAIN s : s[i] = u
    BY DEF Onto
  <2>1. PICK i \in DOMAIN p : p[i] = u.path
    BY <1>3 DEF Onto
  <2> QED
    BY <1>5, <2>1 DEF OnePerPath
<1> QED
  BY <1>6, <1>7, <1>8 DEF s

LEMMA SortByPathUnique ==
  ASSUME NEW S, \A u \in S : u.path \in Nat,
         NEW s \in Seq(S), Sorted(s), Onto(s, S)
  PROVE  SortByPath(S) = s
<1> DEFINE P == {u.path : u \in S}
           n == Len(s)
           p == [i \in 1 .. n |-> s[i].path]
<1>1. n \in Nat /\ s \in [1 .. n -> S]
  OBVIOUS
<1>2. P \in SUBSET Nat /\ p \in [1 .. n -> P]
  BY <1>1
<1>3. Increasing(p)
  BY <1>1 DEF Increasing, Sorted
<1>4. Onto(p, P)
  BY <1>1 DEF Onto
<1>5. InOrder(P) = p
  BY <1>1, <1>2, <1>3, <1>4, InOrderUnique
<1>6. ASSUME NEW i \in 1 .. n PROVE s[i] = CHOOSE u \in S : u.path = p[i]
  <2>1. s[i] \in S /\ s[i].path = p[i] /\ p[i] \in Nat
    BY <1>1, <1>2
  <2>2. ASSUME NEW u \in S, u.path = p[i] PROVE u = s[i]
    <3>1. PICK j \in 1 .. n : s[j] = u
      BY <1>1 DEF Onto
    <3>2. ~(i < j) /\ ~(j < i)
      BY <1>1, <2>1, <2>2, <3>1 DEF Sorted
    <3> QED
      BY <3>1, <3>2
  <2> QED
    BY <2>1, <2>2
<1> DEFINE q == InOrder(P)
<1>q. SortByPath(S) = [i \in DOMAIN q |-> CHOOSE u \in S : u.path = q[i]]
  BY DEF SortByPath
<1> HIDE DEF p, q
<1>7. SortByPath(S) = [i \in DOMAIN p |-> CHOOSE u \in S : u.path = p[i]]
  <2>1. q = p
    BY <1>5 DEF q
  <2> QED
    BY <1>q, <2>1
<1> QED
  BY <1>1, <1>2, <1>6, <1>7

-----------------------------------------------------------------------------
(* What a merged pack holds.                                                  *)

(* The part of the merged pack that the first n entries make.                 *)
KeptSeq(before, S, n) ==
  LET kept == InOrder({i \in KeptEntries(before, S) : i <= n})
  IN  [i \in DOMAIN kept |-> Now(S, before[kept[i]])]

LEMMA EntryPath == \A e \in Entry : e.path \in Nat
  BY UpdateAssumption

LEMMA NowType ==
  ASSUME NEW S \in SUBSET Entry, NEW e \in Entry
  PROVE  Now(S, e) \in Entry
  BY DEF Now, Of

(* An entry that is replaced takes the one update of its path.                *)
LEMMA NowFacts ==
  ASSUME NEW S \in SUBSET Entry, OnePerPath(S), NEW e \in Entry
  PROVE  /\ Now(S, e).path = e.path
         /\ \A u \in Of(S, e.path) : Now(S, e) = u
         /\ Of(S, e.path) = {} => Now(S, e) = e
<1>1. CASE Of(S, e.path) = {}
  BY <1>1 DEF Now
<1>2. CASE Of(S, e.path) # {}
  <2>1. Now(S, e) \in Of(S, e.path)
    BY <1>2 DEF Now
  <2> QED
    BY <1>2, <2>1 DEF Of, OnePerPath
<1> QED
  BY <1>1, <1>2

LEMMA KeptPositions ==
  ASSUME NEW before \in Seq(Entry), NEW S, NEW n \in Nat
  PROVE  LET I == {i \in KeptEntries(before, S) : i <= n}
         IN  I \in SUBSET Nat /\ IsFiniteSet(I) /\ I \in SUBSET DOMAIN before
<1> DEFINE I == {i \in KeptEntries(before, S) : i <= n}
<1>1. I \in SUBSET DOMAIN before /\ DOMAIN before = 1 .. Len(before) /\ Len(before) \in Nat
  BY DEF KeptEntries
<1>2. IsFiniteSet(1 .. Len(before))
  BY <1>1, FS_Interval
<1> HIDE DEF I
<1>3. IsFiniteSet(I)
  BY <1>1, <1>2, FS_Subset
<1>4. I \in SUBSET Nat
  BY <1>1
<1> QED
  BY <1>1, <1>3, <1>4 DEF I

LEMMA KeptSeqType ==
  ASSUME NEW before \in Seq(Entry), NEW S \in SUBSET Entry, NEW n \in Nat
  PROVE  KeptSeq(before, S, n) \in Seq(Entry)
<1> DEFINE I == {i \in KeptEntries(before, S) : i <= n}
           k == InOrder(I)
           c == Cardinality(I)
           q == KeptSeq(before, S, n)
<1>1. I \in SUBSET Nat /\ IsFiniteSet(I) /\ I \in SUBSET DOMAIN before
  BY KeptPositions
<1> HIDE DEF I
<1>2. c \in Nat /\ k \in [1 .. c -> I]
  BY <1>1, InOrderFacts
<1>3. q = [i \in DOMAIN k |-> Now(S, before[k[i]])]
  BY DEF KeptSeq, I
<1> HIDE DEF k, c, q
<1>4. \A i \in 1 .. c : Now(S, before[k[i]]) \in Entry
  <2> TAKE i \in 1 .. c
  <2>1. k[i] \in DOMAIN before
    BY <1>1, <1>2
  <2>2. before[k[i]] \in Entry
    BY <2>1
  <2> QED
    BY <2>2, NowType
<1>5. q \in [1 .. c -> Entry]
  BY <1>2, <1>3, <1>4
<1>6. q \in Seq(Entry)
  BY <1>2, <1>5, FunSeq
<1> QED
  BY <1>6 DEF q

LEMMA KeptSeqZero ==
  ASSUME NEW before \in Seq(Entry), NEW S
  PROVE  KeptSeq(before, S, 0) = <<>>
<1> DEFINE I == {i \in KeptEntries(before, S) : i <= 0}
           k == InOrder(I)
<1>1. I = {}
  BY DEF KeptEntries
<1>2. k = <<>>
  <2> HIDE DEF I
  <2> QED
    BY <1>1, InOrderEmpty
<1>3. KeptSeq(before, S, 0) = [i \in DOMAIN k |-> Now(S, before[k[i]])]
  BY DEF KeptSeq
<1> HIDE DEF k
<1> QED
  BY <1>2, <1>3

(* The next entry comes last, if it is kept.                                  *)
LEMMA KeptSeqNext ==
  ASSUME NEW before \in Seq(Entry), NEW S \in SUBSET Entry, NEW n \in Nat, n < Len(before)
  PROVE  KeptSeq(before, S, n + 1) =
           IF n + 1 \in KeptEntries(before, S)
           THEN Append(KeptSeq(before, S, n), Now(S, before[n + 1]))
           ELSE KeptSeq(before, S, n)
<1> DEFINE I(m) == {i \in KeptEntries(before, S) : i <= m}
           k == InOrder(I(n))
           l == InOrder(I(n + 1))
           c == Cardinality(I(n))
           a == KeptSeq(before, S, n)
           b == KeptSeq(before, S, n + 1)
           x == Now(S, before[n + 1])
<1>1. /\ \A m \in Nat : I(m) \in SUBSET Nat /\ IsFiniteSet(I(m)) /\ I(m) \in SUBSET DOMAIN before
      /\ KeptEntries(before, S) \subseteq Nat
  <2>1. ASSUME NEW m \in Nat
        PROVE  I(m) \in SUBSET Nat /\ IsFiniteSet(I(m)) /\ I(m) \in SUBSET DOMAIN before
    BY KeptPositions
  <2>2. KeptEntries(before, S) \subseteq Nat
    BY DEF KeptEntries
  <2> QED
    BY <2>1, <2>2
<1>2. CASE n + 1 \notin KeptEntries(before, S)
  <2>1. I(n + 1) = I(n)
    <3>1. ASSUME NEW i \in KeptEntries(before, S) PROVE i <= n + 1 <=> i <= n
      <4>1. i \in Nat /\ i # n + 1
        BY <1>1, <1>2
      <4> QED
        BY <4>1
    <3> QED
      BY <3>1
  <2> QED
    BY <1>2, <2>1 DEF KeptSeq
<1>3. CASE n + 1 \in KeptEntries(before, S)
  <2>1. I(n + 1) = I(n) \cup {n + 1}
    <3>1. ASSUME NEW i \in KeptEntries(before, S) PROVE i <= n + 1 <=> i <= n \/ i = n + 1
      <4>1. i \in Nat
        BY <1>1
      <4> QED
        BY <4>1
    <3> QED
      BY <1>3, <3>1
  <2>2. \A i \in I(n) : i < n + 1
    <3> TAKE i \in I(n)
    <3>1. i \in Nat /\ i <= n
      BY <1>1
    <3> QED
      BY <3>1
  <2>3. a = [i \in DOMAIN k |-> Now(S, before[k[i]])] /\ b = [i \in DOMAIN l |-> Now(S, before[l[i]])]
    BY DEF KeptSeq
  <2>4. a \in Seq(Entry) /\ x \in Entry
    BY KeptSeqType, NowType
  <2>5. I(n) \in SUBSET Nat /\ IsFiniteSet(I(n))
    BY <1>1
  <2> HIDE DEF I
  <2>6. c \in Nat /\ k \in [1 .. c -> I(n)] /\ I(n) \in SUBSET Nat
    BY <2>5, InOrderFacts
  <2>7. l = Append(k, n + 1)
    BY <2>1, <2>2, <2>5, InOrderAdd
  <2> HIDE DEF k, l, c, a, b, x
  <2>8. k \in Seq(Nat) /\ Len(k) = c /\ DOMAIN k = 1 .. c
    <3>1. k \in [1 .. c -> Nat]
      BY <2>6
    <3> QED
      BY <2>6, <3>1, FunSeq
  <2>9. l \in Seq(Nat) /\ Len(l) = c + 1 /\ l[c + 1] = n + 1 /\ \A i \in 1 .. c : l[i] = k[i]
    BY <2>7, <2>8
  <2>10. DOMAIN a = 1 .. c /\ Len(a) = c /\ DOMAIN l = 1 .. c + 1
    BY <2>3, <2>4, <2>6, <2>8, <2>9
  <2>11. DOMAIN b = 1 .. c + 1 /\ b[c + 1] = x /\ \A i \in 1 .. c : b[i] = a[i]
    <3>1. DOMAIN b = 1 .. c + 1
      BY <2>3, <2>10
    <3>2. b[c + 1] = x
      BY <2>3, <2>6, <2>9, <2>10 DEF x
    <3>3. ASSUME NEW i \in 1 .. c PROVE b[i] = a[i]
      <4>1. i \in DOMAIN l /\ i \in DOMAIN k
        BY <2>6, <2>8, <2>10
      <4> QED
        BY <2>3, <2>9, <4>1
    <3> QED
      BY <3>1, <3>2, <3>3
  <2>12. /\ Append(a, x) \in Seq(Entry) /\ Len(Append(a, x)) = c + 1
         /\ Append(a, x)[c + 1] = x /\ \A i \in 1 .. c : Append(a, x)[i] = a[i]
    BY <2>4, <2>10
  <2>13. b = Append(a, x)
    <3> DEFINE d == Append(a, x)
    <3> HIDE DEF d
    <3>1. d \in [1 .. c + 1 -> Entry] /\ d[c + 1] = x /\ \A i \in 1 .. c : d[i] = a[i]
      BY <2>12, SeqFun DEF d
    <3>2. \A i \in 1 .. c + 1 : b[i] = d[i]
      <4> TAKE i \in 1 .. c + 1
      <4>1. i = c + 1 \/ i \in 1 .. c
        BY <2>6
      <4> QED
        BY <2>11, <3>1, <4>1
    <3>3. b = [i \in 1 .. c + 1 |-> b[i]]
      BY <2>3, <2>10
    <3>4. b = d
      BY <3>1, <3>2, <3>3
    <3> QED
      BY <3>4 DEF d
  <2>14. b = KeptSeq(before, S, n + 1) /\ a = KeptSeq(before, S, n) /\ x = Now(S, before[n + 1])
    BY DEF a, b, x
  <2> QED
    BY <1>3, <2>13, <2>14
<1> QED
  BY <1>2, <1>3

LEMMA MergedParts ==
  ASSUME NEW before \in Seq(Entry), NEW S
  PROVE  Merged(before, S) =
           KeptSeq(before, S, Len(before)) \o SortByPath(NewEntries(before, S))
<1>1. {i \in KeptEntries(before, S) : i <= Len(before)} = KeptEntries(before, S)
  BY DEF KeptEntries
<1> QED
  BY <1>1 DEF Merged, KeptSeq

(* Updates that a pack holds already.                                         *)
Holds(m, S) ==
  /\ \A i \in DOMAIN m : \A u \in Of(S, m[i].path) : u = m[i] /\ u.hash # Deleted
  /\ \A u \in S : u.hash # Deleted => \E i \in DOMAIN m : m[i].path = u.path

LEMMA SortByPathEmpty == SortByPath({}) = <<>>
<1>1. <<>> \in Seq({}) /\ Sorted(<<>>) /\ Onto(<<>>, {})
  BY DEF Sorted, Onto
<1> QED
  BY <1>1, SortByPathUnique

(* They leave it as it is.                                                    *)
LEMMA MergedHeld ==
  ASSUME NEW m \in Seq(Entry), NEW S \in SUBSET Entry, Holds(m, S)
  PROVE  Merged(m, S) = m
<1> DEFINE n == Len(m)
           kept == InOrder(KeptEntries(m, S))
<1>1. n \in Nat /\ DOMAIN m = 1 .. n /\ m \in [1 .. n -> Entry]
  BY SeqFun
<1>2. KeptEntries(m, S) = 1 .. n
  BY <1>1 DEF KeptEntries, Holds
<1>3. NewEntries(m, S) = {}
  BY DEF NewEntries, Holds
<1>4. kept = [i \in 1 .. n |-> i]
  <2>1. kept = InOrder(1 .. n)
    BY <1>2
  <2> QED
    BY <1>1, <2>1, InOrderAll
<1>5. Merged(m, S) = [i \in DOMAIN kept |-> Now(S, m[kept[i]])] \o <<>>
  BY <1>3, SortByPathEmpty DEF Merged
<1> HIDE DEF kept
<1>6. \A i \in 1 .. n : Now(S, m[i]) = m[i]
  BY <1>1 DEF Holds, Now
<1>7. [i \in DOMAIN kept |-> Now(S, m[kept[i]])] = m
  <2> DEFINE f == [i \in DOMAIN kept |-> Now(S, m[kept[i]])]
  <2>1. DOMAIN f = 1 .. n /\ \A i \in 1 .. n : f[i] = m[i]
    BY <1>4, <1>6
  <2>2. f = [i \in 1 .. n |-> f[i]]
    BY <2>1
  <2> HIDE DEF f
  <2>3. f = m
    BY <1>1, <2>1, <2>2
  <2> QED
    BY <2>3 DEF f
<1> QED
  BY <1>5, <1>7

(* Every kept entry is there, and nothing else.                               *)
LEMMA KeptSeqEntries ==
  ASSUME NEW before \in Seq(Entry), NEW S \in SUBSET Entry, NEW n \in Nat
  PROVE  LET q == KeptSeq(before, S, n)
         IN  /\ \A i \in DOMAIN q : \E j \in KeptEntries(before, S) : q[i] = Now(S, before[j])
             /\ \A j \in KeptEntries(before, S) :
                  j <= n => \E i \in DOMAIN q : q[i] = Now(S, before[j])
<1> DEFINE I == {i \in KeptEntries(before, S) : i <= n}
           k == InOrder(I)
           q == KeptSeq(before, S, n)
<1>1. I \in SUBSET Nat /\ IsFiniteSet(I)
  BY KeptPositions
<1>2. q = [i \in DOMAIN k |-> Now(S, before[k[i]])]
  BY DEF KeptSeq
<1>3. \A j : j \in I <=> j \in KeptEntries(before, S) /\ j <= n
  OBVIOUS
<1> HIDE DEF I
<1>4. k \in [1 .. Cardinality(I) -> I] /\ Onto(k, I)
  BY <1>1, InOrderFacts
<1> HIDE DEF k, q
<1>5. \A i \in DOMAIN q : \E j \in KeptEntries(before, S) : q[i] = Now(S, before[j])
  <2> TAKE i \in DOMAIN q
  <2>1. k[i] \in I /\ q[i] = Now(S, before[k[i]])
    BY <1>2, <1>4
  <2> QED
    BY <1>3, <2>1
<1>6. ASSUME NEW j \in KeptEntries(before, S), j <= n
      PROVE  \E i \in DOMAIN q : q[i] = Now(S, before[j])
  <2>1. PICK i \in DOMAIN k : k[i] = j
    BY <1>3, <1>4, <1>6 DEF Onto
  <2> QED
    BY <1>2, <2>1
<1>7. /\ \A i \in DOMAIN q : \E j \in KeptEntries(before, S) : q[i] = Now(S, before[j])
      /\ \A j \in KeptEntries(before, S) : j <= n => \E i \in DOMAIN q : q[i] = Now(S, before[j])
  BY <1>5, <1>6
<1> QED
  BY <1>7 DEF q

(* The new updates in their order.                                            *)
LEMMA NewFacts ==
  ASSUME NEW before \in Seq(Entry), NEW S \in SUBSET Entry, IsFiniteSet(S), OnePerPath(S)
  PROVE  LET T == SortByPath(NewEntries(before, S))
         IN  T \in Seq(Entry) /\ Sorted(T) /\ Onto(T, NewEntries(before, S))
             /\ \A i \in DOMAIN T : T[i] \in NewEntries(before, S)
<1> DEFINE New == NewEntries(before, S)
           T == SortByPath(New)
<1>1. New \in SUBSET S
  BY DEF NewEntries
<1>2. IsFiniteSet(New) /\ OnePerPath(New) /\ \A u \in New : u.path \in Nat
  BY <1>1, FS_Subset, EntryPath DEF OnePerPath
<1> HIDE DEF New
<1>3. T \in Seq(New) /\ Sorted(T) /\ Onto(T, New)
  BY <1>2, SortByPathFacts
<1> HIDE DEF T
<1>4. T \in Seq(Entry) /\ \A i \in DOMAIN T : T[i] \in New
  BY <1>1, <1>3
<1> QED
  BY <1>3, <1>4 DEF T, New

LEMMA ConcatFacts ==
  ASSUME NEW a \in Seq(Entry), NEW b \in Seq(Entry)
  PROVE  /\ a \o b \in Seq(Entry)
         /\ \A i \in DOMAIN (a \o b) : (\E j \in DOMAIN a : (a \o b)[i] = a[j])
                                     \/ (\E j \in DOMAIN b : (a \o b)[i] = b[j])
         /\ \A j \in DOMAIN a : \E i \in DOMAIN (a \o b) : (a \o b)[i] = a[j]
         /\ \A j \in DOMAIN b : \E i \in DOMAIN (a \o b) : (a \o b)[i] = b[j]
<1> DEFINE c == a \o b
           m == Len(a)
           n == Len(b)
<1>1. /\ m \in Nat /\ n \in Nat /\ DOMAIN a = 1 .. m /\ DOMAIN b = 1 .. n
      /\ c \in Seq(Entry) /\ DOMAIN c = 1 .. m + n
      /\ \A i \in 1 .. m + n : c[i] = IF i <= m THEN a[i] ELSE b[i - m]
  OBVIOUS
<1> HIDE DEF c, m, n
<1>2. ASSUME NEW i \in DOMAIN c
      PROVE  (\E j \in DOMAIN a : c[i] = a[j]) \/ (\E j \in DOMAIN b : c[i] = b[j])
  <2>1. i \in 1 .. m \/ (i - m \in 1 .. n /\ ~(i <= m))
    BY <1>1
  <2> QED
    BY <1>1, <2>1
<1>3. ASSUME NEW j \in DOMAIN a PROVE \E i \in DOMAIN c : c[i] = a[j]
  <2>1. j \in 1 .. m + n /\ j <= m
    BY <1>1
  <2> QED
    BY <1>1, <2>1
<1>4. ASSUME NEW j \in DOMAIN b PROVE \E i \in DOMAIN c : c[i] = b[j]
  <2>1. j + m \in 1 .. m + n /\ ~(j + m <= m) /\ (j + m) - m = j
    BY <1>1
  <2> QED
    BY <1>1, <2>1
<1> QED
  BY <1>1, <1>2, <1>3, <1>4 DEF c

(* The merged pack holds the updates.                                         *)
LEMMA MergedHolds ==
  ASSUME NEW before \in Seq(Entry), NEW S \in SUBSET Entry, IsFiniteSet(S), OnePerPath(S)
  PROVE  Merged(before, S) \in Seq(Entry) /\ Holds(Merged(before, S), S)
<1> DEFINE q == KeptSeq(before, S, Len(before))
           New == NewEntries(before, S)
           T == SortByPath(New)
           m == Merged(before, S)
<1>0. Len(before) \in Nat /\ DOMAIN before = 1 .. Len(before)
  BY SeqFun
<1>1. m = q \o T
  BY MergedParts
<1>2. /\ q \in Seq(Entry)
      /\ \A i \in DOMAIN q : \E j \in KeptEntries(before, S) : q[i] = Now(S, before[j])
      /\ \A j \in KeptEntries(before, S) : j <= Len(before) => \E i \in DOMAIN q : q[i] = Now(S, before[j])
  BY <1>0, KeptSeqType, KeptSeqEntries
<1>3. T \in Seq(Entry) /\ Onto(T, New) /\ \A i \in DOMAIN T : T[i] \in New
  BY NewFacts
<1> HIDE DEF q, T, m
<1>c. /\ q \o T \in Seq(Entry)
      /\ \A i \in DOMAIN (q \o T) : (\E j \in DOMAIN q : (q \o T)[i] = q[j]) \/ (\E j \in DOMAIN T : (q \o T)[i] = T[j])
      /\ \A j \in DOMAIN q : \E i \in DOMAIN (q \o T) : (q \o T)[i] = q[j]
      /\ \A j \in DOMAIN T : \E i \in DOMAIN (q \o T) : (q \o T)[i] = T[j]
  BY <1>2, <1>3, ConcatFacts
<1>4. /\ m \in Seq(Entry)
      /\ \A i \in DOMAIN m : (\E j \in DOMAIN q : m[i] = q[j]) \/ (\E j \in DOMAIN T : m[i] = T[j])
      /\ \A j \in DOMAIN q : \E i \in DOMAIN m : m[i] = q[j]
      /\ \A j \in DOMAIN T : \E i \in DOMAIN m : m[i] = T[j]
  BY <1>1, <1>c
<1>5. ASSUME NEW i \in DOMAIN m, NEW u \in Of(S, m[i].path)
      PROVE  u = m[i] /\ u.hash # Deleted
  <2>1. CASE \E j \in DOMAIN q : m[i] = q[j]
    <3>1. PICK j \in KeptEntries(before, S) : m[i] = Now(S, before[j])
      BY <1>2, <2>1
    <3>2. before[j] \in Entry /\ \A w \in Of(S, before[j].path) : w.hash # Deleted
      BY DEF KeptEntries
    <3>3. m[i].path = before[j].path
      BY <3>1, <3>2, NowFacts
    <3>4. u \in Of(S, before[j].path)
      BY <3>3
    <3> QED
      BY <3>1, <3>2, <3>4, NowFacts
  <2>2. CASE \E j \in DOMAIN T : m[i] = T[j]
    <3>1. m[i] \in New
      BY <1>3, <2>2
    <3> QED
      BY <3>1 DEF NewEntries, Of, OnePerPath
  <2> QED
    BY <1>4, <2>1, <2>2
<1>6. ASSUME NEW u \in S, u.hash # Deleted
      PROVE  \E i \in DOMAIN m : m[i].path = u.path
  <2>1. CASE u \in New
    BY <1>3, <1>4, <2>1 DEF Onto
  <2>2. CASE u \notin New
    <3>1. PICK j \in DOMAIN before : before[j].path = u.path
      BY <1>6, <2>2 DEF NewEntries
    <3>2. before[j] \in Entry /\ u \in Of(S, before[j].path)
      BY <3>1 DEF Of
    <3>3. \A w \in Of(S, before[j].path) : w = u
      BY <3>2 DEF Of, OnePerPath
    <3>4. j \in KeptEntries(before, S) /\ j <= Len(before)
      BY <1>0, <1>6, <3>3 DEF KeptEntries
    <3>5. Now(S, before[j]) = u
      BY <3>2, NowFacts
    <3> QED
      BY <1>2, <1>4, <3>4, <3>5
  <2> QED
    BY <2>1, <2>2
<1>7. Holds(m, S)
  BY <1>5, <1>6 DEF Holds
<1> QED
  BY <1>4, <1>7 DEF m

-----------------------------------------------------------------------------
(* The generator of updateObjects.                                            *)

BeforePaths == {merge.before[i].path : i \in DOMAIN merge.before}

(* The entries read so far are merged, and their paths are seen.              *)
Walking ==
  /\ merge.result = "running" /\ merge.idxHint = 0
  /\ merge.seenPaths = {merge.before[i].path : i \in 1 .. merge.read}
  /\ merge.out = KeptSeq(merge.before, Updates, merge.read)

(* T is what was appended: the new updates that were seen, in their order.    *)
Appended(T) ==
  /\ merge.out = KeptSeq(merge.before, Updates, merge.read) \o T
  /\ Sorted(T)
  /\ \A i \in DOMAIN T : T[i] \in NewEntries(merge.before, Updates) /\ T[i].path \in merge.seenPaths
  /\ \A u \in NewEntries(merge.before, Updates) :
       u.path \in merge.seenPaths => \E i \in DOMAIN T : T[i] = u

Appending ==
  /\ merge.read = Len(merge.before)
  /\ BeforePaths \subseteq merge.seenPaths
  /\ \E T \in Seq(Entry) : Appended(T)
  /\ \A u, w \in Updates :
       u.path \in merge.seenPaths \ BeforePaths /\ w.path \notin merge.seenPaths => u.path < w.path

(* The hint is an index into the updates that were left, not into all of      *)
(* them: it may point too far back, but never past an unseen update.          *)
HintSound ==
  \A j \in DOMAIN merge.updates : j <= merge.idxHint => merge.updates[j].path \in merge.seenPaths

MergeInv ==
  merge.result # "none" =>
    /\ Sorted(merge.updates)
    /\ merge.read <= Len(merge.before)
    /\ HintSound
    /\ IF merge.reading THEN Walking ELSE Appending
    /\ merge.result # "running" =>
         ~merge.reading /\ Unseen = {} /\ (merge.result = "empty" <=> merge.out = <<>>)

-----------------------------------------------------------------------------
(* The upload.                                                                *)

(* The workers that have an update in their hands.                            *)
InFlight == {w \in Workers : reader[w].pc \in {"read", "check", "send"}}

Handled == count + Len(objectChan) + Cardinality(InFlight)

InHands ==
  \A w \in InFlight :
    /\ reader[w].update \in DiffUpdates
    /\ reader[w].object \in {ObjectFromFilePath(reader[w].update), None}

Somewhere(k) ==
  \/ ObjectFromFilePath(diff[k]) \in received
  \/ \E i \in DOMAIN objectChan : objectChan[i] = ObjectFromFilePath(diff[k])
  \/ \E w \in InFlight : reader[w].update = diff[k]

(* While the server waits for more: a worker gave up with an update in its    *)
(* hands, so the sender never counts them all; or a nil object is on its way, *)
(* which the server refuses; or every update that was picked is somewhere.    *)
Located ==
  \/ Handled < picked
  \/ \E i \in DOMAIN objectChan : objectChan[i] = None
  \/ \A k \in 1 .. picked : Somewhere(k)

NothingLost == remote \in {"none", "open"} /\ sender # "done" => Located

InPack == {u \in received : IsPathPacked(u.path)}

(* What the two ends of the stream know of each other.                        *)
StreamInv ==
  /\ sender = "connect" => remote = "none"
  /\ sender = "loop" => remote \in {"open", "failed"}
  /\ sender = "closing" => count = Len(diff)
  /\ remote \in {"merge", "committed"} =>
       /\ sender \in {"closing", "done"} /\ received = DiffObjects
       /\ merge.updates = SortByPath(InPack) /\ merge.result # "none"
  /\ remote = "merge" => merge.before = pack
  /\ remote = "committed" => pack = Merged(merge.before, InPack)

(* Nobody stops early without an error, and the upload ends when the sender   *)
(* has.                                                                       *)
OutcomeInv ==
  /\ stopped => failed
  /\ sender = "done" => failed \/ gone \/ remote = "committed"
  /\ phase # "upload" /\ diff # <<>> => sender = "done"

UploadInv == InHands /\ Handled <= picked /\ NothingLost /\ StreamInv /\ OutcomeInv

-----------------------------------------------------------------------------
(* The steps of the generator.                                                *)

LEMMA UpdatesFacts ==
  ASSUME merge \in MergeState, Sorted(merge.updates)
  PROVE  Updates \in SUBSET Entry /\ IsFiniteSet(Updates) /\ OnePerPath(Updates)
<1> DEFINE s == merge.updates
<1>1. s \in Seq(Entry)
  BY DEF MergeState
<1>2. Len(s) \in Nat /\ DOMAIN s = 1 .. Len(s) /\ \A i \in DOMAIN s : s[i] \in Entry
  BY <1>1
<1>3. IsFiniteSet(DOMAIN s)
  BY <1>2, FS_Interval
<1>4. s \in Surjection(DOMAIN s, Updates)
  <2>1. Updates = {s[i] : i \in DOMAIN s}
    BY DEF Updates
  <2> HIDE DEF s
  <2>2. s = [i \in DOMAIN s |-> s[i]]
    BY <1>1
  <2> QED
    BY <2>1, <2>2 DEF Surjection
<1>5. IsFiniteSet(Updates)
  BY <1>3, <1>4, FS_Surjection
<1>6. ASSUME NEW i \in DOMAIN s, NEW j \in DOMAIN s, s[i].path = s[j].path PROVE i = j
  <2>1. s[i].path \in Nat /\ i \in Nat /\ j \in Nat
    BY <1>2, EntryPath
  <2>2. ~(i < j) /\ ~(j < i)
    BY <1>6, <2>1 DEF Sorted
  <2> QED
    BY <2>1, <2>2
<1> QED
  BY <1>2, <1>5, <1>6 DEF Updates, OnePerPath

(* What no step changes.                                                      *)
MergeFixed ==
  merge'.before = merge.before /\ merge'.updates = merge.updates /\ merge'.result # "none"

LEMMA MergeNextEntry ==
  ASSUME merge \in MergeState, MergeInv, NextEntry
  PROVE  merge' \in MergeState /\ MergeInv' /\ MergeFixed
<1> DEFINE b == merge.before
           n == merge.read
           e == b[n + 1]
           U == Updates
           found == findUpdate(merge.updates, e.path)
           o == IF found = {} THEN WriteObject(merge.out, e)
                ELSE Yield(merge.out, CHOOSE u \in found : TRUE)
<1>0. /\ merge.result = "running" /\ merge.reading /\ n < Len(b)
      /\ merge' = [merge EXCEPT !.read = n + 1, !.seenPaths = merge.seenPaths \cup {e.path}, !.out = o]
  BY DEF NextEntry
<1>1. /\ b \in Seq(Entry) /\ n \in Nat /\ merge.out \in Seq(Entry) /\ merge.seenPaths \in SUBSET Nat
      /\ merge.updates \in Seq(Entry)
  BY DEF MergeState
<1>2. Sorted(merge.updates) /\ Walking
  BY <1>0 DEF MergeInv
<1>3. U \in SUBSET Entry /\ IsFiniteSet(U) /\ OnePerPath(U)
  BY <1>2, UpdatesFacts
<1>4. e \in Entry /\ n + 1 \in DOMAIN b /\ e.path \in Nat
  <2>1. n + 1 \in DOMAIN b
    BY <1>0, <1>1
  <2> QED
    BY <1>1, <2>1, EntryPath
<1>5. found = Of(U, e.path)
  BY DEF findUpdate, Of, Updates
<1>6. o = KeptSeq(b, U, n + 1)
  <2>1. KeptSeq(b, U, n + 1) = IF n + 1 \in KeptEntries(b, U)
                                THEN Append(merge.out, Now(U, e)) ELSE merge.out
    BY <1>0, <1>1, <1>2, <1>3, KeptSeqNext DEF Walking
  <2>2. n + 1 \in KeptEntries(b, U) <=> \A u \in found : u.hash # Deleted
    BY <1>4, <1>5 DEF KeptEntries
  <2>3. CASE found = {}
    BY <1>5, <2>1, <2>2, <2>3 DEF Now, WriteObject
  <2>4. CASE found # {}
    <3> DEFINE v == CHOOSE u \in found : TRUE
    <3>1. v \in found /\ v = Now(U, e)
      BY <1>5, <2>4 DEF Now
    <3>2. \A u \in found : u = v
      BY <1>3, <1>5, <3>1 DEF Of, OnePerPath
    <3>3. o = IF v.hash = Deleted THEN merge.out ELSE Append(merge.out, v)
      BY <2>4 DEF Yield, WriteObject
    <3> HIDE DEF v, o, found
    <3>4. n + 1 \in KeptEntries(b, U) <=> v.hash # Deleted
      BY <2>2, <3>1, <3>2
    <3> QED
      BY <2>1, <3>1, <3>3, <3>4
  <2> QED
    BY <2>3, <2>4
<1> HIDE DEF o, found
<1>7. o \in Seq(Entry)
  BY <1>1, <1>3, <1>6, KeptSeqType
<1>8. merge' \in MergeState
  <2>1. n + 1 \in Nat /\ merge.seenPaths \cup {e.path} \in SUBSET Nat
    BY <1>1, <1>4
  <2> QED
    BY <1>0, <1>7, <2>1 DEF MergeState
<1>9. /\ merge'.before = b /\ merge'.updates = merge.updates /\ merge'.read = n + 1
      /\ merge'.reading = merge.reading /\ merge'.idxHint = merge.idxHint
      /\ merge'.seenPaths = merge.seenPaths \cup {e.path}
      /\ merge'.out = o /\ merge'.result = merge.result
  BY <1>0 DEF MergeState
<1>10. Updates' = U
  BY <1>9 DEF Updates
<1>11. merge'.seenPaths = {b[i].path : i \in 1 .. n + 1}
  <2>1. \A i : i \in 1 .. n + 1 <=> i \in 1 .. n \/ i = n + 1
    BY <1>1
  <2> QED
    BY <1>2, <1>9, <2>1 DEF Walking
<1>12. Walking'
  <2>1. merge'.seenPaths = {merge'.before[i].path : i \in 1 .. merge'.read}
    BY <1>9, <1>11
  <2>2. merge'.out = KeptSeq(merge'.before, Updates', merge'.read)
    BY <1>6, <1>9, <1>10
  <2>3. merge'.result = "running" /\ merge'.idxHint = 0
    BY <1>0, <1>2, <1>9 DEF Walking
  <2> QED
    BY <2>1, <2>2, <2>3 DEF Walking
<1>13. HintSound'
  BY <1>1, <1>2, <1>9 DEF HintSound, Walking
<1>14. n + 1 <= Len(b)
  BY <1>0, <1>1
<1>15. MergeFixed
  BY <1>0, <1>9 DEF MergeFixed
<1> QED
  BY <1>0, <1>2, <1>8, <1>9, <1>12, <1>13, <1>14, <1>15 DEF MergeInv, Sorted

LEMMA MergeEndOfPack ==
  ASSUME merge \in MergeState, MergeInv, EndOfPack
  PROVE  merge' \in MergeState /\ MergeInv' /\ MergeFixed
<1> DEFINE b == merge.before
           U == Updates
<1>0. /\ merge.result = "running" /\ merge.reading /\ merge.read = Len(b)
      /\ merge' = [merge EXCEPT !.reading = FALSE]
  BY DEF EndOfPack
<1>1. b \in Seq(Entry) /\ merge.read \in Nat /\ merge.out \in Seq(Entry) /\ merge.updates \in Seq(Entry)
  BY DEF MergeState
<1>2. Sorted(merge.updates) /\ Walking /\ HintSound
  BY <1>0 DEF MergeInv
<1>3. merge' \in MergeState
  BY <1>0 DEF MergeState
<1>4. /\ merge'.before = b /\ merge'.updates = merge.updates /\ merge'.read = merge.read
      /\ merge'.reading = FALSE /\ merge'.idxHint = merge.idxHint
      /\ merge'.seenPaths = merge.seenPaths
      /\ merge'.out = merge.out /\ merge'.result = merge.result
  BY <1>0 DEF MergeState
<1>5. Updates' = U /\ BeforePaths' = BeforePaths
  BY <1>4 DEF Updates, BeforePaths
<1>6. merge.seenPaths = BeforePaths
  BY <1>0, <1>1, <1>2 DEF Walking, BeforePaths
<1>7. \A u \in NewEntries(b, U) : u.path \notin BeforePaths
  BY DEF NewEntries, BeforePaths
<1>8. Appended(<<>>)'
  <2>1. merge.out = KeptSeq(b, U, merge.read)
    BY <1>2 DEF Walking
  <2>2. merge.out = merge.out \o <<>>
    BY <1>1
  <2> QED
    BY <1>4, <1>5, <1>6, <1>7, <2>1, <2>2 DEF Appended, Sorted
<1>9. Appending'
  <2>1. <<>> \in Seq(Entry)
    OBVIOUS
  <2> QED
    BY <1>0, <1>4, <1>5, <1>6, <1>8, <2>1 DEF Appending
<1>10. HintSound'
  BY <1>2, <1>4 DEF HintSound
<1>11. MergeFixed
  BY <1>0, <1>4 DEF MergeFixed
<1> QED
  BY <1>0, <1>1, <1>2, <1>3, <1>4, <1>9, <1>10, <1>11 DEF MergeInv, Sorted

(* The update that comes next is the first unseen one of all.                 *)
LEMMA NextUnseen ==
  ASSUME merge \in MergeState, HintSound, Unseen # {}
  PROVE  LET i == CHOOSE j \in Unseen : \A k \in Unseen : j <= k
         IN  /\ i \in Unseen
             /\ i \in DOMAIN merge.updates /\ i > merge.idxHint
             /\ merge.updates[i].path \notin merge.seenPaths
             /\ \A j \in DOMAIN merge.updates : merge.updates[j].path \notin merge.seenPaths => i <= j
<1> DEFINE i == CHOOSE j \in Unseen : \A k \in Unseen : j <= k
           s == InOrder(Unseen)
           h == merge.idxHint
           l == Len(merge.updates)
<1>1. h \in Nat /\ l \in Nat /\ DOMAIN merge.updates = 1 .. l
  BY DEF MergeState
<1>2. Unseen = {j \in h + 1 .. l : merge.updates[j].path \notin merge.seenPaths}
  BY DEF Unseen
<1> HIDE DEF h, l
<1>3. Unseen \in SUBSET Nat /\ Unseen \in SUBSET (h + 1 .. l) /\ IsFiniteSet(h + 1 .. l)
  <2>1. IsFiniteSet(h + 1 .. l)
    <3>1. h + 1 \in Int /\ l \in Int
      BY <1>1
    <3> QED
      BY <3>1, FS_Interval
  <2>2. Unseen \in SUBSET (h + 1 .. l)
    BY <1>2
  <2>3. \A k \in h + 1 .. l : k \in Nat
    BY <1>1
  <2> QED
    BY <2>1, <2>2, <2>3
<1>4. IsFiniteSet(Unseen)
  BY <1>3, FS_Subset
<1>5. Cardinality(Unseen) \in Nat \ {0}
  BY <1>4, FS_CardinalityType, FS_EmptySet
<1>6. s \in [1 .. Cardinality(Unseen) -> Unseen] /\ Increasing(s) /\ Onto(s, Unseen)
  BY <1>3, <1>4, InOrderFacts
<1> HIDE DEF s
<1>7. s[1] \in Unseen /\ \A k \in Unseen : s[1] <= k
  <2>1. 1 \in DOMAIN s /\ s[1] \in Unseen
    BY <1>5, <1>6
  <2>2. ASSUME NEW k \in Unseen PROVE s[1] <= k
    <3>1. PICK j \in DOMAIN s : s[j] = k
      BY <1>6 DEF Onto
    <3>2. j \in Nat /\ (j = 1 \/ 1 < j) /\ s[1] \in Nat /\ s[j] \in Nat
      <4>1. j \in 1 .. Cardinality(Unseen)
        BY <1>6
      <4>2. s[1] \in Nat /\ s[j] \in Nat
        BY <1>3, <2>1, <3>1
      <4> QED
        BY <1>5, <4>1, <4>2
    <3>3. 1 < j => s[1] < s[j]
      BY <1>6, <2>1 DEF Increasing
    <3>4. s[1] <= s[j]
      BY <3>2, <3>3
    <3> QED
      BY <3>1, <3>4
  <2> QED
    BY <2>1, <2>2
<1>8. i \in Unseen /\ \A k \in Unseen : i <= k
  BY <1>7
<1> HIDE DEF i
<1>9. i \in h + 1 .. l /\ merge.updates[i].path \notin merge.seenPaths
  BY <1>2, <1>8
<1>10. i \in DOMAIN merge.updates /\ i > h
  BY <1>1, <1>9
<1>11. ASSUME NEW j \in DOMAIN merge.updates, merge.updates[j].path \notin merge.seenPaths
       PROVE  i <= j
  <2>1. ~(j <= h)
    BY <1>11 DEF HintSound, h
  <2>2. j \in h + 1 .. l
    BY <1>1, <2>1
  <2> QED
    BY <1>2, <1>8, <1>11, <2>2
<1> QED
  BY <1>8, <1>9, <1>10, <1>11 DEF i, h

LEMMA SortedAppend ==
  ASSUME NEW T \in Seq(Entry), Sorted(T), NEW u \in Entry, \A i \in DOMAIN T : T[i].path < u.path
  PROVE  /\ Append(T, u) \in Seq(Entry) /\ Sorted(Append(T, u))
         /\ \A i \in DOMAIN Append(T, u) : Append(T, u)[i] = u \/ \E j \in DOMAIN T : Append(T, u)[i] = T[j]
         /\ \A j \in DOMAIN T : \E i \in DOMAIN Append(T, u) : Append(T, u)[i] = T[j]
         /\ \E i \in DOMAIN Append(T, u) : Append(T, u)[i] = u
<1> DEFINE V == Append(T, u)
           n == Len(T)
<1>1. /\ n \in Nat /\ DOMAIN T = 1 .. n /\ DOMAIN V = 1 .. n + 1 /\ V \in Seq(Entry)
      /\ V[n + 1] = u /\ \A i \in 1 .. n : V[i] = T[i]
  OBVIOUS
<1> HIDE DEF V, n
<1>2. \A i \in 1 .. n + 1 : i = n + 1 \/ i \in 1 .. n
  BY <1>1
<1>3. n + 1 \in 1 .. n + 1 /\ \A i \in 1 .. n : i \in 1 .. n + 1
  BY <1>1
<1>4. Sorted(V)
  <2> SUFFICES ASSUME NEW i \in 1 .. n + 1, NEW j \in 1 .. n + 1, i < j PROVE V[i].path < V[j].path
    BY <1>1 DEF Sorted
  <2>1. i \in 1 .. n
    BY <1>1
  <2> QED
    BY <1>1, <1>2, <2>1 DEF Sorted
<1>5. \A i \in DOMAIN V : V[i] = u \/ \E j \in DOMAIN T : V[i] = T[j]
  BY <1>1, <1>2
<1>6. \A j \in DOMAIN T : \E i \in DOMAIN V : V[i] = T[j]
  BY <1>1, <1>3
<1>7. \E i \in DOMAIN V : V[i] = u
  BY <1>1, <1>3
<1> QED
  BY <1>1, <1>4, <1>5, <1>6, <1>7 DEF V

LEMMA AppendConcat ==
  ASSUME NEW a \in Seq(Entry), NEW c \in Seq(Entry), NEW u \in Entry
  PROVE  Append(a \o c, u) = a \o Append(c, u)
<1> DEFINE l == Append(a \o c, u)
           r == a \o Append(c, u)
           m == Len(a)
           n == Len(c)
<1>1. /\ m \in Nat /\ n \in Nat
      /\ l \in Seq(Entry) /\ r \in Seq(Entry) /\ Len(l) = m + n + 1 /\ Len(r) = m + n + 1
  OBVIOUS
<1>2. ASSUME NEW i \in 1 .. m + n + 1 PROVE l[i] = r[i]
  <2>1. CASE i <= m
    BY <2>1
  <2>2. CASE i > m /\ i <= m + n
    BY <2>2
  <2>3. CASE i = m + n + 1
    BY <2>3
  <2> QED
    BY <1>1, <2>1, <2>2, <2>3
<1> HIDE DEF l, r, m, n
<1>3. l \in [1 .. m + n + 1 -> Entry] /\ r \in [1 .. m + n + 1 -> Entry]
  <2>1. l \in [1 .. Len(l) -> Entry] /\ r \in [1 .. Len(r) -> Entry]
    BY <1>1, SeqFun
  <2> QED
    BY <1>1, <2>1
<1>4. l = r
  <2> DEFINE D == 1 .. m + n + 1
  <2>1. l \in [D -> Entry] /\ r \in [D -> Entry] /\ \A i \in D : l[i] = r[i]
    BY <1>2, <1>3
  <2> HIDE DEF D
  <2> QED
    BY <2>1
<1> QED
  BY <1>4 DEF l, r

LEMMA MergeNextUpdate ==
  ASSUME merge \in MergeState, MergeInv, NextUpdate
  PROVE  merge' \in MergeState /\ MergeInv' /\ MergeFixed
<1> DEFINE b == merge.before
           U == Updates
           i == CHOOSE j \in Unseen : \A k \in Unseen : j <= k
           h == merge.idxHint
           u == merge.updates[i]
           o == Yield(merge.out, u)
           seen == merge.seenPaths
           K == KeptSeq(b, U, merge.read)
<1>0. /\ merge.result = "running" /\ ~merge.reading /\ Unseen # {}
      /\ merge' = [merge EXCEPT !.seenPaths = seen \cup {u.path}, !.idxHint = i - h - 1, !.out = o]
  BY DEF NextUpdate
<1>1. /\ b \in Seq(Entry) /\ merge.read \in Nat /\ merge.out \in Seq(Entry) /\ seen \in SUBSET Nat
      /\ merge.updates \in Seq(Entry) /\ h \in Nat /\ merge.reading \in BOOLEAN
  BY DEF MergeState
<1>2. Sorted(merge.updates) /\ Appending /\ HintSound /\ merge.read <= Len(b)
  BY <1>0 DEF MergeInv
<1>3. U \in SUBSET Entry /\ IsFiniteSet(U) /\ OnePerPath(U)
  BY <1>2, UpdatesFacts
<1>4. /\ i \in DOMAIN merge.updates /\ i > h /\ u.path \notin seen
      /\ \A j \in DOMAIN merge.updates : merge.updates[j].path \notin seen => i <= j
  BY <1>0, <1>2, NextUnseen
<1>5. u \in U /\ u \in Entry /\ u.path \in Nat /\ i \in Nat
  <2>1. u \in U
    BY <1>4 DEF Updates
  <2>2. i \in Nat
    BY <1>1, <1>4
  <2> QED
    BY <1>3, <2>1, <2>2, EntryPath
<1> HIDE DEF i
<1>6. o = IF u.hash = Deleted THEN merge.out ELSE Append(merge.out, u)
  BY DEF Yield, WriteObject
<1> HIDE DEF o
<1>7. o \in Seq(Entry) /\ i - h - 1 \in Nat /\ seen \cup {u.path} \in SUBSET Nat
  BY <1>1, <1>4, <1>5, <1>6
<1>8. merge' \in MergeState
  BY <1>0, <1>7 DEF MergeState
<1>9. /\ merge'.before = b /\ merge'.updates = merge.updates /\ merge'.read = merge.read
      /\ merge'.reading = merge.reading /\ merge'.idxHint = i - h - 1
      /\ merge'.seenPaths = seen \cup {u.path}
      /\ merge'.out = o /\ merge'.result = "running"
  BY <1>0 DEF MergeState
<1>10. Updates' = U /\ BeforePaths' = BeforePaths
  BY <1>9 DEF Updates, BeforePaths
<1>11. HintSound'
  <2> SUFFICES ASSUME NEW j \in DOMAIN merge.updates, j <= i - h - 1
               PROVE  merge.updates[j].path \in seen
    BY <1>9 DEF HintSound
  <2>1. j \in Nat /\ ~(i <= j)
    BY <1>1, <1>5
  <2> QED
    BY <1>4, <2>1
<1>12. u.path \notin BeforePaths /\ BeforePaths \subseteq seen
  BY <1>2, <1>4 DEF Appending
<1>13. u.hash # Deleted => u \in NewEntries(b, U)
  BY <1>5, <1>12 DEF NewEntries, BeforePaths
<1>14. PICK T \in Seq(Entry) : Appended(T)
  BY <1>2 DEF Appending
<1>15. \A w \in NewEntries(b, U) : w \in U /\ w.hash # Deleted /\ w.path \notin BeforePaths
  BY DEF NewEntries, BeforePaths
<1>16. \E V \in Seq(Entry) : Appended(V)'
  <2>0. \A w \in NewEntries(b, U) : w.path = u.path => w = u
    BY <1>3, <1>5, <1>15 DEF OnePerPath
  <2>1. CASE u.hash = Deleted
    <3>1. \A w \in NewEntries(b, U) : w.path # u.path
      BY <1>15, <2>0, <2>1
    <3>2. Appended(T)'
      BY <1>6, <1>9, <1>10, <1>14, <2>1, <3>1 DEF Appended
    <3> QED
      BY <3>2
  <2>2. CASE u.hash # Deleted
    <3>1. \A j \in DOMAIN T : T[j].path < u.path
      <4> TAKE j \in DOMAIN T
      <4>1. T[j] \in NewEntries(b, U) /\ T[j].path \in seen
        BY <1>14 DEF Appended
      <4>2. T[j] \in U /\ T[j].path \in seen \ BeforePaths
        BY <1>15, <4>1
      <4> QED
        BY <1>2, <1>4, <1>5, <4>2 DEF Appending
    <3>2. Sorted(T)
      BY <1>14 DEF Appended
    <3>v. PICK V \in Seq(Entry) : V = Append(T, u)
      BY <1>5, <3>1, <3>2, SortedAppend
    <3>3. /\ V \in Seq(Entry) /\ Sorted(V)
          /\ \A j \in DOMAIN V : V[j] = u \/ \E k \in DOMAIN T : V[j] = T[k]
          /\ \A k \in DOMAIN T : \E j \in DOMAIN V : V[j] = T[k]
          /\ \E j \in DOMAIN V : V[j] = u
      BY <1>5, <3>1, <3>2, <3>v, SortedAppend
    <3>4. o = K \o V
      <4>1. merge.out = K \o T /\ K \in Seq(Entry)
        BY <1>1, <1>3, <1>14, KeptSeqType DEF Appended
      <4>2. Append(K \o T, u) = K \o Append(T, u)
        BY <1>5, <4>1, AppendConcat
      <4> QED
        BY <1>6, <2>2, <3>v, <4>1, <4>2
    <3>5. \A j \in DOMAIN V : V[j] \in NewEntries(b, U) /\ V[j].path \in seen \cup {u.path}
      BY <1>13, <1>14, <2>2, <3>3 DEF Appended
    <3>6. \A w \in NewEntries(b, U) : w.path \in seen \cup {u.path} => \E j \in DOMAIN V : V[j] = w
      <4> SUFFICES ASSUME NEW w \in NewEntries(b, U), w.path \in seen \cup {u.path}
                   PROVE  \E j \in DOMAIN V : V[j] = w
        OBVIOUS
      <4>1. CASE w = u
        BY <3>3, <4>1
      <4>2. CASE w # u
        <5>1. w.path \in seen
          BY <2>0, <4>2
        <5>2. PICK k \in DOMAIN T : T[k] = w
          BY <1>14, <5>1 DEF Appended
        <5> QED
          BY <3>3, <5>2
      <4> QED
        BY <4>1, <4>2
    <3>7. Appended(V)'
      <4>1. merge'.out = KeptSeq(merge'.before, Updates', merge'.read) \o V
        BY <1>9, <1>10, <3>4
      <4>2. NewEntries(merge'.before, Updates') = NewEntries(b, U) /\ merge'.seenPaths = seen \cup {u.path}
        BY <1>9, <1>10
      <4> HIDE DEF u
      <4> QED
        BY <3>3, <3>5, <3>6, <4>1, <4>2 DEF Appended
    <3> QED
      BY <3>3, <3>7
  <2> QED
    BY <2>1, <2>2
<1>17. ASSUME NEW v \in U, NEW w \in U,
              v.path \in (seen \cup {u.path}) \ BeforePaths, w.path \notin seen \cup {u.path}
       PROVE  v.path < w.path
  <2>1. CASE v.path \in seen
    BY <1>2, <1>17, <2>1 DEF Appending
  <2>2. CASE v.path = u.path
    <3>1. PICK j \in DOMAIN merge.updates : w = merge.updates[j]
      BY DEF Updates
    <3>2. i <= j /\ i # j /\ j \in Nat
      BY <1>1, <1>4, <1>17, <3>1
    <3>3. i < j
      BY <1>5, <3>2
    <3> QED
      BY <1>2, <1>4, <2>2, <3>1, <3>3 DEF Sorted
  <2> QED
    BY <1>17, <2>1, <2>2
<1>18. Appending'
  BY <1>2, <1>9, <1>10, <1>12, <1>16, <1>17 DEF Appending
<1>19. MergeFixed
  BY <1>9 DEF MergeFixed
<1> QED
  BY <1>0, <1>2, <1>8, <1>9, <1>11, <1>18, <1>19 DEF MergeInv, Sorted

LEMMA MergePackObjects ==
  ASSUME merge \in MergeState, MergeInv, packObjects
  PROVE  merge' \in MergeState /\ MergeInv' /\ MergeFixed
<1> DEFINE r == IF merge.out = <<>> THEN "empty" ELSE "pack"
<1>0. /\ merge.result = "running" /\ ~merge.reading /\ Unseen = {}
      /\ merge' = [merge EXCEPT !.result = r]
  BY DEF packObjects
<1>1. r \in {"pack", "empty"} /\ (r = "empty" <=> merge.out = <<>>)
  OBVIOUS
<1> HIDE DEF r
<1>2. merge' \in MergeState
  BY <1>0, <1>1 DEF MergeState
<1>3. /\ merge'.before = merge.before /\ merge'.updates = merge.updates /\ merge'.read = merge.read
      /\ merge'.reading = merge.reading /\ merge'.idxHint = merge.idxHint
      /\ merge'.seenPaths = merge.seenPaths /\ merge'.out = merge.out /\ merge'.result = r
  BY <1>0 DEF MergeState
<1>4. Unseen' = Unseen /\ Updates' = Updates /\ BeforePaths' = BeforePaths
  BY <1>3 DEF Unseen, Updates, BeforePaths
<1>5. Sorted(merge.updates) /\ Appending /\ HintSound /\ merge.read <= Len(merge.before)
  BY <1>0 DEF MergeInv
<1>6. Appending'
  BY <1>3, <1>4, <1>5 DEF Appending, Appended
<1>7. HintSound'
  BY <1>3, <1>5 DEF HintSound
<1>8. MergeFixed
  BY <1>1, <1>3 DEF MergeFixed
<1> QED
  BY <1>0, <1>1, <1>2, <1>3, <1>4, <1>5, <1>6, <1>7, <1>8 DEF MergeInv, Sorted

(* The generator starts on what the stream brought.                           *)
LEMMA MergeStarts ==
  ASSUME NEW before \in Seq(Entry), NEW S \in SUBSET Entry, IsFiniteSet(S), OnePerPath(S),
         merge' = updateObjects(before, S)
  PROVE  merge' \in MergeState /\ MergeInv'
<1> DEFINE s == SortByPath(S)
<1>1. s \in Seq(S) /\ Sorted(s)
  BY EntryPath, SortByPathFacts
<1>2. /\ merge'.before = before /\ merge'.updates = s /\ merge'.read = 0 /\ merge'.reading = TRUE
      /\ merge'.idxHint = 0 /\ merge'.seenPaths = {} /\ merge'.out = <<>> /\ merge'.result = "running"
  BY DEF updateObjects, FromBytes, NoMerge
<1> HIDE DEF s
<1>3. s \in Seq(Entry)
  BY <1>1
<1>4. merge' \in MergeState
  <2>1. merge' = [before |-> before, updates |-> s, read |-> 0, reading |-> TRUE, idxHint |-> 0,
                  seenPaths |-> {}, out |-> <<>>, result |-> "running"]
    BY DEF updateObjects, FromBytes, NoMerge, s
  <2> QED
    BY <1>3, <2>1 DEF MergeState
<1>5. Walking'
  <2>1. KeptSeq(before, Updates', 0) = <<>>
    BY KeptSeqZero
  <2>2. {merge'.before[i].path : i \in 1 .. 0} = {}
    OBVIOUS
  <2> QED
    BY <1>2, <2>1, <2>2 DEF Walking
<1>6. HintSound'
  BY <1>2, <1>3 DEF HintSound
<1>7. 0 <= Len(before)
  OBVIOUS
<1> QED
  BY <1>1, <1>2, <1>4, <1>5, <1>6, <1>7 DEF MergeInv

LEMMA MergeKeeps ==
  ASSUME merge \in MergeState, MergeInv, MergeStep
  PROVE  merge' \in MergeState /\ MergeInv' /\ MergeFixed
  BY MergeNextEntry, MergeEndOfPack, MergeNextUpdate, MergePackObjects DEF MergeStep

(* When the generator ends, it has made the merged pack.                      *)
LEMMA MergeEnds ==
  ASSUME merge \in MergeState, MergeInv, merge.result \in {"pack", "empty"}
  PROVE  /\ merge.out = Merged(merge.before, Updates)
         /\ merge.result = "empty" <=> merge.out = <<>>
         /\ Merged(merge.out, Updates) = merge.out
<1> DEFINE b == merge.before
           U == Updates
           New == NewEntries(b, U)
<1>1. /\ Sorted(merge.updates) /\ HintSound /\ Appending /\ Unseen = {}
      /\ merge.result = "empty" <=> merge.out = <<>>
  BY DEF MergeInv
<1>2. U \in SUBSET Entry /\ IsFiniteSet(U) /\ OnePerPath(U)
  BY <1>1, UpdatesFacts
<1>3. b \in Seq(Entry) /\ merge.updates \in Seq(Entry) /\ merge.idxHint \in Nat
  BY DEF MergeState
<1>4. \A u \in U : u.path \in merge.seenPaths
  <2> SUFFICES ASSUME NEW j \in DOMAIN merge.updates PROVE merge.updates[j].path \in merge.seenPaths
    BY DEF Updates
  <2>1. CASE j <= merge.idxHint
    BY <1>1, <2>1 DEF HintSound
  <2>2. CASE ~(j <= merge.idxHint)
    <3>1. j \in merge.idxHint + 1 .. Len(merge.updates)
      BY <1>3, <2>2
    <3> QED
      BY <1>1, <3>1 DEF Unseen
  <2> QED
    BY <2>1, <2>2
<1>5. PICK T \in Seq(Entry) : Appended(T)
  BY <1>1 DEF Appending
<1>6. T \in Seq(New) /\ Sorted(T) /\ Onto(T, New) /\ \A u \in New : u.path \in Nat
  <2>1. (\A i \in DOMAIN T : T[i] \in New) /\ Sorted(T)
    BY <1>5 DEF Appended
  <2>2. New \subseteq U
    BY DEF NewEntries
  <2>3. Onto(T, New)
    BY <1>4, <1>5, <2>2 DEF Appended, Onto
  <2>4. T \in Seq(New)
    <3>1. T \in [1 .. Len(T) -> Entry] /\ Len(T) \in Nat /\ DOMAIN T = 1 .. Len(T)
      BY SeqFun
    <3>2. T \in [1 .. Len(T) -> New]
      BY <2>1, <3>1
    <3> QED
      BY <3>1, <3>2, FunSeq
  <2> QED
    BY <1>2, <2>1, <2>2, <2>3, <2>4, EntryPath
<1>7. T = SortByPath(New)
  BY <1>6, SortByPathUnique
<1>8. merge.out = Merged(b, U)
  <2>1. merge.out = KeptSeq(b, U, Len(b)) \o SortByPath(New)
    BY <1>1, <1>5, <1>7 DEF Appended, Appending
  <2> QED
    BY <1>3, <2>1, MergedParts
<1>9. Merged(merge.out, U) = merge.out
  BY <1>2, <1>3, <1>8, MergedHolds, MergedHeld
<1> QED
  BY <1>1, <1>8, <1>9

-----------------------------------------------------------------------------
(* The steps of the upload.                                                   *)

UpdateInv == PipelineInv /\ UploadTypeOK /\ MergeInv /\ UploadInv

LEMMA MergeSame ==
  ASSUME MergeInv, merge' = merge
  PROVE  MergeInv'
<1>1. Updates' = Updates /\ BeforePaths' = BeforePaths /\ Unseen' = Unseen
  BY DEF Updates, BeforePaths, Unseen
<1>2. Walking => Walking'
  BY <1>1 DEF Walking
<1>3. Appending => Appending'
  BY <1>1 DEF Appending, Appended
<1>4. HintSound => HintSound'
  BY DEF HintSound
<1> QED
  BY <1>1, <1>2, <1>3, <1>4 DEF MergeInv

(* What is sent for an update is an entry of the same path.                   *)
LEMMA EntryClosed ==
  ASSUME NEW e \in Entry
  PROVE  ObjectFromFilePath(e) \in Entry /\ ObjectFromFilePath(e).path = e.path
<1> DEFINE given == UNION {{s[i] : i \in DOMAIN s} : s \in Diffs \cup Packs}
<1>0. Entry = given \cup {ObjectFromFilePath(u) : u \in given}
  BY DEF Entry
<1> HIDE DEF given
<1>1. ObjectFromFilePath(e).path = e.path
  BY DEF ObjectFromFilePath
<1>2. CASE e \in given
  BY <1>0, <1>1, <1>2
<1>3. CASE e \notin given
  <2>1. PICK u \in given : e = ObjectFromFilePath(u)
    BY <1>0, <1>3
  <2>2. e.hash # Vanished
    BY <2>1, UpdateAssumption DEF ObjectFromFilePath
  <2> QED
    BY <1>1, <2>2 DEF ObjectFromFilePath
<1> QED
  BY <1>2, <1>3

LEMMA ObjectFacts ==
  ASSUME DiffUpdates \in SUBSET Entry, IsFiniteSet(DiffUpdates), OnePerPath(DiffUpdates)
  PROVE  /\ DiffObjects \in SUBSET Entry /\ None \notin DiffObjects
         /\ IsFiniteSet(DiffObjects) /\ OnePerPath(DiffObjects)
         /\ \A u \in DiffUpdates : ObjectFromFilePath(u) \in DiffObjects
<1>1. \A u \in DiffUpdates : /\ ObjectFromFilePath(u) \in Entry /\ ObjectFromFilePath(u).path = u.path
                            /\ ObjectFromFilePath(u) \in DiffObjects
  BY EntryClosed DEF DiffObjects
<1>2. DiffObjects \in SUBSET Entry
  BY <1>1 DEF DiffObjects
<1>3. None \notin DiffObjects
  BY <1>2, UpdateAssumption
<1>4. IsFiniteSet(DiffObjects)
  <2> DEFINE made == [u \in DiffUpdates |-> ObjectFromFilePath(u)]
  <2>1. made \in [DiffUpdates -> DiffObjects]
    BY <1>1
  <2>2. \A o \in DiffObjects : \E u \in DiffUpdates : made[u] = o
    BY DEF DiffObjects
  <2>3. made \in Surjection(DiffUpdates, DiffObjects)
    BY <2>1, <2>2 DEF Surjection
  <2> QED
    BY <2>3, FS_Surjection
<1>5. OnePerPath(DiffObjects)
  <2> SUFFICES ASSUME NEW a \in DiffObjects, NEW b \in DiffObjects, a.path = b.path PROVE a = b
    BY DEF OnePerPath
  <2>1. PICK u \in DiffUpdates : a = ObjectFromFilePath(u)
    BY DEF DiffObjects
  <2>2. PICK v \in DiffUpdates : b = ObjectFromFilePath(v)
    BY DEF DiffObjects
  <2>3. u.path = v.path
    BY <1>1, <2>1, <2>2
  <2> QED
    BY <2>1, <2>2, <2>3 DEF OnePerPath
<1> QED
  BY <1>1, <1>2, <1>3, <1>4, <1>5

LEMMA DiffFacts ==
  ASSUME UploadTypeOK
  PROVE  /\ diff \in Seq(Entry) /\ Len(diff) \in Nat /\ DiffUpdates \in SUBSET Entry
         /\ None \notin DiffUpdates /\ IsFiniteSet(DiffUpdates) /\ OnePerPath(DiffUpdates)
         /\ \A k \in 1 .. Len(diff) : diff[k] \in DiffUpdates
         /\ DiffObjects \in SUBSET Entry /\ None \notin DiffObjects
         /\ IsFiniteSet(DiffObjects) /\ OnePerPath(DiffObjects)
         /\ \A u \in DiffUpdates : ObjectFromFilePath(u) \in DiffObjects
<1>0. diff \in Diffs \/ diff = <<>>
  BY DEF UploadTypeOK
<1>1. diff \in Seq(Entry)
  <2>1. Diffs \subseteq Seq(Entry) /\ <<>> \in Seq(Entry)
    BY UpdateAssumption
  <2> QED
    BY <1>0, <2>1
<1>2. Len(diff) \in Nat /\ DOMAIN diff = 1 .. Len(diff) /\ diff \in [1 .. Len(diff) -> Entry]
  BY <1>1, SeqFun
<1>3. DiffUpdates \in SUBSET Entry /\ \A k \in 1 .. Len(diff) : diff[k] \in DiffUpdates
  BY <1>2 DEF DiffUpdates
<1>4. None \notin DiffUpdates
  BY <1>3, UpdateAssumption
<1>5. IsFiniteSet(DiffUpdates)
  <2>1. IsFiniteSet(1 .. Len(diff))
    BY <1>2, FS_Interval
  <2>2. diff \in [1 .. Len(diff) -> DiffUpdates]
    BY <1>2, <1>3
  <2>3. diff \in Surjection(1 .. Len(diff), DiffUpdates)
    BY <2>2 DEF Surjection, DiffUpdates
  <2> QED
    BY <2>1, <2>3, FS_Surjection
<1>6. \A i, j \in 1 .. Len(diff) : diff[i].path = diff[j].path => i = j
  BY <1>0, UpdateAssumption
<1>7. OnePerPath(DiffUpdates)
  BY <1>6 DEF OnePerPath, DiffUpdates
<1> QED
  BY <1>1, <1>2, <1>3, <1>4, <1>5, <1>7, ObjectFacts

LEMMA SameDiff ==
  ASSUME diff' = diff
  PROVE  DiffUpdates' = DiffUpdates /\ DiffObjects' = DiffObjects /\ ReaderState' = ReaderState
  BY DEF DiffUpdates, DiffObjects, ReaderState

Flying(r) == r.pc \in {"read", "check", "send"}

LEMMA InFlightFinite ==
  ASSUME UploadTypeOK
  PROVE  IsFiniteSet(InFlight) /\ Cardinality(InFlight) \in Nat
<1>1. InFlight \in SUBSET Workers
  BY DEF InFlight
<1>2. IsFiniteSet(InFlight)
  BY <1>1, UpdateAssumption, FS_Subset
<1> QED
  BY <1>2, FS_CardinalityType

(* One worker's step in the count of those that have an update.               *)
LEMMA InFlightStep ==
  ASSUME UploadTypeOK, NEW w \in Workers, NEW r, reader' = [reader EXCEPT ![w] = r]
  PROVE  /\ InFlight' = IF Flying(r) THEN InFlight \cup {w} ELSE InFlight \ {w}
         /\ Cardinality(InFlight') =
              IF Flying(r) THEN IF w \in InFlight THEN Cardinality(InFlight) ELSE Cardinality(InFlight) + 1
              ELSE IF w \in InFlight THEN Cardinality(InFlight) - 1 ELSE Cardinality(InFlight)
         /\ reader'[w] = r /\ \A v \in Workers \ {w} : reader'[v] = reader[v]
         /\ w \in InFlight <=> Flying(reader[w])
<1>1. reader'[w] = r /\ \A v \in Workers \ {w} : reader'[v] = reader[v]
  BY DEF UploadTypeOK
<1>2. InFlight' = IF Flying(r) THEN InFlight \cup {w} ELSE InFlight \ {w}
  BY <1>1 DEF InFlight, Flying
<1>3. IsFiniteSet(InFlight)
  BY InFlightFinite
<1>4. /\ Cardinality(InFlight \cup {w}) =
           IF w \in InFlight THEN Cardinality(InFlight) ELSE Cardinality(InFlight) + 1
      /\ Cardinality(InFlight \ {w}) =
           IF w \in InFlight THEN Cardinality(InFlight) - 1 ELSE Cardinality(InFlight)
  BY <1>3, FS_AddElement, FS_RemoveElement
<1>5. w \in InFlight <=> Flying(reader[w])
  BY DEF InFlight, Flying
<1> QED
  BY <1>1, <1>2, <1>4, <1>5

(* What a step of a worker has to show.                                       *)
LEMMA ReaderKeeps ==
  ASSUME UploadTypeOK, MergeInv, UploadInv,
         NEW w \in Workers, NEW r \in ReaderState, reader' = [reader EXCEPT ![w] = r],
         Flying(r) => r.update \in DiffUpdates /\ r.object \in {ObjectFromFilePath(r.update), None},
         UNCHANGED <<phase, diff, sender, count, answer, remote, received, pack, merge, gone>>,
         picked' \in 0 .. Len(diff), sharedErr' \in BOOLEAN, stopped' \in BOOLEAN, failed' \in BOOLEAN,
         stopped' => failed', failed => failed',
         objectChan' \in Seq(DiffObjects \cup {None}), Len(objectChan') <= ObjectRoom,
         Handled' <= picked', NothingLost'
  PROVE  UploadTypeOK' /\ MergeInv' /\ UploadInv'
<1>1. DiffUpdates' = DiffUpdates /\ DiffObjects' = DiffObjects /\ ReaderState' = ReaderState
  BY SameDiff
<1>2. reader' \in [Workers -> ReaderState']
  BY <1>1 DEF UploadTypeOK
<1>3. count \in 0 .. picked'
  <2>1. InFlight' \in SUBSET Workers
    BY DEF InFlight
  <2>2. IsFiniteSet(InFlight')
    BY <2>1, UpdateAssumption, FS_Subset
  <2>3. Cardinality(InFlight') \in Nat
    BY <2>2, FS_CardinalityType
  <2>4. Len(objectChan') \in Nat /\ count \in Nat
    BY DEF UploadTypeOK
  <2>5. count + Len(objectChan') + Cardinality(InFlight') <= picked'
    BY DEF Handled
  <2> QED
    BY <2>3, <2>4, <2>5 DEF UploadTypeOK
<1>4. UploadTypeOK'
  BY <1>1, <1>2, <1>3 DEF UploadTypeOK
<1>5. InHands'
  <2> SUFFICES ASSUME NEW v \in InFlight'
               PROVE  /\ reader'[v].update \in DiffUpdates
                      /\ reader'[v].object \in {ObjectFromFilePath(reader'[v].update), None}
    BY <1>1 DEF InHands
  <2>0. /\ InFlight' = IF Flying(r) THEN InFlight \cup {w} ELSE InFlight \ {w}
        /\ reader'[w] = r /\ \A x \in Workers \ {w} : reader'[x] = reader[x]
    BY InFlightStep
  <2>1. (v = w /\ Flying(r)) \/ v \in InFlight \ {w}
    BY <2>0
  <2>2. InFlight \subseteq Workers
    BY DEF InFlight
  <2> QED
    BY <2>0, <2>1, <2>2 DEF UploadInv, InHands
<1>6. StreamInv'
  BY <1>1 DEF UploadInv, StreamInv, InPack
<1>7. OutcomeInv'
  BY DEF UploadInv, OutcomeInv
<1> QED
  BY <1>4, <1>5, <1>6, <1>7, MergeSame DEF UploadInv

(* A worker keeps its update, or has none before and after.                   *)
LEMMA WorkerKeepsUpdate ==
  ASSUME UploadTypeOK, UploadInv, NEW w \in Workers, NEW r, reader' = [reader EXCEPT ![w] = r],
         Flying(r) <=> Flying(reader[w]), Flying(r) => r.update = reader[w].update,
         UNCHANGED <<diff, picked, count, objectChan, sender, remote, received>>
  PROVE  Handled' <= picked' /\ NothingLost'
<1>1. InFlight' = InFlight /\ Cardinality(InFlight') = Cardinality(InFlight)
  <2>1. /\ InFlight' = IF Flying(r) THEN InFlight \cup {w} ELSE InFlight \ {w}
        /\ w \in InFlight <=> Flying(reader[w])
    BY InFlightStep
  <2>2. InFlight' = InFlight
    BY <2>1
  <2> QED
    BY <2>2
<1>2. \A v \in InFlight : reader'[v].update = reader[v].update
  <2>1. /\ reader'[w] = r /\ \A v \in Workers \ {w} : reader'[v] = reader[v]
        /\ w \in InFlight <=> Flying(reader[w])
    BY InFlightStep
  <2> QED
    BY <2>1 DEF InFlight
<1>3. Handled' = Handled
  BY <1>1 DEF Handled
<1>4. \A k : Somewhere(k) => Somewhere(k)'
  BY <1>1, <1>2 DEF Somewhere
<1> QED
  BY <1>3, <1>4 DEF UploadInv, NothingLost, Located

(* A worker gives up: the sender will never have counted all.                 *)
LEMMA WorkerDropsUpdate ==
  ASSUME UploadTypeOK, UploadInv, NEW w \in Workers, NEW r, reader' = [reader EXCEPT ![w] = r],
         Flying(reader[w]), ~Flying(r), UNCHANGED <<picked, count, objectChan>>
  PROVE  Handled' <= picked' /\ NothingLost'
<1>1. Cardinality(InFlight') = Cardinality(InFlight) - 1
  BY InFlightStep
<1>2. Cardinality(InFlight) \in Nat /\ Len(objectChan) \in Nat /\ count \in Nat /\ picked \in Nat
  BY InFlightFinite DEF UploadTypeOK
<1>3. count + Len(objectChan) + Cardinality(InFlight) <= picked
  BY DEF UploadInv, Handled
<1>4. Handled' = count + Len(objectChan) + (Cardinality(InFlight) - 1)
  BY <1>1 DEF Handled
<1>5. Handled' < picked' /\ Handled' <= picked'
  BY <1>2, <1>3, <1>4
<1> QED
  BY <1>5 DEF NothingLost, Located

(* A worker takes the next update.                                            *)
LEMMA WorkerTakesUpdate ==
  ASSUME UploadTypeOK, UploadInv, NEW w \in Workers, NEW r, reader' = [reader EXCEPT ![w] = r],
         ~Flying(reader[w]), Flying(r), r.update = diff[picked + 1], picked' = picked + 1,
         UNCHANGED <<diff, count, objectChan, sender, remote, received>>
  PROVE  Handled' <= picked' /\ NothingLost'
<1>0. /\ InFlight' = InFlight \cup {w} /\ w \notin InFlight
      /\ reader'[w] = r /\ \A v \in Workers \ {w} : reader'[v] = reader[v]
  BY InFlightStep
<1>1. Cardinality(InFlight') = Cardinality(InFlight) + 1
  BY InFlightStep
<1>2. Cardinality(InFlight) \in Nat /\ Len(objectChan) \in Nat /\ count \in Nat /\ picked \in Nat
  BY InFlightFinite DEF UploadTypeOK
<1>3. count + Len(objectChan) + Cardinality(InFlight) <= picked
  BY DEF UploadInv, Handled
<1>4. Handled' = count + Len(objectChan) + (Cardinality(InFlight) + 1)
  BY <1>1 DEF Handled
<1>5. Handled' <= picked' /\ (Handled < picked => Handled' < picked')
  BY <1>2, <1>3, <1>4 DEF Handled
<1>6. \A k : Somewhere(k) => Somewhere(k)'
  BY <1>0 DEF Somewhere, InFlight
<1>7. Somewhere(picked)'
  BY <1>0 DEF Somewhere
<1>8. \A k \in 1 .. picked' : k \in 1 .. picked \/ k = picked'
  BY <1>2
<1> QED
  BY <1>5, <1>6, <1>7, <1>8 DEF UploadInv, NothingLost, Located

LEMMA UploadReaderKeeps ==
  ASSUME UploadTypeOK, MergeInv, UploadInv, NEW w \in Workers, UploadReader(w),
         UNCHANGED <<vars, phase, diff>>
  PROVE  UploadTypeOK' /\ MergeInv' /\ UploadInv'
<1>0. gone' = gone /\ phase' = phase /\ diff' = diff
  BY DEF vars
<1>1. /\ reader \in [Workers -> ReaderState] /\ reader[w] \in ReaderState
      /\ picked \in 0 .. Len(diff) /\ sharedErr \in BOOLEAN /\ stopped \in BOOLEAN /\ failed \in BOOLEAN
      /\ objectChan \in Seq(DiffObjects \cup {None}) /\ Len(objectChan) <= ObjectRoom
      /\ stopped => failed
  BY DEF UploadTypeOK, UploadInv, OutcomeInv
<1>2. Len(diff) \in Nat /\ \A k \in 1 .. Len(diff) : diff[k] \in DiffUpdates
  BY DiffFacts
<1>3. Ended \in ReaderState /\ Waiting \in ReaderState /\ ~Flying(Ended) /\ ~Flying(Waiting)
  BY DEF Ended, Waiting, ReaderState, Flying
<1>4. Flying(reader[w]) => /\ reader[w].update \in DiffUpdates
                           /\ reader[w].object \in {ObjectFromFilePath(reader[w].update), None}
  BY DEF UploadInv, InHands, InFlight, Flying
<1>5. ASSUME PickUpdate(w) PROVE UploadTypeOK' /\ MergeInv' /\ UploadInv'
  <2>0. ~Flying(reader[w])
    BY <1>5 DEF PickUpdate, Flying
  <2>1. UNCHANGED <<sharedErr, objectChan, sender, count, stopped, failed, answer, remote, received, pack, merge>>
    BY <1>5 DEF PickUpdate, serverVars
  <2>2. CASE reader' = [reader EXCEPT ![w] = Ended] /\ picked' = picked
    <3>1. Handled' <= picked' /\ NothingLost'
      BY <1>0, <1>3, <2>0, <2>1, <2>2, WorkerKeepsUpdate
    <3> QED
      BY <1>0, <1>1, <1>3, <2>1, <2>2, <3>1, ReaderKeeps
  <2>3. CASE /\ picked < Len(diff) /\ picked' = picked + 1
             /\ reader' = [reader EXCEPT ![w] = [Waiting EXCEPT !.pc = "read", !.update = diff[picked + 1]]]
    <3> DEFINE r == [Waiting EXCEPT !.pc = "read", !.update = diff[picked + 1]]
    <3>1. picked + 1 \in 1 .. Len(diff)
      BY <1>1, <1>2, <2>3
    <3>2. diff[picked + 1] \in DiffUpdates
      BY <1>2, <3>1
    <3>3. /\ r \in ReaderState /\ Flying(r) /\ r.update = diff[picked + 1] /\ r.object = None
          /\ r.update \in DiffUpdates
      BY <1>3, <3>2 DEF ReaderState, Flying, Waiting
    <3> HIDE DEF r
    <3>4. reader' = [reader EXCEPT ![w] = r]
      BY <2>3 DEF r
    <3>5. Handled' <= picked' /\ NothingLost'
      BY <1>0, <2>0, <2>1, <2>3, <3>3, <3>4, WorkerTakesUpdate
    <3>6. picked' \in 0 .. Len(diff)
      BY <2>3, <3>1
    <3> QED
      BY <1>0, <1>1, <2>1, <3>3, <3>4, <3>5, <3>6, ReaderKeeps
  <2> QED
    BY <1>5, <2>2, <2>3 DEF PickUpdate, Reader
<1>6. ASSUME ReadFile(w) PROVE UploadTypeOK' /\ MergeInv' /\ UploadInv'
  <2> DEFINE u == reader[w].update
  <2>0. /\ Flying(reader[w]) /\ u \in DiffUpdates /\ reader[w].object \in {ObjectFromFilePath(u), None}
        /\ ObjectFromFilePath(u) \in DiffObjects
    BY <1>4, <1>6, DiffFacts DEF ReadFile, Flying
  <2>1. UNCHANGED <<picked, objectChan, sender, count, stopped, failed, answer, remote, received, pack, merge>>
    BY <1>6 DEF ReadFile, serverVars
  <2>2. \E r \in {[reader[w] EXCEPT !.pc = "send", !.object = ObjectFromFilePath(u)],
                    [reader[w] EXCEPT !.pc = "check", !.object = ObjectFromFilePath(u)],
                   [reader[w] EXCEPT !.pc = "check"]} :
          reader' = [reader EXCEPT ![w] = r] /\ sharedErr' \in BOOLEAN
    <3>1. u.hash = Deleted => ObjectFromFilePath(u) = u
      BY UpdateAssumption DEF ObjectFromFilePath
    <3> QED
      BY <1>1, <1>6, <3>1 DEF ReadFile, Reader
  <2>3. PICK r \in {[reader[w] EXCEPT !.pc = "send", !.object = ObjectFromFilePath(u)],
                    [reader[w] EXCEPT !.pc = "check", !.object = ObjectFromFilePath(u)],
                    [reader[w] EXCEPT !.pc = "check"]} :
          reader' = [reader EXCEPT ![w] = r] /\ sharedErr' \in BOOLEAN
    BY <2>2
  <2>4. r \in ReaderState /\ Flying(r) /\ r.update = u /\ r.object \in {ObjectFromFilePath(u), None}
    BY <1>1, <2>0 DEF ReaderState, Flying
  <2>5. Handled' <= picked' /\ NothingLost'
    BY <1>0, <2>0, <2>1, <2>3, <2>4, WorkerKeepsUpdate
  <2> QED
    BY <1>0, <1>1, <2>0, <2>1, <2>3, <2>4, <2>5, ReaderKeeps
<1>7. ASSUME CheckErr(w) PROVE UploadTypeOK' /\ MergeInv' /\ UploadInv'
  <2>0. Flying(reader[w]) /\ reader[w].update \in DiffUpdates
    BY <1>4, <1>7 DEF CheckErr, Flying
  <2>1. UNCHANGED <<picked, sharedErr, objectChan, sender, count, answer, remote, received, pack, merge>>
    BY <1>7 DEF CheckErr, serverVars
  <2>2. CASE sharedErr
    <3>1. stopped' = TRUE /\ failed' = TRUE /\ reader' = [reader EXCEPT ![w] = Ended]
      BY <1>7, <2>2 DEF CheckErr, Reader
    <3>2. Handled' <= picked' /\ NothingLost'
      BY <1>3, <2>0, <2>1, <3>1, WorkerDropsUpdate
    <3> QED
      BY <1>0, <1>1, <1>3, <2>1, <3>1, <3>2, ReaderKeeps
  <2>3. CASE ~sharedErr
    <3> DEFINE r == [reader[w] EXCEPT !.pc = "send"]
    <3>1. stopped' = stopped /\ failed' = failed /\ reader' = [reader EXCEPT ![w] = r]
      BY <1>7, <2>3 DEF CheckErr, Reader
    <3>2. /\ r \in ReaderState /\ Flying(r) /\ r.update = reader[w].update
          /\ r.object = reader[w].object
      BY <1>1 DEF ReaderState, Flying
    <3> HIDE DEF r
    <3>3. Handled' <= picked' /\ NothingLost'
      BY <1>0, <2>0, <2>1, <3>1, <3>2, WorkerKeepsUpdate
    <3> QED
      BY <1>0, <1>1, <1>4, <2>0, <2>1, <3>1, <3>2, <3>3, ReaderKeeps
  <2> QED
    BY <2>2, <2>3
<1>8. ASSUME SendObject(w) PROVE UploadTypeOK' /\ MergeInv' /\ UploadInv'
  <2> DEFINE o == reader[w].object
             u == reader[w].update
  <2>0. /\ Flying(reader[w]) /\ u \in DiffUpdates /\ o \in {ObjectFromFilePath(u), None}
        /\ ObjectFromFilePath(u) \in DiffObjects
    BY <1>4, <1>8, DiffFacts DEF SendObject, Flying
  <2>1. UNCHANGED <<picked, sharedErr, sender, count, stopped, failed, answer, remote, received, pack, merge>>
    BY <1>8 DEF SendObject, serverVars
  <2>2. CASE reader' = [reader EXCEPT ![w] = Ended] /\ objectChan' = objectChan
    <3>1. Handled' <= picked' /\ NothingLost'
      BY <1>3, <2>0, <2>1, <2>2, WorkerDropsUpdate
    <3> QED
      BY <1>0, <1>1, <1>3, <2>1, <2>2, <3>1, ReaderKeeps
  <2>3. CASE /\ Len(objectChan) < ObjectRoom /\ objectChan' = Append(objectChan, o)
             /\ reader' = [reader EXCEPT ![w] = Waiting]
    <3> DEFINE n == Len(objectChan)
    <3>1. /\ n \in Nat /\ objectChan' \in Seq(DiffObjects \cup {None}) /\ Len(objectChan') = n + 1
          /\ DOMAIN objectChan = 1 .. n /\ DOMAIN objectChan' = 1 .. n + 1
          /\ objectChan'[n + 1] = o /\ \A i \in 1 .. n : objectChan'[i] = objectChan[i]
      BY <1>1, <2>0, <2>3
    <3> HIDE DEF n, o, u
    <3>2. Len(objectChan') <= ObjectRoom
      BY <2>3, <3>1, UpdateAssumption DEF n
    <3>3. /\ InFlight' = InFlight \ {w} /\ Cardinality(InFlight') = Cardinality(InFlight) - 1
          /\ \A v \in Workers \ {w} : reader'[v] = reader[v]
      BY <1>3, <2>0, <2>3, InFlightStep
    <3>4. Cardinality(InFlight) \in Nat /\ count \in Nat
      BY InFlightFinite DEF UploadTypeOK
    <3>5. Handled' = Handled
      <4>1. Handled' = count + (n + 1) + (Cardinality(InFlight) - 1) /\ Handled = count + n + Cardinality(InFlight)
        BY <2>1, <3>1, <3>3 DEF Handled, n
      <4> QED
        BY <3>1, <3>4, <4>1
    <3>6. n + 1 \in 1 .. n + 1 /\ \A i \in 1 .. n : i \in 1 .. n + 1
      BY <3>1
    <3>7. CASE o = None
      <4>1. \E i \in DOMAIN objectChan' : objectChan'[i] = None
        BY <3>1, <3>6, <3>7
      <4> QED
        BY <1>0, <1>1, <1>3, <2>1, <2>3, <3>1, <3>2, <3>5, <4>1, ReaderKeeps DEF UploadInv, NothingLost, Located
    <3>8. CASE o # None
      <4>1. o = ObjectFromFilePath(u)
        BY <2>0, <3>8
      <4>2. ASSUME NEW k, Somewhere(k) PROVE Somewhere(k)'
        <5>1. CASE ObjectFromFilePath(diff[k]) \in received
          BY <1>0, <2>1, <5>1 DEF Somewhere
        <5>2. CASE \E i \in DOMAIN objectChan : objectChan[i] = ObjectFromFilePath(diff[k])
          BY <1>0, <3>1, <3>6, <5>2 DEF Somewhere
        <5>3. ASSUME NEW v \in InFlight, reader[v].update = diff[k] PROVE Somewhere(k)'
          <6>1. CASE v = w
            BY <1>0, <3>1, <3>6, <4>1, <5>3, <6>1 DEF Somewhere, u
          <6>2. CASE v # w
            BY <1>0, <3>3, <5>3, <6>2 DEF Somewhere, InFlight
          <6> QED
            BY <6>1, <6>2
        <5> QED
          BY <4>2, <5>1, <5>2, <5>3 DEF Somewhere
      <4>3. ASSUME NEW i \in DOMAIN objectChan, objectChan[i] = None
            PROVE  \E j \in DOMAIN objectChan' : objectChan'[j] = None
        BY <3>1, <3>6, <4>3
      <4>4. NothingLost'
        BY <2>1, <3>5, <4>2, <4>3 DEF UploadInv, NothingLost, Located
      <4> QED
        BY <1>0, <1>1, <1>3, <2>1, <2>3, <3>1, <3>2, <3>5, <4>4, ReaderKeeps DEF UploadInv
    <3> QED
      BY <3>7, <3>8
  <2> QED
    BY <1>8, <2>2, <2>3 DEF SendObject, Reader
<1> QED
  BY <1>5, <1>6, <1>7, <1>8 DEF UploadReader

(* A step of others leaves the updates where they are.                        *)
LEMMA SameLocated ==
  ASSUME UNCHANGED <<diff, picked, count, objectChan, reader, received>>
  PROVE  /\ InFlight' = InFlight /\ Handled' = Handled /\ DiffObjects' = DiffObjects /\ InPack' = InPack
         /\ InHands => InHands'
         /\ Located => Located'
<1>1. /\ InFlight' = InFlight /\ InPack' = InPack
      /\ DiffUpdates' = DiffUpdates /\ DiffObjects' = DiffObjects
  BY DEF InFlight, DiffUpdates, DiffObjects, InPack
<1>2. Handled' = Handled
  BY <1>1 DEF Handled
<1>3. InHands => InHands'
  BY <1>1 DEF InHands
<1>4. \A k : Somewhere(k) => Somewhere(k)'
  BY <1>1 DEF Somewhere
<1>5. Located => Located'
  BY <1>2, <1>4 DEF Located
<1> QED
  BY <1>1, <1>2, <1>3, <1>5

(* Types, when the goroutines' counters and channels stay as they are.        *)
LEMMA SameTypes ==
  ASSUME UploadTypeOK, UNCHANGED <<diff, picked, count, objectChan, reader, sharedErr>>,
         phase' \in {"upload", "rebuild", "done", "panicked"},
         stopped' \in BOOLEAN, failed' \in BOOLEAN,
         sender' \in {"connect", "loop", "closing", "done"},
         remote' \in {"none", "open", "merge", "committed", "failed"},
         received' = received, pack' \in Seq(Entry), merge' \in MergeState,
         answer' \in (0 .. 2) \cup {None}
  PROVE  UploadTypeOK'
<1>1. DiffUpdates' = DiffUpdates /\ DiffObjects' = DiffObjects /\ ReaderState' = ReaderState
  BY SameDiff
<1> QED
  BY <1>1 DEF UploadTypeOK

LEMMA ConnectKeeps ==
  ASSUME UploadTypeOK, MergeInv, UploadInv, phase = "upload", Connect, UNCHANGED <<vars, phase, diff>>
  PROVE  UploadTypeOK' /\ MergeInv' /\ UploadInv'
<1>1. UNCHANGED <<diff, picked, count, objectChan, reader, received, sharedErr, pack, merge, answer, gone, phase>>
  BY DEF Connect, vars
<1>2. sender = "connect" /\ remote = "none"
  BY DEF Connect, UploadInv, StreamInv
<1>3. \/ sender' = "loop" /\ remote' = "open" /\ stopped' = stopped /\ failed' = failed
      \/ sender' = "done" /\ remote' = remote /\ stopped' = TRUE /\ failed' = TRUE
  BY DEF Connect, SenderFails
<1>4. UploadTypeOK'
  <2>1. /\ stopped' \in BOOLEAN /\ failed' \in BOOLEAN
        /\ sender' \in {"connect", "loop", "closing", "done"}
        /\ remote' \in {"none", "open", "merge", "committed", "failed"}
    BY <1>2, <1>3 DEF UploadTypeOK
  <2> QED
    BY <1>1, <2>1, SameTypes DEF UploadTypeOK
<1>5. MergeInv'
  BY <1>1, MergeSame
<1>6. InHands' /\ Handled' <= picked' /\ NothingLost'
  BY <1>1, <1>2, <1>3, SameLocated DEF UploadInv, NothingLost
<1>7. StreamInv'
  BY <1>1, <1>2, <1>3 DEF UploadInv, StreamInv
<1>8. OutcomeInv'
  BY <1>1, <1>2, <1>3 DEF UploadInv, OutcomeInv
<1> QED
  BY <1>4, <1>5, <1>6, <1>7, <1>8 DEF UploadInv

LEMMA SenderLoopKeeps ==
  ASSUME UploadTypeOK, MergeInv, UploadInv, phase = "upload", SenderLoop, UNCHANGED <<vars, phase, diff>>
  PROVE  UploadTypeOK' /\ MergeInv' /\ UploadInv'
<1>1. UNCHANGED <<diff, picked, reader, sharedErr, pack, merge, answer, gone, phase>>
  BY DEF SenderLoop, vars
<1>2. sender = "loop" /\ remote \in {"open", "failed"} /\ stopped \in BOOLEAN /\ failed \in BOOLEAN
      /\ (stopped => failed)
  BY DEF SenderLoop, UploadInv, StreamInv, OutcomeInv, UploadTypeOK
<1>3. MergeInv'
  BY <1>1, MergeSame
<1>4. CASE /\ UNCHANGED <<objectChan, count, stopped, failed, remote, received>>
           /\ \/ sender' = "done" /\ GroupDone
              \/ sender' = "closing" /\ count = Len(diff)
  <2>1. UploadTypeOK'
    BY <1>1, <1>2, <1>4, SameTypes DEF UploadTypeOK
  <2>2. InHands' /\ Handled' <= picked' /\ NothingLost'
    BY <1>1, <1>2, <1>4, SameLocated DEF UploadInv, NothingLost
  <2>3. StreamInv'
    BY <1>1, <1>2, <1>4 DEF UploadInv, StreamInv
  <2>4. OutcomeInv'
    BY <1>1, <1>2, <1>4 DEF UploadInv, OutcomeInv, GroupDone
  <2> QED
    BY <1>3, <2>1, <2>2, <2>3, <2>4 DEF UploadInv
<1>5. CASE objectChan # <<>> /\ objectChan' = Tail(objectChan) /\ count' = count + 1
  <2> DEFINE n == Len(objectChan)
             x == Head(objectChan)
             D == DiffObjects \cup {None}
  <2>1. /\ n \in Nat /\ n > 0 /\ x \in D /\ x = objectChan[1]
        /\ DOMAIN objectChan = 1 .. n
        /\ objectChan' \in Seq(D) /\ Len(objectChan') = n - 1 /\ DOMAIN objectChan' = 1 .. n - 1
        /\ \A i \in 1 .. n - 1 : objectChan'[i] = objectChan[i + 1]
    <3>1. objectChan \in Seq(D)
      BY DEF UploadTypeOK
    <3> HIDE DEF D
    <3> QED
      BY <1>5, <3>1
  <2>2. \/ /\ \/ remote = "open" /\ x = None /\ remote' = "failed" /\ received' = received
              \/ remote = "open" /\ x # None /\ remote' = "open" /\ received' = received \cup {x}
              \/ remote = "failed" /\ remote' = "failed" /\ received' = received
           /\ sender' = sender /\ stopped' = stopped /\ failed' = failed
        \/ /\ sender' = "done" /\ stopped' = TRUE /\ failed' = TRUE
           /\ remote' = remote /\ received' = received
    BY <1>5 DEF SenderLoop, SenderFails
  <2> HIDE DEF x, n, D
  <2>3. InFlight' = InFlight /\ DiffUpdates' = DiffUpdates /\ DiffObjects' = DiffObjects /\ ReaderState' = ReaderState
    BY <1>1, SameDiff DEF InFlight
  <2>4. Cardinality(InFlight) \in Nat /\ count \in Nat /\ picked \in Nat /\ n <= ObjectRoom
    BY InFlightFinite DEF UploadTypeOK, n
  <2>5. Handled' = Handled
    <3>1. Handled' = (count + 1) + (n - 1) + Cardinality(InFlight) /\ Handled = count + n + Cardinality(InFlight)
      BY <1>5, <2>1, <2>3 DEF Handled, n
    <3> QED
      BY <2>1, <2>4, <3>1
  <2>6. Handled' <= picked' /\ count' \in 0 .. picked
    <3>1. count + n + Cardinality(InFlight) <= picked
      BY DEF UploadInv, Handled, n
    <3>2. count + 1 \in 0 .. picked
      BY <2>1, <2>4, <3>1
    <3> QED
      BY <1>1, <1>5, <2>5, <3>2 DEF UploadInv
  <2>7. received' \subseteq DiffObjects
    BY <2>1, <2>2 DEF UploadTypeOK, D
  <2>8. UploadTypeOK'
    <3>1. n - 1 <= ObjectRoom
      BY <2>1, <2>4, UpdateAssumption
    <3>2. /\ sender' \in {"connect", "loop", "closing", "done"}
          /\ remote' \in {"none", "open", "merge", "committed", "failed"}
          /\ stopped' \in BOOLEAN /\ failed' \in BOOLEAN
      BY <1>2, <2>2
    <3>3. objectChan' \in Seq(DiffObjects \cup {None}) /\ Len(objectChan') <= ObjectRoom
      BY <2>1, <3>1 DEF D
    <3> QED
      BY <1>1, <2>3, <2>6, <2>7, <3>2, <3>3 DEF UploadTypeOK
  <2>9. InHands'
    BY <1>1, <2>3 DEF UploadInv, InHands
  <2>10. NothingLost'
    <3> SUFFICES ASSUME remote' \in {"none", "open"}, sender' # "done" PROVE Located'
      BY DEF NothingLost
    <3>1. remote = "open" /\ x # None /\ received' = received \cup {x}
      BY <2>2
    <3>2. Located
      BY <1>2, <3>1 DEF UploadInv, NothingLost
    <3>3. ASSUME NEW i \in DOMAIN objectChan, i # 1
          PROVE  \E j \in DOMAIN objectChan' : objectChan'[j] = objectChan[i]
      <4>1. i - 1 \in 1 .. n - 1 /\ (i - 1) + 1 = i
        BY <2>1, <3>3
      <4> QED
        BY <2>1, <4>1
    <3>4. ASSUME NEW k, Somewhere(k) PROVE Somewhere(k)'
      <4>1. CASE ObjectFromFilePath(diff[k]) \in received
        BY <1>1, <3>1, <4>1 DEF Somewhere
      <4>2. ASSUME NEW i \in DOMAIN objectChan, objectChan[i] = ObjectFromFilePath(diff[k]) PROVE Somewhere(k)'
        <5>1. CASE i = 1
          BY <1>1, <2>1, <3>1, <4>2, <5>1 DEF Somewhere
        <5>2. CASE i # 1
          BY <1>1, <3>3, <4>2, <5>2 DEF Somewhere
        <5> QED
          BY <5>1, <5>2
      <4>3. CASE \E v \in InFlight : reader[v].update = diff[k]
        BY <1>1, <2>3, <4>3 DEF Somewhere
      <4> QED
        BY <3>4, <4>1, <4>2, <4>3 DEF Somewhere
    <3>5. ASSUME NEW i \in DOMAIN objectChan, objectChan[i] = None
          PROVE  \E j \in DOMAIN objectChan' : objectChan'[j] = None
      <4>1. i # 1
        BY <2>1, <3>1, <3>5
      <4> QED
        BY <3>3, <3>5, <4>1
    <3> QED
      BY <1>1, <2>5, <3>2, <3>4, <3>5 DEF Located
  <2>11. StreamInv'
    BY <1>1, <1>2, <2>2 DEF UploadInv, StreamInv
  <2>12. OutcomeInv'
    BY <1>1, <1>2, <2>2 DEF UploadInv, OutcomeInv
  <2> QED
    BY <1>3, <2>6, <2>8, <2>9, <2>10, <2>11, <2>12 DEF UploadInv
<1> QED
  BY <1>4, <1>5 DEF SenderLoop

(* The packed part of what the server has received.                           *)
LEMMA InPackFacts ==
  ASSUME UploadTypeOK
  PROVE  InPack \in SUBSET Entry /\ IsFiniteSet(InPack) /\ OnePerPath(InPack)
<1>1. InPack \in SUBSET DiffObjects
  BY DEF InPack, UploadTypeOK
<1> QED
  BY <1>1, DiffFacts, FS_Subset DEF OnePerPath

(* When the sender has counted all the objects, none is missing.              *)
LEMMA CountedAll ==
  ASSUME UploadTypeOK, UploadInv, sender = "closing", remote = "open"
  PROVE  received = DiffObjects
<1>1. Cardinality(InFlight) \in Nat /\ Len(objectChan) \in Nat /\ picked \in 0 .. Len(diff) /\ Len(diff) \in Nat
  BY InFlightFinite, DiffFacts DEF UploadTypeOK
<1>2. count = Len(diff) /\ count + Len(objectChan) + Cardinality(InFlight) <= picked
  BY DEF UploadInv, StreamInv, Handled
<1>3. Cardinality(InFlight) = 0 /\ Len(objectChan) = 0 /\ picked = Len(diff) /\ ~(Handled < picked)
  BY <1>1, <1>2 DEF Handled
<1>4. InFlight = {} /\ DOMAIN objectChan = {}
  <2>1. InFlight = {}
    BY <1>3, InFlightFinite, FS_EmptySet
  <2>2. DOMAIN objectChan = 1 .. 0
    BY <1>3 DEF UploadTypeOK
  <2> QED
    BY <2>1, <2>2
<1>5. \A k \in 1 .. Len(diff) : ObjectFromFilePath(diff[k]) \in received
  BY <1>3, <1>4 DEF UploadInv, NothingLost, Located, Somewhere
<1> QED
  BY <1>5 DEF UploadTypeOK, DiffUpdates, DiffObjects

LEMMA CloseSendKeeps ==
  ASSUME UploadTypeOK, MergeInv, UploadInv, phase = "upload", CloseSend, UNCHANGED <<vars, phase, diff>>
  PROVE  UploadTypeOK' /\ MergeInv' /\ UploadInv'
<1>1. /\ UNCHANGED <<diff, picked, count, objectChan, reader, received, sharedErr, pack, answer, gone, phase>>
      /\ UNCHANGED <<sender, stopped, failed>>
  BY DEF CloseSend, vars, clientVars
<1>2. /\ sender = "closing" /\ remote = "open" /\ remote' = "merge"
      /\ merge' = updateObjects(pack, InPack)
  BY DEF CloseSend, InPack
<1>3. merge' \in MergeState /\ MergeInv'
  BY <1>2, InPackFacts, MergeStarts DEF UploadTypeOK
<1>4. merge'.before = pack /\ merge'.updates = SortByPath(InPack) /\ merge'.result = "running"
  BY <1>2 DEF updateObjects, FromBytes, NoMerge
<1>5. received = DiffObjects
  BY <1>2, CountedAll
<1>6. UploadTypeOK'
  BY <1>1, <1>2, <1>3, SameTypes DEF UploadTypeOK
<1>7. InHands' /\ Handled' <= picked' /\ NothingLost' /\ InPack' = InPack /\ DiffObjects' = DiffObjects
  BY <1>1, <1>2, SameLocated DEF UploadInv, NothingLost
<1>8. StreamInv'
  BY <1>1, <1>2, <1>4, <1>5, <1>7 DEF UploadInv, StreamInv
<1>9. OutcomeInv'
  BY <1>1, <1>2 DEF UploadInv, OutcomeInv
<1> QED
  BY <1>3, <1>6, <1>7, <1>8, <1>9 DEF UploadInv

LEMMA RecvAnswerKeeps ==
  ASSUME UploadTypeOK, MergeInv, UploadInv, phase = "upload", RecvAnswer, UNCHANGED <<vars, phase, diff>>
  PROVE  UploadTypeOK' /\ MergeInv' /\ UploadInv'
<1>1. UNCHANGED <<diff, picked, count, objectChan, reader, received, sharedErr, pack, merge, remote, gone, phase>>
  BY DEF RecvAnswer, vars, serverVars
<1>2. /\ sender = "closing" /\ sender' = "done"
      /\ \/ remote = "committed" /\ stopped' = stopped /\ failed' = failed /\ answer' = answer
         \/ stopped' = TRUE /\ failed' = TRUE /\ answer' = None
  BY DEF RecvAnswer, SenderFails
<1>3. UploadTypeOK'
  <2>1. stopped' \in BOOLEAN /\ failed' \in BOOLEAN
    BY <1>2 DEF UploadTypeOK
  <2>2. answer' \in (0 .. 2) \cup {None}
    BY <1>2 DEF UploadTypeOK
  <2>3. pack' \in Seq(Entry) /\ merge' \in MergeState
        /\ remote' \in {"none", "open", "merge", "committed", "failed"} /\ phase' \in {"upload", "rebuild", "done", "panicked"}
    BY <1>1 DEF UploadTypeOK
  <2> QED
    BY <1>1, <1>2, <2>1, <2>2, <2>3, SameTypes
<1>4. MergeInv'
  BY <1>1, MergeSame
<1>5. InHands' /\ Handled' <= picked' /\ NothingLost' /\ InPack' = InPack /\ DiffObjects' = DiffObjects
  BY <1>1, <1>2, SameLocated DEF UploadInv, NothingLost
<1>6. StreamInv'
  BY <1>1, <1>2, <1>5 DEF UploadInv, StreamInv
<1>7. OutcomeInv'
  BY <1>1, <1>2 DEF UploadInv, OutcomeInv
<1> QED
  BY <1>3, <1>4, <1>5, <1>6, <1>7 DEF UploadInv

(* The server merges what it has received.                                    *)
LEMMA UpdatesInPack ==
  ASSUME UploadTypeOK, merge.updates = SortByPath(InPack)
  PROVE  Updates = InPack
<1> DEFINE s == merge.updates
<1>1. s \in Seq(InPack) /\ Onto(s, InPack)
  BY InPackFacts, EntryPath, SortByPathFacts
<1>2. Updates = {s[i] : i \in DOMAIN s}
  BY DEF Updates
<1> HIDE DEF s
<1>3. \A i \in DOMAIN s : s[i] \in InPack
  BY <1>1
<1> QED
  BY <1>1, <1>2, <1>3 DEF Onto

LEMMA ServerKeeps ==
  ASSUME UploadTypeOK, MergeInv, UploadInv, phase = "upload", ServerStep, UNCHANGED <<vars, phase, diff>>
  PROVE  UploadTypeOK' /\ MergeInv' /\ UploadInv'
<1>1. CASE UpdatePackedObjects
  <2>1. /\ UNCHANGED <<diff, picked, count, objectChan, reader, received, sharedErr, pack, answer, gone, phase>>
        /\ UNCHANGED <<sender, stopped, failed, remote>> /\ remote = "merge" /\ MergeStep
    BY <1>1 DEF UpdatePackedObjects, vars, clientVars
  <2>2. merge' \in MergeState /\ MergeInv' /\ MergeFixed
    BY <2>1, MergeKeeps DEF UploadTypeOK
  <2>3. UploadTypeOK'
    BY <2>1, <2>2, SameTypes DEF UploadTypeOK
  <2>4. InHands' /\ Handled' <= picked' /\ NothingLost' /\ InPack' = InPack /\ DiffObjects' = DiffObjects
    BY <2>1, SameLocated DEF UploadInv, NothingLost
  <2>5. StreamInv' /\ OutcomeInv'
    BY <2>1, <2>2, <2>4 DEF UploadInv, StreamInv, OutcomeInv, MergeFixed
  <2> QED
    BY <2>2, <2>3, <2>4, <2>5 DEF UploadInv
<1>2. ASSUME NEW distance \in 0 .. 2, CommitUpdate(distance)
      PROVE  UploadTypeOK' /\ MergeInv' /\ UploadInv'
  <2>1. /\ UNCHANGED <<diff, picked, count, objectChan, reader, received, sharedErr, merge, gone, phase>>
        /\ UNCHANGED <<sender, stopped, failed>>
        /\ remote = "merge" /\ remote' = "committed" /\ answer' = distance
        /\ merge.result \in {"pack", "empty"}
        /\ pack' = IF InPack = {} THEN pack ELSE merge.out
    BY <1>2 DEF CommitUpdate, vars, InPack
  <2>2. merge.before = pack /\ merge.updates = SortByPath(InPack) /\ merge \in MergeState /\ pack \in Seq(Entry)
    BY <2>1 DEF UploadInv, StreamInv, UploadTypeOK
  <2>3. merge.out = Merged(pack, InPack) /\ merge.out \in Seq(Entry)
    BY <2>1, <2>2, MergeEnds, UpdatesInPack DEF MergeState
  <2>4. Merged(pack, {}) = pack
    <3>1. {} \in SUBSET Entry /\ Holds(pack, {})
      BY DEF Holds, Of
    <3> QED
      BY <2>2, <3>1, MergedHeld
  <2>5. pack' = Merged(merge.before, InPack) /\ pack' \in Seq(Entry)
    BY <2>1, <2>2, <2>3, <2>4
  <2>6. UploadTypeOK'
    BY <2>1, <2>2, <2>5, SameTypes DEF UploadTypeOK
  <2>7. MergeInv'
    BY <2>1, MergeSame
  <2>8. InHands' /\ Handled' <= picked' /\ NothingLost' /\ InPack' = InPack /\ DiffObjects' = DiffObjects
    BY <2>1, SameLocated DEF UploadInv, NothingLost
  <2>9. StreamInv' /\ OutcomeInv'
    BY <2>1, <2>5, <2>8 DEF UploadInv, StreamInv, OutcomeInv
  <2> QED
    BY <2>6, <2>7, <2>8, <2>9 DEF UploadInv
<1>3. CASE Rollback
  <2>1. /\ UNCHANGED <<diff, picked, count, objectChan, reader, received, sharedErr, merge, pack, answer, gone, phase>>
        /\ UNCHANGED <<sender, stopped, failed>> /\ remote \in {"open", "merge"} /\ remote' = "failed"
    BY <1>3 DEF Rollback, vars, clientVars
  <2>2. UploadTypeOK'
    BY <2>1, SameTypes DEF UploadTypeOK
  <2>3. MergeInv'
    BY <2>1, MergeSame
  <2>4. InHands' /\ Handled' <= picked' /\ NothingLost'
    BY <2>1, SameLocated DEF UploadInv, NothingLost
  <2>5. StreamInv' /\ OutcomeInv'
    BY <2>1 DEF UploadInv, StreamInv, OutcomeInv
  <2> QED
    BY <2>2, <2>3, <2>4, <2>5 DEF UploadInv
<1> QED
  BY <1>1, <1>2, <1>3 DEF ServerStep

(* The goroutines end, with the group or with the process.                    *)
LEMMA UploadEndsKeeps ==
  ASSUME UploadTypeOK, MergeInv, UploadInv, UploadEnds \/ SenderPanics, UNCHANGED <<vars, diff>>
  PROVE  UploadTypeOK' /\ MergeInv' /\ UploadInv'
<1>1. /\ UNCHANGED <<diff, stopped, answer, remote, received, pack, merge, gone>>
      /\ sender' = "done" /\ picked' = 0 /\ count' = 0 /\ reader' = [w \in Workers |-> Ended]
      /\ sharedErr' = FALSE /\ objectChan' = <<>> /\ phase' \in {"done", "rebuild", "panicked"}
      /\ \/ sender = "done" /\ failed' = failed
         \/ sender = "loop" /\ failed' = TRUE
  BY DEF UploadEnds, SenderPanics, GoroutinesEnd, vars, serverVars
<1>2. DiffUpdates' = DiffUpdates /\ DiffObjects' = DiffObjects /\ ReaderState' = ReaderState /\ Len(diff) \in Nat
  BY <1>1, SameDiff, DiffFacts
<1>3. InFlight' = {}
  BY <1>1 DEF InFlight, Ended
<1>4. Ended \in ReaderState
  BY DEF Ended, ReaderState
<1>5. UploadTypeOK'
  <2>1. reader' \in [Workers -> ReaderState']
    BY <1>1, <1>2, <1>4
  <2>2. picked' \in 0 .. Len(diff) /\ count' \in 0 .. picked'
    BY <1>1, <1>2
  <2>3. objectChan' \in Seq(DiffObjects' \cup {None}) /\ Len(objectChan') <= ObjectRoom
    BY <1>1, UpdateAssumption
  <2> QED
    BY <1>1, <1>2, <2>1, <2>2, <2>3 DEF UploadTypeOK
<1>6. Handled' <= picked'
  <2>1. Handled' = 0
    BY <1>1, <1>3, FS_EmptySet DEF Handled
  <2> QED
    BY <1>1, <2>1
<1>7. InHands' /\ NothingLost'
  BY <1>1, <1>3 DEF InHands, NothingLost
<1>8. StreamInv'
  BY <1>1, <1>2 DEF UploadInv, StreamInv, InPack
<1>9. OutcomeInv'
  BY <1>1 DEF UploadInv, OutcomeInv
<1> QED
  BY <1>1, <1>5, <1>6, <1>7, <1>8, <1>9, MergeSame DEF UploadInv

(* The rebuild, its end and the caller's context leave the upload alone.      *)
LEMMA UploadSame ==
  ASSUME UploadTypeOK, MergeInv, UploadInv, UNCHANGED <<diff, clientVars, serverVars>>,
         gone => gone', phase' = phase \/ (phase = "rebuild" /\ phase' = "done")
  PROVE  UploadTypeOK' /\ MergeInv' /\ UploadInv'
<1>1. /\ UNCHANGED <<diff, picked, count, objectChan, reader, received, sharedErr, merge, pack, answer>>
      /\ UNCHANGED <<sender, stopped, failed, remote>>
  BY DEF clientVars, serverVars
<1>2. UploadTypeOK'
  <2>1. phase' \in {"upload", "rebuild", "done", "panicked"}
    BY DEF UploadTypeOK
  <2> QED
    BY <1>1, <2>1, SameTypes DEF UploadTypeOK
<1>3. InHands' /\ Handled' <= picked' /\ NothingLost' /\ InPack' = InPack /\ DiffObjects' = DiffObjects
  BY <1>1, SameLocated DEF UploadInv, NothingLost
<1>4. StreamInv' /\ OutcomeInv'
  BY <1>1, <1>3 DEF UploadInv, StreamInv, OutcomeInv
<1> QED
  BY <1>1, <1>2, <1>3, <1>4, MergeSame DEF UploadInv

-----------------------------------------------------------------------------
(* The whole call.                                                            *)

(* The rebuild inside an update is the rebuild of TarPipeline.                *)
LEMMA TarStep ==
  ASSUME [UpdateNext]_allVars
  PROVE  [Next]_vars
<1>1. CASE UploadStep
  BY <1>1 DEF UploadStep
<1>2. CASE RebuildStep
  BY <1>2 DEF RebuildStep, Next
<1>3. CASE RebuildEnds
  BY <1>3 DEF RebuildEnds
<1>4. CASE ContextEnds
  BY <1>4 DEF ContextEnds, Next
<1>5. CASE UNCHANGED allVars
  BY <1>5 DEF allVars
<1> QED
  BY <1>1, <1>2, <1>3, <1>4, <1>5 DEF UpdateNext

LEMMA GoneStays ==
  ASSUME [Next]_vars, gone
  PROVE  gone'
  BY DEF Next, Receiver, RecvFirst, CheckVersion, Send, Recv, ReceiverFails, Worker, Take, WriteTar,
         WorkerFails, Finish, CallerCancels, Returned, vars

LEMMA UpdateInitInv == UpdateInit => UpdateInv
<1> SUFFICES ASSUME UpdateInit PROVE UpdateInv
  OBVIOUS
<1>1. PipelineInv
  BY InitPipeline DEF UpdateInit
<1>2. diff \in Seq(Entry) /\ diff \in Diffs \cup {<<>>} /\ pack \in Seq(Entry) /\ Len(diff) \in Nat
  <2>1. phase \in {"upload", "rebuild"}
    BY DEF UpdateInit
  <2>2. diff \in Diffs \cup {<<>>} /\ pack \in Packs \cup {<<>>}
    BY <2>1 DEF UpdateInit
  <2>3. <<>> \in Seq(Entry) /\ Diffs \subseteq Seq(Entry) /\ Packs \subseteq Seq(Entry)
    BY UpdateAssumption
  <2>4. diff \in Seq(Entry) /\ pack \in Seq(Entry)
    BY <2>2, <2>3, Zenon
  <2> QED
    BY <2>2, <2>4
<1>3. InFlight = {}
  BY DEF UpdateInit, InFlight, Waiting
<1>4. UploadTypeOK
  <2>1. Waiting \in ReaderState
    BY DEF Waiting, ReaderState
  <2>2. reader \in [Workers -> ReaderState]
    BY <2>1 DEF UpdateInit
  <2>3. NoMerge \in MergeState
    BY DEF NoMerge, MergeState
  <2>4. picked \in 0 .. Len(diff) /\ count \in 0 .. picked
    BY <1>2 DEF UpdateInit
  <2>5. objectChan \in Seq(DiffObjects \cup {None}) /\ Len(objectChan) <= ObjectRoom
    BY UpdateAssumption DEF UpdateInit
  <2> QED
    BY <1>2, <2>2, <2>3, <2>4, <2>5 DEF UpdateInit, UploadTypeOK
<1>5. MergeInv
  BY DEF UpdateInit, NoMerge, MergeInv
<1>6. Handled = 0
  BY <1>3, FS_EmptySet DEF UpdateInit, Handled
<1>7. InHands /\ Handled <= picked /\ NothingLost
  <2>1. \A k \in 1 .. picked : Somewhere(k)
    BY DEF UpdateInit
  <2> QED
    BY <1>3, <1>6, <2>1 DEF UpdateInit, InHands, NothingLost, Located
<1>8. StreamInv
  BY DEF UpdateInit, StreamInv
<1>9. OutcomeInv
  BY DEF UpdateInit, OutcomeInv
<1> QED
  BY <1>1, <1>4, <1>5, <1>7, <1>8, <1>9 DEF UpdateInv, UploadInv

LEMMA UpdateInductive ==
  ASSUME UpdateInv, [UpdateNext]_allVars
  PROVE  UpdateInv'
<1>1. PipelineInv'
  BY TarStep, PipelineInductive DEF UpdateInv
<1>2. gone => gone'
  BY TarStep, GoneStays
<1>3. UploadTypeOK /\ MergeInv /\ UploadInv
  BY DEF UpdateInv
<1>4. CASE UploadStep
  <2>1. phase = "upload" /\ UNCHANGED <<vars, diff>>
    BY <1>4 DEF UploadStep
  <2>2. ASSUME NEW w \in Workers, UploadReader(w), UNCHANGED phase
        PROVE  UploadTypeOK' /\ MergeInv' /\ UploadInv'
    BY <1>3, <2>1, <2>2, UploadReaderKeeps
  <2>3. ASSUME UploadSender, UNCHANGED phase
        PROVE  UploadTypeOK' /\ MergeInv' /\ UploadInv'
    BY <1>3, <2>1, <2>3, ConnectKeeps, SenderLoopKeeps, CloseSendKeeps, RecvAnswerKeeps DEF UploadSender
  <2>4. ASSUME ServerStep, UNCHANGED phase
        PROVE  UploadTypeOK' /\ MergeInv' /\ UploadInv'
    BY <1>3, <2>1, <2>4, ServerKeeps
  <2>5. CASE UploadEnds \/ SenderPanics
    BY <1>1, <1>3, <2>1, <2>5, UploadEndsKeeps DEF UpdateInv
  <2> QED
    BY <1>1, <1>4, <2>2, <2>3, <2>4, <2>5 DEF UploadStep, UpdateInv
<1>5. ASSUME UNCHANGED <<diff, clientVars, serverVars>>,
             phase' = phase \/ (phase = "rebuild" /\ phase' = "done")
      PROVE  UpdateInv'
  BY <1>1, <1>2, <1>3, <1>5, UploadSame DEF UpdateInv
<1>6. CASE RebuildStep
  BY <1>5, <1>6 DEF RebuildStep
<1>7. CASE RebuildEnds
  BY <1>5, <1>7 DEF RebuildEnds
<1>8. CASE ContextEnds
  BY <1>5, <1>8 DEF ContextEnds
<1>9. CASE UNCHANGED allVars
  BY <1>5, <1>9 DEF allVars
<1> QED
  BY <1>4, <1>6, <1>7, <1>8, <1>9 DEF UpdateNext

(* The inductive invariant of Client.Update and of the server's end of its    *)
(* stream.                                                                    *)
THEOREM UpdateInvariant == UpdateSpec => []UpdateInv
<1>1. UpdateInit => UpdateInv
  BY UpdateInitInv
<1>2. UpdateInv /\ [UpdateNext]_allVars => UpdateInv'
  BY UpdateInductive
<1> QED
  BY <1>1, <1>2, PTL DEF UpdateSpec

(* The rebuild that Client.Update falls back to, under the same context, is a *)
(* Client.Rebuild: whatever is proved of that holds of an update.             *)
THEOREM UpdateRebuilds == UpdateSpec => Spec
<1>1. UpdateInit => Init
  BY DEF UpdateInit
<1>2. [UpdateNext]_allVars => [Next]_vars
  BY TarStep
<1> QED
  BY <1>1, <1>2, PTL DEF UpdateSpec, Spec

(* The state of an update has its types: updateChan and objectChan never hold *)
(* more than their room, and the server never receives what is not in the     *)
(* diff.                                                                      *)
THEOREM UpdateTypeCorrect == UpdateSpec => []UpdateTypeOK
<1>1. UpdateInv => UpdateTypeOK
  BY DEF UpdateInv, PipelineInv, UpdateTypeOK
<1> QED
  BY <1>1, UpdateInvariant, PTL

(* Fs.Update commits all updates of the client's diff or none: neither a      *)
(* worker that gives up, nor the shared err, nor a nil object, nor a broken   *)
(* stream makes it publish a part, and the pack it publishes is the merged    *)
(* one.                                                                       *)
THEOREM WholeOrNothing == UpdateSpec => []PublishedWhole
<1>1. UpdateInv => PublishedWhole
  BY DEF UpdateInv, UploadInv, StreamInv, InPack, PublishedWhole
<1> QED
  BY <1>1, UpdateInvariant, PTL

(* Client.Update goes on to its version file or to the rebuild only when the  *)
(* server has committed, unless the caller gave up: no error of the sender or *)
(* of a worker is lost.                                                       *)
THEOREM SuccessMeansPublished == UpdateSpec => []SuccessPublished
<1>1. UpdateInv => SuccessPublished
  BY DEF UpdateInv, UploadInv, OutcomeInv, SuccessPublished
<1> QED
  BY <1>1, UpdateInvariant, PTL

(* updateObjects and packObjects make of any pack and any updates exactly the *)
(* merged pack, although the hint that the generator leaves is an index into  *)
(* the wrong slice.                                                           *)
THEOREM MergesExact == UpdateSpec => []MergeExact
<1>1. UpdateInv => MergeExact
  BY MergeEnds DEF UpdateInv, UploadTypeOK, MergeExact
<1> QED
  BY <1>1, UpdateInvariant, PTL

(* Sending the same updates again leaves the pack that updateObjects made as  *)
(* it is, and UpdatePackedObjects then reports no change, so that a retry     *)
(* publishes no version; unless the updates emptied the pack, whose row is    *)
(* gone: then every retry publishes one.                                      *)
THEOREM MergesIdempotent == UpdateSpec => []MergeAgain
<1>1. UpdateInv => MergeAgain
  BY MergeEnds DEF UpdateInv, UploadTypeOK, MergeAgain, PackChanged
<1> QED
  BY <1>1, UpdateInvariant, PTL

(* Also in an update, the rebuild writes the version file only for a complete *)
(* stream of one version, unless the caller gave up.                          *)
THEOREM UpdateRebuildComplete == UpdateSpec => []Complete
<1>1. Spec => []Complete
  BY RebuildComplete
<1> QED
  BY <1>1, UpdateRebuilds, PTL

=============================================================================
