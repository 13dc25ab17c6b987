------------------------ MODULE ConnectionPoolProofs ------------------------
(* The pool of connections, for any number of requests and connections: none  *)
(* is lost or made up, and none is in use when the pool is closed.            *)
EXTENDS ConnectionPool, FiniteSetTheorems, TLAPS

Sign(b) == IF b THEN 1 ELSE 0

(* One request goes from a place to another.                                  *)
LEMMA CountGoto ==
  ASSUME NEW S, NEW r \in Request, NEW w \in Place, pc \in [Request -> Place], Goto(r, w)
  PROVE  /\ Count(S) \in Nat /\ Count(S)' \in Nat
         /\ Count(S)' = Count(S) + Sign(w \in S) - Sign(pc[r] \in S)
<1> DEFINE A == {q \in Request : pc[q] \in S}
           B == {q \in Request : pc'[q] \in S}
<1>1. IsFiniteSet(A) /\ IsFiniteSet(B) /\ IsFiniteSet(A \ {r})
  <2>1. IsFiniteSet(Request)
    BY PoolAssumption
  <2> QED
    BY <2>1, FS_Subset
<1>2. B = IF w \in S THEN (A \ {r}) \cup {r} ELSE A \ {r}
  BY DEF Goto
<1>3. Cardinality(A) \in Nat /\ Cardinality(B) \in Nat /\ Cardinality(A \ {r}) \in Nat
  BY <1>1, FS_CardinalityType
<1>4. Cardinality(A \ {r}) = Cardinality(A) - Sign(pc[r] \in S)
  <2>1. Cardinality(A \ {r}) = IF r \in A THEN Cardinality(A) - 1 ELSE Cardinality(A)
    BY <1>1, FS_RemoveElement
  <2>2. r \in A <=> pc[r] \in S
    OBVIOUS
  <2> HIDE DEF A
  <2> QED
    BY <1>3, <2>1, <2>2 DEF Sign
<1>5. Cardinality((A \ {r}) \cup {r}) = Cardinality(A \ {r}) + 1
  BY <1>1, FS_AddElement
<1>6. Cardinality(B) = Cardinality(A \ {r}) + Sign(w \in S)
  <2> HIDE DEF A, B
  <2> QED
    BY <1>2, <1>3, <1>5 DEF Sign
<1> HIDE DEF A, B
<1>7. Cardinality(B) = Cardinality(A) + Sign(w \in S) - Sign(pc[r] \in S)
  BY <1>3, <1>4, <1>6 DEF Sign
<1> QED
  BY <1>3, <1>7 DEF Count, A, B

LEMMA CountSame ==
  ASSUME NEW S, pc' = pc
  PROVE  Count(S) \in Nat /\ Count(S)' = Count(S)
<1>1. IsFiniteSet({r \in Request : pc[r] \in S})
  BY PoolAssumption, FS_Subset
<1> QED
  BY <1>1, FS_CardinalityType DEF Count

(* The connections that the requests have in hand change by those that the    *)
(* request takes and gives.                                                   *)
LEMMA InHandGoto ==
  ASSUME NEW r \in Request, NEW w \in Place, pc \in [Request -> Place], Goto(r, w)
  PROVE  /\ InHand \in Nat /\ InHand' \in Nat /\ Held(r) \in 0 .. 2 /\ Held(r)' \in 0 .. 2
         /\ InHand' = InHand + Held(r)' - Held(r)
<1> DEFINE H == {"begin", "open", "locked", "insert"}
           I == {"insert"}
<1>1. pc[r] \in Place /\ pc'[r] = w
  BY DEF Goto
<1>2. Held(r) = Sign(pc[r] \in H) + Sign(pc[r] \in I) /\ Held(r) \in 0 .. 2
  BY <1>1 DEF Held, Sign, Place
<1>3. Held(r)' = Sign(w \in H) + Sign(w \in I) /\ Held(r)' \in 0 .. 2
  BY <1>1 DEF Held, Sign, Place
<1>4. /\ Count(H) \in Nat /\ Count(H)' \in Nat
      /\ Count(H)' = Count(H) + Sign(w \in H) - Sign(pc[r] \in H)
  BY CountGoto
<1>5. /\ Count(I) \in Nat /\ Count(I)' \in Nat
      /\ Count(I)' = Count(I) + Sign(w \in I) - Sign(pc[r] \in I)
  BY CountGoto
<1>6. InHand = Count(H) + Count(I) /\ InHand' = Count(H)' + Count(I)'
  BY DEF InHand
<1> HIDE DEF H, I
<1> QED
  BY <1>2, <1>3, <1>4, <1>5, <1>6 DEF Sign

LEMMA InHandSame ==
  ASSUME pc' = pc
  PROVE  InHand \in Nat /\ InHand' = InHand
  BY CountSame DEF InHand

-----------------------------------------------------------------------------
(* Types but for the accounting.                                              *)
Types ==
  /\ pc \in [Request -> Place]
  /\ left \in [Update -> 0 .. Inserts]
  /\ leaked \in 0 .. MaxLeaks
  /\ free \in Nat
  /\ process \in {"serving", "stopping", "closing", "exited"}
  /\ monitor \in {"timer", "wait", "ping"}
  /\ healthy \in BOOLEAN

Accounted == free + leaked + Pinging + InHand = Size

LEMMA TypeFromParts ==
  InHand \in Nat => (TypeOK <=> Types /\ Accounted)
  BY PoolAssumption DEF TypeOK, Types, Accounted, Pinging

(* A step of one request.                                                     *)
RequestStep(r) ==
  \/ Authorize(r) \/ Step(r) \/ Abort(r)
  \/ r \in Writer /\ LockLatestVersion(r)
  \/ r \in Update /\ UpdateStep(r)

ProcessStep == MonitorStep \/ GracefulStop \/ Shutdown

LEMMA NextParts ==
  ASSUME Next
  PROVE  (\E r \in Request : RequestStep(r)) \/ ProcessStep
  BY DEF Next, RequestStep, ProcessStep, Request, Writer

LEMMA RequestTypes ==
  ASSUME Types, NEW r \in Request, RequestStep(r)
  PROVE  /\ Types' /\ Pinging' = Pinging
         /\ \E w \in Place : Goto(r, w)
         /\ free' + leaked' + Held(r)' = free + leaked + Held(r)
<1> USE DEF Types, Goto, Place, Held, Pinging, requests, server
<1>0. PoolAssumption
  BY PoolAssumption
<1>1. CASE Authorize(r)
  BY <1>1 DEF Authorize
<1>2. CASE Acquire(r)
  BY <1>2 DEF Acquire
<1>3. CASE Begin(r)
  BY <1>0, <1>3 DEF Begin, PoolAssumption
<1>4. CASE Finish(r)
  BY <1>4 DEF Finish, Finishing
<1>5. CASE Abort(r)
  BY <1>5 DEF Abort
<1>6. CASE r \in Writer /\ LockLatestVersion(r)
  BY <1>6 DEF LockLatestVersion
<1>7. CASE r \in Update /\ InsertContent(r)
  BY <1>0, <1>7 DEF InsertContent, PoolAssumption
<1>8. CASE r \in Update /\ Inserted(r)
  BY <1>8 DEF Inserted
<1> QED
  BY <1>1, <1>2, <1>3, <1>4, <1>5, <1>6, <1>7, <1>8 DEF RequestStep, Step, UpdateStep

(* The monitor takes a connection, gives it back, or does neither.            *)
PingMoves ==
  \/ free' = free /\ Pinging' = Pinging
  \/ free' = free - 1 /\ Pinging = 0 /\ Pinging' = 1
  \/ free' = free + 1 /\ Pinging = 1 /\ Pinging' = 0

LEMMA ProcessTypes ==
  ASSUME Types, ProcessStep
  PROVE  Types' /\ pc' = pc /\ leaked' = leaked /\ PingMoves
<1> USE DEF Types, Pinging, PingMoves, requests, Report
<1>1. CASE Ping
  BY <1>1 DEF Ping
<1>2. CASE AcquireForPing
  BY <1>2 DEF AcquireForPing
<1>3. CASE PingTimeout
  BY <1>3 DEF PingTimeout
<1>4. CASE Pong
  BY <1>4 DEF Pong
<1>5. CASE GracefulStop \/ Drained \/ Close
  BY <1>5 DEF GracefulStop, Drained, Close
<1> QED
  BY <1>1, <1>2, <1>3, <1>4, <1>5 DEF ProcessStep, MonitorStep, Shutdown

(* Every connection is in the pool, in the hands of one request or of the     *)
(* monitor, or leaked by a failed Begin, in every order of the requests, the  *)
(* pings, the failures and the shutdown: none is released twice.              *)
THEOREM PoolTypeCorrect == Spec => []TypeOK
<1>1. Init => TypeOK
  <2> SUFFICES ASSUME Init PROVE TypeOK
    OBVIOUS
  <2>1. InHand = 0
    <3>1. {r \in Request : pc[r] \in {"begin", "open", "locked", "insert"}} = {}
      BY DEF Init
    <3>2. {r \in Request : pc[r] \in {"insert"}} = {}
      BY DEF Init
    <3> QED
      BY <3>1, <3>2, FS_EmptySet DEF InHand, Count
  <2>2. Types
    <3>1. pc \in [Request -> Place] /\ left \in [Update -> 0 .. Inserts]
      BY PoolAssumption DEF Init, Place
    <3>2. healthy \in BOOLEAN
      BY DEF Init
    <3> QED
      BY <3>1, <3>2, PoolAssumption DEF Init, Types
  <2>3. Accounted
    BY <2>1, PoolAssumption DEF Init, Accounted, Pinging
  <2> QED
    BY <2>1, <2>2, <2>3, TypeFromParts
<1>2. TypeOK /\ [Next]_vars => TypeOK'
  <2> SUFFICES ASSUME TypeOK, [Next]_vars PROVE TypeOK'
    OBVIOUS
  <2>0. Types
    BY PoolAssumption DEF TypeOK, Types
  <2>1. ASSUME NEW r \in Request, RequestStep(r)
        PROVE  TypeOK'
    <3>1. PICK w \in Place : Goto(r, w)
      BY <2>0, <2>1, RequestTypes
    <3>2. Types' /\ Pinging' = Pinging /\ free' + leaked' + Held(r)' = free + leaked + Held(r)
      BY <2>0, <2>1, RequestTypes
    <3>3. /\ InHand \in Nat /\ InHand' \in Nat /\ Held(r) \in 0 .. 2 /\ Held(r)' \in 0 .. 2
          /\ InHand' = InHand + Held(r)' - Held(r)
      BY <2>0, <3>1, InHandGoto DEF Types
    <3>4. Accounted
      BY <3>3, TypeFromParts
    <3>5. Accounted'
      <4>1. Pinging \in 0 .. 1
        BY DEF Pinging
      <4>2. free \in Nat /\ leaked \in Nat /\ free' \in Nat /\ leaked' \in Nat
        BY <2>0, <3>2, PoolAssumption DEF Types
      <4> QED
        BY <3>2, <3>3, <3>4, <4>1, <4>2 DEF Accounted
    <3>6. (InHand \in Nat => (TypeOK <=> Types /\ Accounted))'
      BY TypeFromParts, PTL
    <3> QED
      BY <3>2, <3>3, <3>5, <3>6
  <2>2. CASE pc' = pc /\ Types' /\ leaked' = leaked /\ PingMoves
    <3>1. InHand \in Nat /\ InHand' = InHand
      BY <2>2, InHandSame
    <3>2. Accounted
      BY <3>1, TypeFromParts
    <3>3. Accounted'
      <4>1. Pinging \in 0 .. 1
        BY DEF Pinging
      <4>2. free \in Nat /\ leaked \in Nat /\ leaked' = leaked
        BY <2>0, <2>2, PoolAssumption DEF Types
      <4> QED
        BY <2>2, <3>1, <3>2, <4>1, <4>2 DEF Accounted, PingMoves
    <3>4. (InHand \in Nat => (TypeOK <=> Types /\ Accounted))'
      BY TypeFromParts, PTL
    <3> QED
      BY <2>2, <3>1, <3>3, <3>4
  <2>3. CASE UNCHANGED vars
    BY <2>0, <2>2, <2>3 DEF vars, requests, server, Types, Pinging, PingMoves
  <2>4. CASE ProcessStep
    BY <2>0, <2>2, <2>4, ProcessTypes
  <2> QED
    BY <2>1, <2>3, <2>4, NextParts
<1> QED
  BY <1>1, <1>2, PTL DEF Spec

(* Once the requests have drained none is under way, for none may begin.      *)
IdleAfterDrain ==
  process \in {"closing", "exited"} => \A r \in Request : pc[r] \in {"new", "done"}

(* No request uses or waits for a connection of a pool that is being closed.  *)
THEOREM ClosesWhenIdle == Spec => []ClosedWhenIdle
<1>1. Init => IdleAfterDrain
  BY DEF Init, IdleAfterDrain
<1>2. TypeOK /\ IdleAfterDrain /\ [Next]_vars => IdleAfterDrain'
  <2> SUFFICES ASSUME TypeOK, IdleAfterDrain, [Next]_vars PROVE IdleAfterDrain'
    OBVIOUS
  <2>1. ASSUME NEW r \in Request, RequestStep(r)
        PROVE  IdleAfterDrain'
    <3>1. process' = process /\ (pc[r] \in {"new", "done"} => process = "serving")
      BY <2>1 DEF RequestStep, Authorize, Step, Abort, UpdateStep, Acquire, Begin, Finish,
           Finishing, LockLatestVersion, InsertContent, Inserted, server
    <3> QED
      BY <3>1 DEF IdleAfterDrain
  <2>2. CASE ProcessStep
    BY <2>2 DEF IdleAfterDrain, requests, ProcessStep, MonitorStep, Ping, AcquireForPing,
         PingTimeout, Pong, GracefulStop, Shutdown, Drained, Close
  <2>3. CASE UNCHANGED vars
    BY <2>3 DEF IdleAfterDrain, vars, requests, server
  <2> QED
    BY <2>1, <2>2, <2>3, NextParts
<1>3. IdleAfterDrain => ClosedWhenIdle
  BY DEF IdleAfterDrain, ClosedWhenIdle, Held
<1> QED
  BY <1>1, <1>2, <1>3, PoolTypeCorrect, PTL DEF Spec

-----------------------------------------------------------------------------
(* Requests that read take no row lock.                                       *)
ReadersUnlocked == \A r \in Read : pc[r] \in {"new", "connect", "begin", "open", "done"}

LEMMA ReadersNeverLock == Spec => []ReadersUnlocked
<1>1. Init => ReadersUnlocked
  BY DEF Init, ReadersUnlocked, Request
<1>2. TypeOK /\ ReadersUnlocked /\ [Next]_vars => ReadersUnlocked'
  <2> SUFFICES ASSUME TypeOK, ReadersUnlocked, [Next]_vars PROVE ReadersUnlocked'
    OBVIOUS
  <2>0. pc \in [Request -> Place] /\ Writer \cap Read = {} /\ Read \subseteq Request
    BY PoolAssumption DEF TypeOK, Request
  <2>1. ASSUME NEW r \in Request, RequestStep(r)
        PROVE  ReadersUnlocked'
    <3>1. PICK w : /\ Goto(r, w)
                   /\ r \in Writer \/ w \in {"connect", "begin", "open", "done"}
      <4>1. CASE Authorize(r) \/ Acquire(r) \/ Begin(r)
        BY <4>1 DEF Authorize, Acquire, Begin, Goto
      <4>2. CASE Finish(r) \/ Abort(r)
        BY <4>2 DEF Finish, Abort, Goto
      <4>3. CASE r \in Update /\ UpdateStep(r)
        BY <4>3 DEF UpdateStep, InsertContent, Inserted, Goto, Writer
      <4>4. CASE r \in Writer /\ LockLatestVersion(r)
        BY <4>4 DEF LockLatestVersion, Goto
      <4> QED
        BY <2>1, <4>1, <4>2, <4>3, <4>4 DEF RequestStep, Step
    <3> QED
      BY <2>0, <3>1 DEF ReadersUnlocked, Goto
  <2>2. CASE ProcessStep \/ UNCHANGED vars
    <3>1. pc' = pc
      BY <2>2 DEF vars, requests, ProcessStep, MonitorStep, Ping, AcquireForPing, PingTimeout,
           Pong, GracefulStop, Shutdown, Drained, Close
    <3> QED
      BY <3>1 DEF ReadersUnlocked
  <2> QED
    BY <2>1, <2>2, NextParts
<1> QED
  BY <1>1, <1>2, PoolTypeCorrect, PTL DEF Spec

(* With more connections than requests that wait for a row lock, updates,     *)
(* clones, rollbacks and deletes, the requests never all wait for each        *)
(* other's connections, however many read and however many contents an update *)
(* inserts.                                                                   *)
THEOREM PoolNeverStuck == Spec => []SomebodyRuns
<1>1. TypeOK /\ ReadersUnlocked => SomebodyRuns
  <2> SUFFICES ASSUME TypeOK, ReadersUnlocked, Spare, ~(free > 0), monitor # "ping", Running = {}
               PROVE  FALSE
    BY DEF SomebodyRuns
  <2> DEFINE H == {r \in Request : pc[r] \in {"begin", "open", "locked", "insert"}}
             I == {r \in Request : pc[r] \in {"insert"}}
  <2>1. IsFiniteSet(Writer)
    BY PoolAssumption, FS_Subset DEF Request
  <2>2. H \subseteq Writer /\ I = {}
    BY DEF Running, ReadersUnlocked, Request
  <2>3. /\ Cardinality(H) \in Nat /\ Cardinality(Writer) \in Nat
        /\ Cardinality(H) <= Cardinality(Writer)
    BY <2>1, <2>2, FS_Subset, FS_CardinalityType
  <2>4. Cardinality(I) = 0
    BY <2>2, FS_EmptySet
  <2>5. InHand = Cardinality(H) + Cardinality(I)
    BY DEF InHand, Count
  <2>6. /\ free = 0 /\ Pinging = 0 /\ leaked \in Nat /\ Size \in Nat
        /\ free + leaked + Pinging + InHand = Size
    BY PoolAssumption DEF TypeOK, Pinging
  <2>7. Size - leaked > Cardinality(Writer)
    BY DEF Spare
  <2> HIDE DEF H, I
  <2> QED
    BY <2>3, <2>4, <2>5, <2>6, <2>7
<1> QED
  BY <1>1, PoolTypeCorrect, ReadersNeverLock, PTL

=============================================================================
