--------------------------- MODULE ConnectionPool ---------------------------
(* The server process (pkg/server/server.go, pkg/cli/server.go): its pool of  *)
(* database connections under concurrent requests, the monitor that sets the  *)
(* health status, and the shutdown.  Every request holds one connection, with *)
(* its transaction, from Connect to its end.  CloneToProject, Rollback and    *)
(* DeleteProject wait for the row lock of their project with that connection  *)
(* in hand.  Fs.Update does so too, and then needs a second connection of the *)
(* same pool for each content it inserts (UpdateObject, UpdatePackedObjects). *)
(* Reset, which is for development only, locks project after project and is   *)
(* left out.                                                                  *)
(*                                                                            *)
(* No call sets a deadline, so a request waits as long as its client does.    *)
EXTENDS Integers, FiniteSets

CONSTANTS
  Update,      \* update requests
  Admin,       \* requests that clone, roll back or delete a project
  Read,        \* requests that need neither a row lock nor a second connection
  ProjectOf,   \* ProjectOf[w]: the project that a request of Writer writes to
  Inserts,     \* how many contents an update inserts
  Size,        \* MAX_POOL_SIZE
  MaxLeaks,    \* bound: how often Begin fails
  Stops        \* TRUE: the process may be told to stop

(* The requests that wait for a row lock with a connection in hand.           *)
Writer == Update \cup Admin

Request == Writer \cup Read

ASSUME PoolAssumption ==
  /\ IsFiniteSet(Request)
  /\ Update \cap Admin = {} /\ Writer \cap Read = {}
  /\ Inserts \in Nat /\ Size \in Nat \ {0} /\ MaxLeaks \in Nat
  /\ Stops \in BOOLEAN

VARIABLES
  free,     \* connections that are in the pool
  leaked,   \* connections that nobody will release
  pc,       \* pc[r]: "new", "connect", "begin", "open", "locked", "insert" or "done"
  left,     \* left[u]: contents that update u has to insert
  process,  \* "serving", "stopping" (GracefulStop), "closing" or "exited"
  monitor,  \* the monitor: "timer", "wait" (for a connection) or "ping"
  healthy   \* the status that Health/Check answers is SERVING

requests == <<pc, left>>
server == <<process, monitor, healthy>>
vars == <<free, leaked, requests, server>>

Init ==
  /\ free = Size
  /\ leaked = 0
  /\ pc = [r \in Request |-> "new"]
  /\ left = [u \in Update |-> Inserts]
  /\ process = "serving"
  /\ monitor = "timer"
  /\ healthy = FALSE

(* Connections that a request has in hand.                                    *)
Held(r) == CASE pc[r] = "insert" -> 2 [] pc[r] \in {"begin", "open", "locked"} -> 1 [] OTHER -> 0

Goto(r, where) == pc' = [pc EXCEPT ![r] = where]

-----------------------------------------------------------------------------
(* Authorization, before a call takes a connection.                           *)

(* The authorization header: none or not a bearer token, a token that cannot  *)
(* be verified or names nobody, or one of those the server knows.             *)
Header == {"missing", "invalid", "admin", "shared-reader", "project"}

getToken(header) == header # "missing"

(* The role that a token's subject stands for.                                *)
Validate(token) ==
  CASE token = "admin" -> "Admin"
    [] token = "shared-reader" -> "SharedReader"
    [] token = "project" -> "Project"
    [] OTHER -> "None"

ValidateTokenUnary(header) == getToken(header) /\ Validate(header) # "None"
validateTokenStream(header) == getToken(header) /\ Validate(header) # "None"

requireAdminAuth(role) == role = "Admin"
requireProjectAuth(role) == role \in {"Admin", "Project"}
requireSharedReaderAuth(role) == role \in {"Admin", "Project", "SharedReader"}

(* The kinds of calls: Update is a stream that needs a project's token; the   *)
(* calls that clone, roll back or delete are for administrators.  The calls   *)
(* that read are unary or streams, for administrators (ListProjects,          *)
(* Inspect), for projects (Get) or for everybody with a token (GetCache).     *)
CallsOf(r) ==
  CASE r \in Update -> {"update"}
    [] r \in Admin -> {"clone", "rollback", "delete"}
    [] r \in Read -> {"list", "get", "getcache"}

Allowed(call, header) ==
  LET role == Validate(header)
  IN  CASE call \in {"list", "clone", "rollback", "delete"} ->
             ValidateTokenUnary(header) /\ requireAdminAuth(role)
        [] call = "getcache" -> validateTokenStream(header) /\ requireSharedReaderAuth(role)
        [] OTHER -> validateTokenStream(header) /\ requireProjectAuth(role)

(* A request without a token that allows the call is answered at once.        *)
Authorize(r) ==
  /\ pc[r] = "new"
  /\ process = "serving"
  /\ \E call \in CallsOf(r), header \in Header :
       Goto(r, IF Allowed(call, header) THEN "connect" ELSE "done")
  /\ UNCHANGED <<free, leaked, left, server>>

-----------------------------------------------------------------------------
(* pool.Acquire in Connect                                                    *)
Acquire(r) ==
  /\ pc[r] = "connect"
  /\ free > 0
  /\ free' = free - 1
  /\ Goto(r, "begin")
  /\ UNCHANGED <<leaked, left, server>>

(* conn.Begin.  When it fails, Connect returns no CloseFunc and the           *)
(* connection is not released.                                                *)
Begin(r) ==
  /\ pc[r] = "begin"
  /\ \/ Goto(r, "open") /\ UNCHANGED leaked
     \/ leaked < MaxLeaks /\ leaked' = leaked + 1 /\ Goto(r, "done")
  /\ UNCHANGED <<free, left, server>>

(* The lock of the project's row, which the transaction holds to its end:     *)
(* SELECT ... FOR UPDATE in Update and CloneToProject, the UPDATE of          *)
(* ResetProject and the DELETE of DeleteProject.                              *)
LockLatestVersion(w) ==
  /\ pc[w] = "open"
  /\ \A v \in Writer : pc[v] \in {"locked", "insert"} => ProjectOf[v] # ProjectOf[w]
  /\ Goto(w, "locked")
  /\ UNCHANGED <<free, leaked, left, server>>

(* conn.Exec of the content: a connection is acquired, used and released.     *)
InsertContent(u) ==
  /\ pc[u] = "locked" /\ left[u] > 0
  /\ free > 0
  /\ free' = free - 1
  /\ left' = [left EXCEPT ![u] = @ - 1]
  /\ Goto(u, "insert")
  /\ UNCHANGED <<leaked, server>>

Inserted(u) ==
  /\ pc[u] = "insert"
  /\ free' = free + 1
  /\ Goto(u, "locked")
  /\ UNCHANGED <<leaked, left, server>>

(* The request has nothing left to do.                                        *)
Finishing(r) ==
  \/ r \in Read /\ pc[r] = "open"
  \/ r \in Admin /\ pc[r] = "locked"
  \/ r \in Update /\ pc[r] = "locked" /\ left[r] = 0

(* Mutant of Finish: the request returns without its CloseFunc.               *)
FinishOpen(r) ==
  /\ Finishing(r)
  /\ Goto(r, "done")
  /\ UNCHANGED <<free, leaked, left, server>>

(* Mutant of Finish: the connection goes back twice.                          *)
FinishTwice(r) ==
  /\ Finishing(r)
  /\ free' = free + 2
  /\ Goto(r, "done")
  /\ UNCHANGED <<leaked, left, server>>

(* The deferred close: the transaction and its row lock end, and the          *)
(* connection is released.                                                    *)
Finish(r) ==
  /\ Finishing(r)
  /\ free' = free + 1
  /\ Goto(r, "done")
  /\ UNCHANGED <<leaked, left, server>>

(* The client gives up or the database reports an error, while the request    *)
(* waits for a connection, for the row lock or between two statements.        *)
Abort(r) ==
  /\ pc[r] \in {"connect", "open", "locked"}
  /\ free' = free + Held(r)
  /\ Goto(r, "done")
  /\ UNCHANGED <<leaked, left, server>>

-----------------------------------------------------------------------------
(* monitorDbPool: a ping every second, which needs a connection of the pool   *)
(* and gives up after 800 ms.                                                 *)

Report(status) == monitor' = "timer" /\ healthy' = status

Ping ==
  /\ monitor = "timer" /\ process # "exited"
  /\ IF process = "closing"
     THEN Report(FALSE)
     ELSE monitor' = "wait" /\ UNCHANGED healthy
  /\ UNCHANGED <<free, leaked, requests, process>>

AcquireForPing ==
  /\ monitor = "wait" /\ process \in {"serving", "stopping"}
  /\ free > 0
  /\ free' = free - 1
  /\ monitor' = "ping"
  /\ UNCHANGED <<leaked, requests, process, healthy>>

(* Mutant of PingTimeout: the last status stays.                              *)
PingAgain ==
  /\ monitor = "wait"
  /\ free = 0 \/ process \in {"closing", "exited"}
  /\ Report(healthy)
  /\ UNCHANGED <<free, leaked, requests, process>>

(* No connection for 800 ms, or the pool is closed.                           *)
PingTimeout ==
  /\ monitor = "wait"
  /\ free = 0 \/ process \in {"closing", "exited"}
  /\ Report(FALSE)
  /\ UNCHANGED <<free, leaked, requests, process>>

(* Mutant of Pong: a ping that fails keeps its connection.                    *)
PongKeeps ==
  /\ monitor = "ping"
  /\ \E answered \in BOOLEAN :
       free' = (IF answered THEN free + 1 ELSE free) /\ Report(answered)
  /\ UNCHANGED <<leaked, requests, process>>

(* The ping returns, with an error when the database cannot be reached.       *)
Pong ==
  /\ monitor = "ping"
  /\ free' = free + 1
  /\ \E answered \in BOOLEAN : Report(answered)
  /\ UNCHANGED <<leaked, requests, process>>

MonitorStep == Ping \/ AcquireForPing \/ PingTimeout \/ Pong

-----------------------------------------------------------------------------
(* SIGTERM or SIGINT: GracefulStop takes no new request and waits for those   *)
(* that run; Serve returns after it.                                          *)
GracefulStop ==
  /\ Stops /\ process = "serving"
  /\ process' = "stopping"
  /\ UNCHANGED <<free, leaked, requests, monitor, healthy>>

(* Mutant of Drained: the process goes on while requests run.                 *)
NotDrained ==
  /\ process = "stopping"
  /\ process' = "closing"
  /\ UNCHANGED <<free, leaked, requests, monitor, healthy>>

Drained ==
  /\ process = "stopping"
  /\ \A r \in Request : pc[r] \in {"new", "done"}
  /\ process' = "closing"
  /\ UNCHANGED <<free, leaked, requests, monitor, healthy>>

(* The deferred dbConn.Close returns when every connection is back.           *)
Close ==
  /\ process = "closing"
  /\ free = Size
  /\ process' = "exited"
  /\ UNCHANGED <<free, leaked, requests, monitor, healthy>>

Shutdown == Drained \/ Close

-----------------------------------------------------------------------------
Step(r) == Acquire(r) \/ Begin(r) \/ Finish(r)

UpdateStep(u) == InsertContent(u) \/ Inserted(u)

Next ==
  \/ \E r \in Request : Authorize(r) \/ Step(r) \/ Abort(r)
  \/ \E w \in Writer : LockLatestVersion(w)
  \/ \E u \in Update : UpdateStep(u)
  \/ MonitorStep
  \/ GracefulStop
  \/ Shutdown

Spec == Init /\ [][Next]_vars

(* Requests run, their statements return, the pool and the row locks serve    *)
(* those who wait in turn, and the monitor's timer fires.  Nothing makes a    *)
(* client send a request or give up, a ping succeed, or the process stop.     *)
FairSpec ==
  /\ Spec
  /\ \A r \in Request : SF_vars(Step(r))
  /\ \A w \in Writer : SF_vars(LockLatestVersion(w))
  /\ \A u \in Update : SF_vars(UpdateStep(u))
  /\ SF_vars(AcquireForPing) /\ WF_vars(MonitorStep)
  /\ WF_vars(Shutdown)

-----------------------------------------------------------------------------
Place == {"new", "connect", "begin", "open", "locked", "insert", "done"}

Pinging == IF monitor = "ping" THEN 1 ELSE 0

(* How many requests are at one of these places.                              *)
Count(places) == Cardinality({r \in Request : pc[r] \in places})

(* Connections that the requests have in hand, one each, and one more while a *)
(* content is inserted.                                                       *)
InHand == Count({"begin", "open", "locked", "insert"}) + Count({"insert"})

(* Types of the server's state, and every connection is somewhere: in the     *)
(* pool, in the hands of a request or of the monitor, or leaked.              *)
TypeOK ==
  /\ pc \in [Request -> Place]
  /\ left \in [Update -> 0 .. Inserts]
  /\ leaked \in 0 .. MaxLeaks
  /\ free \in 0 .. Size
  /\ process \in {"serving", "stopping", "closing", "exited"}
  /\ monitor \in {"timer", "wait", "ping"}
  /\ healthy \in BOOLEAN
  /\ free + leaked + Pinging + InHand = Size

(* The pool is not closed under a request that still uses a connection: the   *)
(* listener stops, the requests drain, and only then is it closed.            *)
ClosedWhenIdle ==
  process \in {"closing", "exited"} => \A r \in Request : Held(r) = 0 /\ pc[r] # "connect"

(* Connections enough for every request that waits for a row lock to hold     *)
(* one and for one of them to insert a content.                               *)
Spare == Size - leaked > Cardinality(Writer)

(* Requests that need nobody else to go on, and will then give a connection   *)
(* back.                                                                      *)
Running ==
  {r \in Request : \/ pc[r] \in {"begin", "insert"}
                   \/ r \in Read /\ pc[r] = "open"
                   \/ r \in Admin /\ pc[r] = "locked"}

(* While there are more connections than requests that write, those that hold *)
(* one and wait for a row lock or a second connection never have all of them: *)
(* a connection is free, or somebody who has one goes on and gives it back.   *)
SomebodyRuns == Spare => free > 0 \/ monitor = "ping" \/ Running # {}

(* Every request that got past its authorization is answered: the contents    *)
(* are inserted "outside the transaction to avoid deadlocks"                  *)
(* (internal/db/update.go).                                                   *)
Answered == \A r \in Request : pc[r] = "connect" ~> pc[r] = "done"

(* So it is at least while there are more connections than requests that wait *)
(* for a row lock: updates, clones, rollbacks and deletes.                    *)
AnsweredIfSpare == \A r \in Request : pc[r] = "connect" ~> (pc[r] = "done" \/ ~Spare)

(* A server without a free connection says so: when the pool stays empty, the *)
(* monitor's ping fails and the status becomes NOT_SERVING for good.          *)
ExhaustionReported == <>[](free = 0) => <>[](~healthy)

(* The database does not answer a ping that has its connection.               *)
Unanswered == Pong /\ ~healthy'

(* The status comes back once the requests are over and the database answers  *)
(* the pings, if a connection is left.                                        *)
HealthReturns ==
  /\ <>[](process = "serving" /\ leaked < Size /\ \A r \in Request : Held(r) = 0)
  /\ <>[][~Unanswered]_vars
  => <>[]healthy

(* A server that is told to stop exits, unless a connection was leaked (a     *)
(* failed Begin: dbConn.Close waits for that connection for ever) or its      *)
(* writers may have taken all connections (~Spare: they never end, and        *)
(* GracefulStop waits for them).                                              *)
Exits == process = "stopping" ~> (process = "exited" \/ leaked > 0 \/ ~Spare)

=============================================================================
