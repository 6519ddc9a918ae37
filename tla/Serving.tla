------------------------------ MODULE Serving ------------------------------
(***************************************************************************)
(* What the requests of one chat wait for: a connection of the pool, the   *)
(* row locks of its session and its announcement, and other services.      *)
(* ChatWorkflow says what the handlers do with the rows; here the rows are *)
(* only the locks on them, and a handler is the order in which it takes    *)
(* what it needs.  Requests of other chats meet these in the pool only.    *)
(***************************************************************************)
EXTENDS Integers, FiniteSets

CONSTANTS
  Requests,  \* requests that may be under way
  PoolSize,  \* connections: pool_size + max_overflow
  None       \* nobody

VARIABLES
  req,    \* the handler of each request and its next step
  conn,   \* requests that have a connection
  others, \* connections that requests of other chats have
  held,   \* row locks of each request, named after the steps that take them
  head,   \* who is next for the lock of a row, among those that wait for it
  behind  \* requests that wait for that place

vars == <<req, conn, others, held, head, behind>>
lines == <<head, behind>>

ASSUME PoolSizeAssumption == PoolSize \in Nat \ {0}
ASSUME NoneAssumption == None \notin Requests

-----------------------------------------------------------------------------
(* The handlers. *)

\* An INSERT of a message takes a key-share lock of its session ("pin"), an UPDATE
\* a lock of the row, a DELETE one that bears no other.
SessionLocks == {"pin", "session", "delete session"}
AnnouncementLocks == {"announcement", "delete announcement"}
Locks == SessionLocks \cup AnnouncementLocks
Rows == {"chat_sessions", "announcements"}

Row(lock) == IF lock \in SessionLocks THEN "chat_sessions" ELSE "announcements"

Conflicts(a, b) ==
  \/ a \in AnnouncementLocks /\ b \in AnnouncementLocks
  \/ a \in SessionLocks /\ b \in SessionLocks /\ "delete session" \in {a, b}
  \/ a = "session" /\ b = "session"

Steps == Locks \cup {"idle", "query", "call", "commit", "refresh", "respond"}

\* send_message and stream_message with the session saved before the call.
SaveBeforeCall(s) ==
  CASE s = "query" -> {"pin", "respond"}
    [] s = "pin" -> {"session"}
    [] s = "session" -> {"call"}
    [] s = "call" -> {"announcement", "commit"}
    [] s = "announcement" -> {"commit"}
    [] s = "commit" -> {"refresh"}
    [] OTHER -> {}

\* With the draft written to the announcement before the session is.
AnnouncementFirst(s) ==
  CASE s = "query" -> {"pin", "respond"}
    [] s = "pin" -> {"call"}
    [] s = "call" -> {"announcement", "session", "commit"}
    [] s = "announcement" -> {"session"}
    [] s = "session" -> {"commit"}
    [] s = "commit" -> {"refresh"}
    [] OTHER -> {}

\* send_message and stream_message: the message of the user is stored before the
\* call, the session when it has changed, the announcement with a draft.
Text(s) ==
  CASE s = "query" -> {"pin", "respond"}
    [] s = "pin" -> {"call"}
    [] s = "call" -> {"session", "commit"}
    [] s = "session" -> {"announcement", "commit"}
    [] s = "announcement" -> {"commit"}
    [] s = "commit" -> {"refresh"}
    [] OTHER -> {}

\* upload_voice: there is no message before the transcript.  One flush may write the
\* session and the first message, and nothing in the code says which of them first; both
\* locks are of the one session row, and a text message takes them the other way round.
Voice(s) ==
  CASE s = "query" -> {"call", "respond"}
    [] s = "call" -> {"session"}
    [] s = "session" -> {"pin"}
    [] s = "pin" -> {"announcement", "commit"}
    [] s = "announcement" -> {"commit"}
    [] s = "commit" -> {"refresh"}
    [] OTHER -> {}

\* upload_images
Images(s) ==
  CASE s = "query" -> {"call", "respond"}
    [] s = "call" -> {"pin"}
    [] s = "pin" -> {"session", "announcement", "commit"}
    [] s = "session" -> {"announcement", "commit"}
    [] s = "announcement" -> {"commit"}
    [] s = "commit" -> {"refresh"}
    [] OTHER -> {}

\* generate_platform_drafts
Generate(s) ==
  CASE s = "query" -> {"call", "respond"}
    [] s = "call" -> {"announcement"}
    [] s = "announcement" -> {"commit"}
    [] s = "commit" -> {"respond"}
    [] OTHER -> {}

\* update_announcement, which reads the row again, and update_platform_variant
Edit(s) ==
  CASE s = "query" -> {"announcement", "respond"}
    [] s = "announcement" -> {"commit"}
    [] s = "commit" -> {"refresh", "respond"}
    [] OTHER -> {}

\* delete_announcement: the rows of messages are locked by nobody else.
Delete(s) ==
  CASE s = "query" -> {"delete session", "delete announcement", "respond"}
    [] s = "delete session" -> {"delete announcement"}
    [] s = "delete announcement" -> {"commit"}
    [] s = "commit" -> {"respond"}
    [] OTHER -> {}

Kinds == {"text", "voice", "images", "generate", "edit", "delete"}

Handler(k, s) ==
  CASE k = "text" -> Text(s)
    [] k = "voice" -> Voice(s)
    [] k = "images" -> Images(s)
    [] k = "generate" -> Generate(s)
    [] k = "edit" -> Edit(s)
    [] k = "delete" -> Delete(s)
    [] k = "any" -> {"respond"}

\* After the commit all handlers are the same: some read rows again, all respond.
AfterCommit == {"refresh", "respond"}

-----------------------------------------------------------------------------
Idle == [kind |-> "any", step |-> "idle"]

At(r, s) == req[r].step = s

\* Before the first query they are the same too: get_current_user asks it.
KindsAt(r) == IF At(r, "query") THEN Kinds ELSE {req[r].kind}

Advance(r) == \E k \in KindsAt(r) : \E s \in Handler(k, req[r].step) :
  req' = [req EXCEPT ![r] = [kind |-> IF s \in AfterCommit THEN "any" ELSE k, step |-> s]]

\* The transaction is rolled back, or was over; the session of the request closes.
End(r) ==
  /\ req' = [req EXCEPT ![r] = Idle]
  /\ conn' = conn \ {r}
  /\ held' = [held EXCEPT ![r] = {}]
  /\ UNCHANGED others

Arrive(r) ==
  /\ At(r, "idle")
  /\ req' = [req EXCEPT ![r] = [kind |-> "any", step |-> "query"]]
  /\ UNCHANGED <<conn, others, held, lines>>

\* A pool that opens as many connections as it is asked for.
Unbounded == TRUE

Free == Cardinality(conn) + others < PoolSize

NeedsConnection(r) == req[r].step \in {"query", "refresh"} /\ r \notin conn

\* The first query of a transaction takes a connection, which the session keeps
\* until the transaction ends.
Connect(r) ==
  /\ NeedsConnection(r)
  /\ Free
  /\ conn' = conn \cup {r}
  /\ Advance(r)
  /\ UNCHANGED <<others, held, lines>>

\* Requests of other chats take connections and give them back.
Elsewhere ==
  /\ \/ Free /\ others' = others + 1
     \/ others > 0 /\ others' = others - 1
  /\ UNCHANGED <<req, conn, held, lines>>

\* pool_timeout: the request fails, also when its work was committed.
PoolTimeout(r) ==
  /\ NeedsConnection(r)
  /\ ~Free
  /\ End(r)
  /\ UNCHANGED lines

Answer(r) ==
  /\ At(r, "call")
  /\ Advance(r)
  /\ UNCHANGED <<conn, others, held, lines>>

\* A client without timeouts, of a service that is silent.
NoTimeout(r) == FALSE

\* The service answers with an error, or not in time.
CallFails(r) ==
  /\ At(r, "call")
  /\ End(r)
  /\ UNCHANGED lines

Holders(r) == {s \in Requests \ {r} : \E lock \in held[s] : Conflicts(req[r].step, lock)}

Blocked(r) == req[r].step \in Locks /\ Holders(r) # {}

\* The transaction has a lock of the row already.
Member(r) == \E lock \in held[r] : Row(lock) = Row(req[r].step)

\* A request that has to wait for the holders of a row waits in line: one of them
\* for the holders, the others for its place.  One that holds a lock of the row
\* and wants a stronger one does not, nor does one that need not wait.
Queue(r) ==
  /\ Blocked(r)
  /\ ~Member(r)
  /\ r \notin behind
  /\ LET row == Row(req[r].step)
     IN  \/ /\ head[row] = None
            /\ head' = [head EXCEPT ![row] = r]
            /\ UNCHANGED behind
         \/ /\ head[row] \notin {None, r}
            /\ behind' = behind \cup {r}
            /\ UNCHANGED head
  /\ UNCHANGED <<req, conn, others, held>>

\* The place is free and goes to one of those that waited for it.
TakePlace(r) ==
  /\ r \in behind
  /\ head[Row(req[r].step)] = None
  /\ head' = [head EXCEPT ![Row(req[r].step)] = r]
  /\ behind' = behind \ {r}
  /\ UNCHANGED <<req, conn, others, held>>

\* A commit has left a new version of the row, with a line of its own: one that
\* waited for the old one looks again.
Wake(r) ==
  /\ r \in behind
  /\ head[Row(req[r].step)] = None
  /\ behind' = behind \ {r}
  /\ UNCHANGED <<req, conn, others, held, head>>

Leave(r) == head' = [row \in Rows |-> IF head[row] = r THEN None ELSE head[row]]

Lock(r) ==
  /\ req[r].step \in Locks
  /\ ~Blocked(r)
  /\ r \notin behind
  /\ held' = [held EXCEPT ![r] = @ \cup {req[r].step}]
  /\ Advance(r)
  /\ Leave(r)
  /\ UNCHANGED <<conn, others, behind>>

\* A deletion was faster.
RowGone(r) ==
  /\ req[r].step \in Locks
  /\ ~Blocked(r)
  /\ r \notin behind
  /\ End(r)
  /\ Leave(r)
  /\ UNCHANGED behind

\* The locks and the connection go.
Commit(r) ==
  /\ At(r, "commit")
  /\ held' = [held EXCEPT ![r] = {}]
  /\ conn' = conn \ {r}
  /\ Advance(r)
  /\ UNCHANGED <<others, lines>>

\* The session closes when the answer is sent: a stream of events, or an answer that
\* the handler gave without a commit or after db.refresh, keeps its connection until
\* then.
Respond(r) ==
  /\ At(r, "respond")
  /\ End(r)
  /\ UNCHANGED lines

-----------------------------------------------------------------------------
Init ==
  /\ req = [r \in Requests |-> Idle]
  /\ conn = {}
  /\ others = 0
  /\ held = [r \in Requests |-> {}]
  /\ head = [row \in Rows |-> None]
  /\ behind = {}

GoOn(r) == Connect(r) \/ PoolTimeout(r) \/ CallFails(r) \/ Commit(r) \/ Respond(r)

TakeLock(r) == Lock(r) \/ RowGone(r)

Next ==
  \/ \E r \in Requests :
       \/ Arrive(r)
       \/ GoOn(r)
       \/ Answer(r)
       \/ Queue(r)
       \/ TakePlace(r)
       \/ Wake(r)
       \/ TakeLock(r)
  \/ Elsewhere

Spec == Init /\ [][Next]_vars

\* A deletion is not in line with the messages that come after it, so nothing is said
\* of its lock of the session.
Served(r) == TakePlace(r) \/ (~At(r, "delete session") /\ TakeLock(r))

\* Timeouts end the waiting for the pool and for services, the event loop runs a
\* coroutine that can go on, a stream ends or its client goes away, and PostgreSQL
\* serves those in line for a lock.
Fairness == \A r \in Requests : WF_vars(GoOn(r) \/ Queue(r)) /\ SF_vars(Served(r))

FairSpec == Spec /\ Fairness

-----------------------------------------------------------------------------
(* Properties. *)

\* The variables keep their types, and no more connections are in use than the
\* pool has.
TypeOK ==
  /\ req \in [Requests -> [kind : Kinds \cup {"any"}, step : Steps]]
  /\ conn \in SUBSET Requests
  /\ others \in Nat
  /\ Cardinality(conn) + others =< PoolSize
  /\ held \in [Requests -> SUBSET Locks]
  /\ head \in [Rows -> Requests \cup {None}]
  /\ behind \in SUBSET Requests

WaitsFor(r, s) ==
  IF r \in behind THEN s = head[Row(req[r].step)]
  ELSE Blocked(r) /\ s \in Holders(r)

\* Nobody waits in a circle, so PostgreSQL has no deadlock to break: messages,
\* edits and deletions take the session before the announcement, and what a message
\* upgrades is a lock that its like do not conflict with (chat.py, announcements.py).
NoLockCycle == \A rs \in SUBSET Requests :
  rs # {} => \E r \in rs : \A s \in rs : ~WaitsFor(r, s)

\* A request that waits for another service holds nobody up but a deletion of its
\* chat, and who is in line behind that: what it has of the rows during the call is
\* the key of the session (send_message, upload_voice, upload_images).  This is about
\* rows: others may wait for the connection it keeps.
CallsHoldUpOnlyDeletions == \A r, s \in Requests :
  Blocked(r) /\ s \in Holders(r) /\ At(s, "call") => At(r, "delete session")

Deleting(r) == req[r].kind = "delete"

\* Every request ends, however the services and the clients behave, unless a
\* deletion waits for ever behind messages that keep coming.
RequestsFinish ==
  (\A d \in Requests : []<>~Deleting(d)) => \A r \in Requests : []<>At(r, "idle")

=============================================================================
