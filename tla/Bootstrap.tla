----------------------------- MODULE Bootstrap -----------------------------
(***************************************************************************)
(* What a container of the backend does before it serves requests:         *)
(* bootstrap_database.py looks at the database and picks the alembic       *)
(* commands, stamp and upgrade, that bring it to the current schema.       *)
(*                                                                         *)
(* The entry point stops when the script fails, and the container is       *)
(* started again (restart: unless-stopped).  Each alembic command is one   *)
(* transaction: it reads the recorded revisions when it begins, and its    *)
(* DDL and its change of alembic_version are rolled back together.         *)
(***************************************************************************)
EXTENDS Integers

CONSTANTS
  Containers,  \* containers of the backend
  MaxCrashes   \* bound on the number of times that a container is killed

VARIABLES
  fleet,    \* the containers deployed
  found,    \* what the database was when they were deployed
  schema,   \* tables of the database, and columns that migrations add or change
  version,  \* rows of alembic_version: revisions, by their place in the history
  boot,     \* how far each container is
  crashes   \* times that a container was killed

vars == <<fleet, found, schema, version, boot, crashes>>

ASSUME MaxCrashesAssumption == MaxCrashes \in Nat

-----------------------------------------------------------------------------
(* The migrations, in the order of their down_revision. *)

InitialSchema ==
  {"token_blacklist", "users", "announcements", "notification_settings",
   "refresh_tokens", "shelters", "chat_sessions", "messages"}

SttSessionFields == {"stt_session_id", "stt_slots"}

ChatStage == {"stage"}

\* users.hashed_password may be NULL from here on.
PasswordResetAndOauth ==
  {"optional hashed_password", "password_reset_tokens", "oauth_accounts"}

Revisions == 1..4
Head == 4

INITIAL_REVISION == 1
STT_REVISION == 2
STAGE_REVISION == 3

Adds(r) ==
  CASE r = 1 -> InitialSchema
    [] r = 2 -> SttSessionFields
    [] r = 3 -> ChatStage
    [] r = 4 -> PasswordResetAndOauth

Objects == UNION {Adds(r) : r \in Revisions}

\* The schema of a revision, 0 being the empty database.
Upto(n) == UNION {Adds(r) : r \in {q \in Revisions : q =< n}}

Tables == InitialSchema \cup {"password_reset_tokens", "oauth_accounts"}
ChatSessionColumns == SttSessionFields \cup ChatStage

-----------------------------------------------------------------------------
(* The containers. *)

Boot ==
  [at : {"off", "upgrade", "serving"}]
  \cup [at : {"columns"}, versioned : BOOLEAN, tables : SUBSET Tables]
  \cup [at : {"stamp"}, target : Revisions]
  \cup [at : {"stamping"}, target : Revisions, heads : SUBSET Revisions]
  \cup [at : {"upgrading"}, heads : SUBSET Revisions]

Go(c, b) == boot' = [boot EXCEPT ![c] = b] /\ UNCHANGED <<fleet, found, crashes>>

\* The script ends with an error, its transaction is rolled back, and the
\* container starts again.
Fail(c) == Go(c, [at |-> "off"]) /\ UNCHANGED <<schema, version>>

\* alembic creates its table in the transaction that writes the first row.
Versioned == version # {}

ReadTables(c) ==
  /\ c \in fleet
  /\ boot[c].at = "off"
  /\ Go(c, [at |-> "columns", versioned |-> Versioned, tables |-> schema \cap Tables])
  /\ UNCHANGED <<schema, version>>

\* A check that takes every database with tables for one without a history.
IsLegacyByTables(b) == b.tables # {}

IsLegacy(b) == ~b.versioned /\ b.tables # {}

\* A target that does not look at the columns: the last revision of create_all,
\* or the first.
LatestTarget(columns) == STAGE_REVISION
EarliestTarget(columns) == INITIAL_REVISION

\* One that takes a database without the later columns for an empty one.
BaseTarget(columns) == IF "stage" \in columns THEN STAGE_REVISION ELSE 0

LegacyStampTarget(columns) ==
  IF "stage" \in columns THEN STAGE_REVISION
  ELSE IF "stt_session_id" \in columns THEN STT_REVISION
  ELSE INITIAL_REVISION

\* The columns are read by a statement of their own, after the tables.
ReadColumns(c) ==
  /\ boot[c].at = "columns"
  /\ LET columns == IF "chat_sessions" \in boot[c].tables
                      THEN schema \cap ChatSessionColumns ELSE {}
     IN  Go(c, IF IsLegacy(boot[c])
                 THEN [at |-> "stamp", target |-> LegacyStampTarget(columns)]
                 ELSE [at |-> "upgrade"])
  /\ UNCHANGED <<schema, version>>

BeginStamp(c) ==
  /\ boot[c].at = "stamp"
  /\ Go(c, [at |-> "stamping", target |-> boot[c].target, heads |-> version])
  /\ UNCHANGED <<schema, version>>

\* The row of a head that is to be changed has been changed by another, or the
\* table that is to be created has been created.
HeadsMoved(heads) == heads \ version # {} \/ (heads = {} /\ version # {})

\* The table was created before alembic looked for it again: the row is added.
CreatedMeanwhile(heads, target) == heads = {} /\ target \notin version

\* alembic refuses to stamp between two heads.
BetweenHeads(heads, target) ==
  \E h, k \in heads : h < target /\ target < k

CommitStamp(c) ==
  /\ boot[c].at = "stamping"
  /\ LET heads == boot[c].heads
         target == boot[c].target
     IN  \/ /\ target \in heads
            /\ Go(c, [at |-> "upgrade"])
            /\ UNCHANGED <<schema, version>>
         \/ /\ target \notin heads
            /\ ~HeadsMoved(heads) \/ CreatedMeanwhile(heads, target)
            /\ ~BetweenHeads(heads, target)
            /\ version' = (version \ heads) \cup {target}
            /\ Go(c, [at |-> "upgrade"])
            /\ UNCHANGED schema
         \/ /\ target \notin heads
            /\ HeadsMoved(heads) \/ BetweenHeads(heads, target)
            /\ Fail(c)

BeginUpgrade(c) ==
  /\ boot[c].at = "upgrade"
  /\ Go(c, [at |-> "upgrading", heads |-> version])
  /\ UNCHANGED <<schema, version>>

\* The migrations that the recorded revisions leave.
Pending(heads) == {r \in Revisions : \A h \in heads : h < r}

Latest(heads) == {h \in heads : \A k \in heads : k =< h}

\* Its tables and columns must not be there, those it refers to must.
Applies(r, objects) ==
  /\ Adds(r) \cap objects = {}
  /\ r \in {2, 3} => "chat_sessions" \in objects
  /\ r = 4 => "users" \in objects

Upgrades(heads) ==
  /\ ~HeadsMoved(heads)
  /\ \A r \in Pending(heads) :
       Applies(r, schema \cup UNION {Adds(q) : q \in {p \in Pending(heads) : p < r}})

CommitUpgrade(c) ==
  /\ boot[c].at = "upgrading"
  /\ LET heads == boot[c].heads
     IN  \/ /\ Pending(heads) = {}
            /\ Go(c, [at |-> "serving"])
            /\ UNCHANGED <<schema, version>>
         \/ /\ Pending(heads) # {}
            /\ Upgrades(heads)
            /\ schema' = schema \cup UNION {Adds(r) : r \in Pending(heads)}
            /\ version' = (version \ Latest(heads)) \cup {Head}
            /\ Go(c, [at |-> "serving"])
         \/ /\ Pending(heads) # {}
            /\ ~Upgrades(heads)
            /\ Fail(c)

\* A container is killed, at any point, and starts again.
Kill(c) ==
  /\ boot[c].at # "off"
  /\ crashes < MaxCrashes
  /\ crashes' = crashes + 1
  /\ boot' = [boot EXCEPT ![c] = [at |-> "off"]]
  /\ UNCHANGED <<fleet, found, schema, version>>

-----------------------------------------------------------------------------
\* An empty database, one that create_all made before the migrations did, or one
\* that alembic has brought to a revision.
Init ==
  /\ fleet \in (SUBSET Containers) \ {{}}
  /\ \/ found = "fresh" /\ schema = {} /\ version = {}
     \/ found = "legacy" /\ version = {} /\ \E n \in 1..3 : schema = Upto(n)
     \/ found = "managed" /\ \E n \in Revisions : schema = Upto(n) /\ version = {n}
  /\ boot = [c \in Containers |-> [at |-> "off"]]
  /\ crashes = 0

Start(c) ==
  \/ ReadTables(c)
  \/ ReadColumns(c)
  \/ BeginStamp(c)
  \/ CommitStamp(c)
  \/ BeginUpgrade(c)
  \/ CommitUpgrade(c)

Next == \E c \in Containers : Start(c) \/ Kill(c)

Spec == Init /\ [][Next]_vars

\* A container that is down is started, and a script that can go on does.
FairSpec == Spec /\ \A c \in Containers : WF_vars(Start(c))

-----------------------------------------------------------------------------
(* Properties. *)

\* The variables keep their types: whatever a container does with a database,
\* it records revisions of the history and adds objects of the migrations.
TypeOK ==
  /\ fleet \in SUBSET Containers
  /\ found \in {"fresh", "legacy", "managed"}
  /\ schema \in SUBSET Objects
  /\ version \in SUBSET Revisions
  /\ boot \in [Containers -> Boot]
  /\ crashes \in 0..MaxCrashes

\* No container serves requests on less than the current schema, whichever
\* database it found, however many start together and whenever they are killed
\* ("Bring fresh, legacy, and Alembic-managed databases to the current schema").
ServesCurrentSchema == \A c \in fleet : boot[c].at = "serving" => schema = Objects

\* Containers that start together share one upgrade: the schema changes once and as a
\* whole, whoever does it, those that lose the race or are killed on the way leave it as
\* it is, and who serves does so on the current one ("Bring fresh, legacy, and
\* Alembic-managed databases to the current schema").
Deployment == INSTANCE SchemaUpgrade WITH
  Schemas <- {Upto(n) : n \in 0..Head},
  Current <- Upto(Head),
  serving <- {c \in Containers : boot[c].at = "serving"}

ImplementsSchemaUpgrade == Deployment!UpgradeSpec

\* A database made by create_all is brought up by one container; the others may
\* come by the dozen.
OneAtATime == found = "legacy" => \A c, d \in fleet : c = d

\* The recorded revision is the one that the schema has reached, also when a
\* container was killed between stamp and upgrade ("stamp at the revision that
\* fits the actual schema").  Two containers that start together on a legacy
\* database can break it: one has upgraded when the other stamps.
StampMatchesSchema ==
  OneAtATime /\ version # {} => \E r \in Revisions : version = {r} /\ schema = Upto(r)

\* Every container deployed comes to serve, and back to it after it was killed: a
\* start that fails because another was faster does not fail for ever.
EveryContainerServes ==
  \A c \in Containers : []<>(OneAtATime /\ c \in fleet => boot[c].at = "serving")

=============================================================================
