------------------------------- MODULE Settings -------------------------------
(***************************************************************************)
(* The rows that a user edits: the notification settings and the profile   *)
(* of the users router, the shelter of the shelters router.  Each table    *)
(* has one row per user, whose user_id (for users, id) is unique.  Every   *)
(* query is restricted to the current user, so the model has one row; the  *)
(* tables do not meet, so a behaviour is about one of them.                *)
(*                                                                         *)
(* A handler loads the row, assigns columns, and commits; PostgreSQL runs  *)
(* at READ COMMITTED, and the UPDATE sets only the columns whose value     *)
(* differs from the loaded one.  updated_at is left out: nothing reads it. *)
(***************************************************************************)
EXTENDS Integers

CONSTANTS
  Workers,  \* request handlers
  Columns,  \* the columns that a user edits
  Values,   \* what they may hold
  Default,  \* the defaults of the columns; for users, the row of the registration
  None      \* no row, no request

VARIABLES
  table,    \* the table that is edited
  row,      \* its committed row of the user, or None
  job,      \* the request each worker is handling, or None
  failed,   \* whether some request ended with a 500
  alone,    \* history: columns that no two requests have changed at the same time
  last      \* history: what was last asked for, of each column, by a request that succeeded

vars == <<table, row, job, failed, alone, last>>

-----------------------------------------------------------------------------
Tables == {"users", "notification_settings", "shelters"}

Rows == [Columns -> Values]

\* The columns that a request changes, and their values.
Asks == UNION {[C -> Values] : C \in SUBSET Columns}

\* A handler with the row it loaded, before its INSERT or before its commit; made:
\* it has inserted the row and not committed yet.
Job == [ask : Asks, base : Rows \cup {None}, at : {"insert", "commit"}, made : BOOLEAN]

ASSUME DefaultAssumption == Default \in Rows
ASSUME NoneAssumption == None \notin Asks \cup Job

Asked(w, c) == job[w] # None /\ c \in DOMAIN job[w].ask

Load(w, ask, at) ==
  /\ job[w] = None
  /\ job' = [job EXCEPT ![w] = [ask |-> ask, base |-> row, at |-> at, made |-> FALSE]]
  /\ alone' = alone \ {c \in DOMAIN ask : \E v \in Workers : Asked(v, c)}
  /\ UNCHANGED <<table, row, failed, last>>

Crash(w) ==
  /\ job' = [job EXCEPT ![w] = None]
  /\ failed' = TRUE
  /\ UNCHANGED <<table, row, alone, last>>

-----------------------------------------------------------------------------
(* The handlers. *)

\* update_me: a name, a new password, both or neither.
UpdateMe(w, ask) == table = "users" /\ Load(w, ask, "commit")

\* _get_or_create_notification_setting: the SELECT.
GetOrCreate(w, ask) ==
  /\ table = "notification_settings"
  /\ Load(w, ask, IF row = None THEN "insert" ELSE "commit")

GetNotificationSettings(w) == GetOrCreate(w, [c \in {} |-> None])

\* Fields that are missing or null are left alone.
UpdateNotificationSettings(w, ask) == GetOrCreate(w, ask)

\* A shelter whose columns may be left out.
UpsertPartially(w, ask) == table = "shelters" /\ Load(w, ask, "commit")

\* upsert_my_shelter: every column is assigned.
UpsertMyShelter(w, ask) == table = "shelters" /\ ask \in Rows /\ Load(w, ask, "commit")

\* An INSERT that fails at once when another is under way.
TakenOrPending == row # None \/ \E v \in Workers : job[v] # None /\ job[v].made

\* The unique index finds a committed row.
Taken == row # None

\* _get_or_create_notification_setting: the flush.  The INSERT waits for the
\* transaction of another one.
Insert(w) ==
  /\ job[w] # None
  /\ job[w].at = "insert"
  /\ \/ Taken /\ Crash(w)
     \/ /\ ~Taken
        /\ \A v \in Workers : job[v] # None => ~job[v].made
        /\ job' = [job EXCEPT ![w].at = "commit", ![w].base = Default, ![w].made = TRUE]
        /\ UNCHANGED <<table, row, failed, alone, last>>

\* An UPDATE of every column.
MergeEveryColumn(base, ask, current) ==
  [c \in Columns |-> IF c \in DOMAIN ask THEN ask[c] ELSE base[c]]

\* A request whose values are dropped where they are the defaults.
MergeWithoutDefaults(base, ask, current) ==
  [c \in Columns |-> IF c \in DOMAIN ask /\ ask[c] # Default[c] THEN ask[c] ELSE current[c]]

\* The unit of work: the columns that differ from the loaded row.
Merge(base, ask, current) ==
  [c \in Columns |-> IF c \in DOMAIN ask /\ ask[c] # base[c] THEN ask[c] ELSE current[c]]

\* The row that a handler leaves.
Stored(j) ==
  IF j.base = None THEN j.ask ELSE Merge(j.base, j.ask, IF j.made THEN Default ELSE row)

\* A handler that found no shelter inserts it now.
Commit(w) ==
  /\ job[w] # None
  /\ job[w].at = "commit"
  /\ IF job[w].base = None /\ Taken
       THEN Crash(w)
       ELSE /\ row' = Stored(job[w])
            /\ last' = [c \in Columns |-> IF Asked(w, c) THEN job[w].ask[c] ELSE last[c]]
            /\ job' = [job EXCEPT ![w] = None]
            /\ UNCHANGED <<table, failed, alone>>

\* The process dies and comes back: open transactions are rolled back.
Restart ==
  /\ \E w \in Workers : job[w] # None
  /\ job' = [w \in Workers |-> None]
  /\ UNCHANGED <<table, row, failed, alone, last>>

-----------------------------------------------------------------------------
Init ==
  /\ table \in Tables
  /\ row = IF table = "users" THEN Default ELSE None
  /\ job = [w \in Workers |-> None]
  /\ failed = FALSE
  /\ alone = Columns
  /\ last = Default

Next ==
  \/ \E w \in Workers : GetNotificationSettings(w) \/ Insert(w) \/ Commit(w)
  \/ \E w \in Workers, ask \in Asks :
       UpdateMe(w, ask) \/ UpdateNotificationSettings(w, ask) \/ UpsertMyShelter(w, ask)
  \/ Restart

Spec == Init /\ [][Next]_vars

-----------------------------------------------------------------------------
(* Properties. *)

\* The variables keep their types; the row holds every column, whoever created it
\* (models User, NotificationSetting, Shelter).
TypeOK ==
  /\ table \in Tables
  /\ row \in Rows \cup {None}
  /\ job \in [Workers -> Job \cup {None}]
  /\ failed \in BOOLEAN
  /\ alone \in SUBSET Columns
  /\ last \in Rows

\* Requests that change different columns do not disturb each other, although each
\* loads the whole row and others commit before it does: a column that is changed by
\* one request at a time holds what was asked for last, or its default, also when it
\* was asked for while the row was being created (update_me,
\* update_notification_settings, upsert_my_shelter).
LastAskedStands == row # None => \A c \in alone : row[c] = last[c]

\* A request fails only because another has stored the row: sent again it finds the
\* row, whatever became of the other one's transaction
\* (_get_or_create_notification_setting, upsert_my_shelter).
FailedFindTheRow == failed => row # None

\* A stored column changes only to a value that a request in flight asks for, however
\* stale the row that the request had loaded: no old value comes back, a rename does
\* not bring back a replaced password, and reading the settings changes none.
OnlyWhatWasAsked ==
  [][row # None =>
       /\ row' # None
       /\ \A c \in Columns : row'[c] # row[c] =>
            \E w \in Workers : Asked(w, c) /\ job[w].ask[c] = row'[c]]_vars

\* For a user each column is a register of its own, which holds its default until it is
\* first written, although a handler loads the whole row, holds it while others commit
\* and merges into what they left (update_me, update_notification_settings,
\* _get_or_create_notification_setting, upsert_my_shelter).  Whoever creates the row,
\* and whoever fails to, a request takes effect whole or not at all.
Registers == INSTANCE AtomicColumns WITH
  stored <- IF row = None THEN Default ELSE row,
  asking <- [w \in Workers |-> IF job[w] = None THEN None ELSE job[w].ask],
  settled <- [w \in Workers |->
                IF job[w] = None THEN {}
                ELSE IF job[w].base = None THEN {}
                ELSE {c \in DOMAIN job[w].ask : job[w].ask[c] = job[w].base[c]}]

ImplementsAtomicColumns == Registers!ColumnsSpec

=============================================================================
