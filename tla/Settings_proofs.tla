--------------------------- MODULE Settings_proofs ---------------------------
(***************************************************************************)
(* Theorems about Settings, for any number of requests, columns and        *)
(* values.                                                                 *)
(***************************************************************************)
EXTENDS Settings, TLAPS

\* None is no row, no job and no set of values that a request asks for.
LEMMA NoneFresh == None \notin Rows /\ None \notin Asks /\ None \notin Job
BY NoneAssumption DEF Asks, Rows

\* What a handler holds fits the table: only the settings are inserted early, and a
\* row that a handler has loaded is still there.
JobFits(j) ==
  /\ j.made => j.at = "commit" /\ j.base = Default /\ row = None
  /\ j.at = "insert" => j.base = None /\ table = "notification_settings"
  /\ j.at = "commit" /\ j.base = None => table = "shelters"
  /\ table = "shelters" => j.ask \in Rows /\ ~j.made
  /\ ~j.made /\ j.base # None => row # None

JobsFit == \A w \in Workers : job[w] # None => JobFits(job[w])

\* Only one transaction is creating the row.
OneCreator == \A v, w \in Workers :
  job[v] # None /\ job[v].made /\ job[w] # None /\ job[w].made => v = w

\* The row of a table that is not inserted whole starts with the defaults.
Untouched == row = None => table # "users" /\ (table = "shelters" \/ last = Default)

\* A column that one request at a time changes: the loaded value is still the stored
\* one.
OneByOne == \A c \in alone :
  /\ \A v, w \in Workers : Asked(v, c) /\ Asked(w, c) => v = w
  /\ \A w \in Workers : Asked(w, c) /\ ~job[w].made /\ job[w].base # None =>
       job[w].base[c] = row[c]

IInv ==
  /\ TypeOK
  /\ JobsFit
  /\ OneCreator
  /\ Untouched
  /\ OneByOne
  /\ LastAskedStands
  /\ FailedFindTheRow

-----------------------------------------------------------------------------
\* A request loads the row.
LEMMA LoadKeeps ==
  ASSUME IInv, NEW w \in Workers, NEW ask \in Asks, NEW at \in {"insert", "commit"},
         Load(w, ask, at),
         at = "insert" <=> table = "notification_settings" /\ row = None,
         table = "shelters" => ask \in Rows
  PROVE  IInv'
<1> DEFINE j == [ask |-> ask, base |-> row, at |-> at, made |-> FALSE]
<1>1. /\ job' = [job EXCEPT ![w] = j] /\ job[w] = None
      /\ alone' = alone \ {c \in DOMAIN ask : \E v \in Workers : Asked(v, c)}
      /\ UNCHANGED <<table, row, failed, last>>
  BY DEF Load
<1>2. /\ j \in Job /\ j # None /\ j.ask = ask /\ j.base = row /\ j.at = at /\ ~j.made
  <2>1. j \in Job
    BY DEF IInv, TypeOK, Job
  <2> QED BY <2>1, NoneFresh
<1>3. JobFits(j)
  BY <1>2 DEF JobFits, IInv, Untouched, TypeOK, Tables
<1> HIDE DEF j
<1>4. /\ job'[w] = j /\ \A v \in Workers \ {w} : job'[v] = job[v]
      /\ job' \in [Workers -> Job \cup {None}] /\ alone' \subseteq alone
  BY <1>1, <1>2 DEF IInv, TypeOK
<1>5. TypeOK'
  BY <1>1, <1>4 DEF IInv, TypeOK
<1>6. JobsFit'
  BY <1>1, <1>3, <1>4 DEF IInv, JobsFit, JobFits
<1>7. OneCreator'
  BY <1>2, <1>4 DEF IInv, OneCreator
<1>8. OneByOne'
  <2> SUFFICES ASSUME NEW c \in alone'
               PROVE  /\ (\A u, v \in Workers : Asked(u, c) /\ Asked(v, c) => u = v)'
                      /\ (\A v \in Workers : Asked(v, c) /\ ~job[v].made /\ job[v].base # None =>
                            job[v].base[c] = row[c])'
    BY DEF OneByOne
  <2>1. c \in DOMAIN ask => \A v \in Workers : ~Asked(v, c)
    BY <1>1
  <2>2. /\ \A v \in Workers \ {w} : Asked(v, c)' <=> Asked(v, c)
        /\ Asked(w, c)' <=> c \in DOMAIN ask
    BY <1>2, <1>4 DEF Asked
  <2> QED BY <1>1, <1>2, <1>4, <2>1, <2>2 DEF IInv, OneByOne
<1>9. Untouched' /\ LastAskedStands' /\ FailedFindTheRow'
  BY <1>1, <1>4 DEF IInv, Untouched, LastAskedStands, FailedFindTheRow
<1> QED BY <1>5, <1>6, <1>7, <1>8, <1>9 DEF IInv

\* A job that ends leaves the others as they are.
LEMMA EndKeeps ==
  ASSUME IInv, NEW w \in Workers, job' = [job EXCEPT ![w] = None],
         UNCHANGED <<table, row, alone, last>>, failed' \in BOOLEAN, failed' => row # None
  PROVE  IInv'
<1>1. job'[w] = None /\ \A v \in Workers \ {w} : job'[v] = job[v]
  BY DEF IInv, TypeOK
<1>2. TypeOK'
  BY DEF IInv, TypeOK
<1>3. JobsFit' /\ OneCreator'
  BY <1>1 DEF IInv, JobsFit, JobFits, OneCreator
<1>4. OneByOne'
  BY <1>1 DEF IInv, OneByOne, Asked
<1> QED BY <1>2, <1>3, <1>4 DEF IInv, Untouched, LastAskedStands, FailedFindTheRow

LEMMA InsertKeeps ==
  ASSUME IInv, NEW w \in Workers, Insert(w)
  PROVE  IInv'
<1>1. CASE Taken /\ Crash(w)
  BY <1>1, EndKeeps DEF Crash, Taken
<1>2. CASE ~Taken
  <2> DEFINE j == [job[w] EXCEPT !.at = "commit", !.base = Default, !.made = TRUE]
  <2>1. /\ job' = [job EXCEPT ![w] = j] /\ row = None /\ job[w] # None /\ job[w].at = "insert"
        /\ \A v \in Workers : job[v] # None => ~job[v].made
        /\ UNCHANGED <<table, row, failed, alone, last>>
        /\ job[w] \in Job
    BY <1>2 DEF Insert, Taken, IInv, TypeOK
  <2>2. j \in Job /\ j.at = "commit" /\ j.base = Default /\ j.made /\ j.ask = job[w].ask
    BY <2>1, DefaultAssumption DEF Job
  <2>3. table = "notification_settings"
    BY <2>1 DEF IInv, JobsFit, JobFits
  <2>4. JobFits(j) /\ j # None
    BY <2>1, <2>2, <2>3, DefaultAssumption, NoneFresh DEF JobFits
  <2> HIDE DEF j
  <2>5. /\ job'[w] = j /\ \A v \in Workers \ {w} : job'[v] = job[v]
        /\ job' \in [Workers -> Job \cup {None}]
    BY <2>1, <2>2 DEF IInv, TypeOK
  <2>6. TypeOK'
    BY <2>1, <2>5 DEF IInv, TypeOK
  <2>7. JobsFit' /\ OneCreator'
    BY <2>1, <2>4, <2>5 DEF IInv, JobsFit, JobFits, OneCreator
  <2>8. \A c \in Columns : \A v \in Workers : Asked(v, c)' <=> Asked(v, c)
    BY <2>1, <2>2, <2>4, <2>5 DEF Asked
  <2>9. OneByOne'
    BY <2>1, <2>2, <2>5, <2>8 DEF IInv, TypeOK, OneByOne
  <2> QED BY <2>1, <2>6, <2>7, <2>9 DEF IInv, Untouched, LastAskedStands, FailedFindTheRow
<1> QED BY <1>1, <1>2 DEF Insert

\* What a commit makes of the row.
LEMMA StoredFits ==
  ASSUME IInv, NEW w \in Workers, job[w] # None, job[w].at = "commit",
         job[w].base = None => row = None
  PROVE  /\ Stored(job[w]) \in Rows
         /\ \A c \in Columns :
              \/ Asked(w, c) /\ Stored(job[w])[c] = job[w].ask[c]
              \/ row # None /\ Stored(job[w])[c] = row[c]
              \/ ~Asked(w, c) /\ row = None /\ Stored(job[w])[c] = Default[c]
         /\ \A c \in Columns : Asked(w, c) /\ c \in alone => Stored(job[w])[c] = job[w].ask[c]
         /\ \A c \in Columns : ~Asked(w, c) => table # "shelters"
         /\ \A c \in Columns : ~Asked(w, c) /\ row # None => Stored(job[w])[c] = row[c]
<1>1. /\ job[w] \in Job /\ JobFits(job[w]) /\ table \in Tables
  BY DEF IInv, TypeOK, JobsFit
<1>2. job[w].ask \in Asks /\ DOMAIN job[w].ask \subseteq Columns
      /\ \A c \in DOMAIN job[w].ask : job[w].ask[c] \in Values
  BY <1>1 DEF Job, Asks
<1>3. \A c \in Columns : ~Asked(w, c) => table # "shelters"
  BY <1>1 DEF JobFits, Asked, Rows
<1>4. CASE job[w].base = None
  <2>1. job[w].ask \in Rows /\ row = None /\ Stored(job[w]) = job[w].ask
    BY <1>1, <1>4 DEF JobFits, Stored
  <2> QED BY <1>3, <2>1 DEF Rows, Asked
<1>5. CASE job[w].base # None /\ job[w].made
  <2>1. job[w].base = Default /\ row = None
    BY <1>1, <1>5 DEF JobFits
  <2>2. Stored(job[w]) =
          [c \in Columns |-> IF c \in DOMAIN job[w].ask /\ job[w].ask[c] # Default[c]
                               THEN job[w].ask[c] ELSE Default[c]]
    BY <1>5, <2>1 DEF Stored, Merge
  <2> QED BY <1>2, <1>3, <2>1, <2>2, DefaultAssumption DEF Rows, Asked
<1>6. CASE job[w].base # None /\ ~job[w].made
  <2>1. row # None /\ row \in Rows
    BY <1>1, <1>6 DEF JobFits, IInv, TypeOK
  <2>2. Stored(job[w]) =
          [c \in Columns |-> IF c \in DOMAIN job[w].ask /\ job[w].ask[c] # job[w].base[c]
                               THEN job[w].ask[c] ELSE row[c]]
    BY <1>6 DEF Stored, Merge
  <2>3. \A c \in alone : Asked(w, c) => job[w].base[c] = row[c]
    BY <1>6 DEF IInv, OneByOne
  <2> QED BY <1>2, <1>3, <2>1, <2>2, <2>3 DEF Rows, Asked
<1> QED BY <1>4, <1>5, <1>6

LEMMA CommitKeeps ==
  ASSUME IInv, NEW w \in Workers, Commit(w)
  PROVE  IInv'
<1>1. CASE job[w].base = None /\ Taken
  BY <1>1, EndKeeps DEF Commit, Crash, Taken
<1>2. CASE ~(job[w].base = None /\ Taken)
  <2>1. /\ job[w] # None /\ job[w].at = "commit" /\ row' = Stored(job[w])
        /\ last' = [c \in Columns |-> IF Asked(w, c) THEN job[w].ask[c] ELSE last[c]]
        /\ job' = [job EXCEPT ![w] = None]
        /\ UNCHANGED <<table, failed, alone>>
        /\ job[w].base = None => row = None
    BY <1>2 DEF Commit, Taken
  <2>2. /\ row' \in Rows /\ row' # None
    BY <2>1, StoredFits, NoneFresh
  <2>3. last' \in Rows
    <3>1. job[w].ask \in Asks
      BY <2>1 DEF IInv, TypeOK, Job
    <3>2. \A c \in Columns : Asked(w, c) => job[w].ask[c] \in Values
      BY <3>1 DEF Asks, Asked
    <3> QED BY <2>1, <3>2 DEF IInv, TypeOK, Rows
  <2>4. job'[w] = None /\ \A v \in Workers \ {w} : job'[v] = job[v]
    BY <2>1 DEF IInv, TypeOK
  <2>5. TypeOK'
    BY <2>1, <2>2, <2>3 DEF IInv, TypeOK
  <2>6. \A v \in Workers \ {w} : job[v] # None => ~job[v].made
    <3> SUFFICES ASSUME NEW v \in Workers \ {w}, job[v] # None, job[v].made PROVE FALSE
      OBVIOUS
    <3>1. row = None /\ table # "shelters"
      BY DEF IInv, JobsFit, JobFits
    <3>2. ~job[w].made
      BY <2>1 DEF IInv, OneCreator
    <3>3. JobFits(job[w])
      BY <2>1 DEF IInv, JobsFit
    <3> QED BY <2>1, <3>1, <3>2, <3>3 DEF JobFits
  <2>7. JobsFit' /\ OneCreator'
    BY <2>1, <2>2, <2>4, <2>6 DEF IInv, JobsFit, JobFits, OneCreator
  <2>8. OneByOne'
    <3> SUFFICES ASSUME NEW c \in alone
                 PROVE  /\ (\A u, v \in Workers : Asked(u, c) /\ Asked(v, c) => u = v)'
                        /\ (\A v \in Workers : Asked(v, c) /\ ~job[v].made /\ job[v].base # None =>
                              job[v].base[c] = row[c])'
      BY <2>1 DEF OneByOne
    <3>1. \A v \in Workers : Asked(v, c)' => v # w /\ Asked(v, c) /\ job'[v] = job[v]
      BY <2>4 DEF Asked
    <3>2. ASSUME NEW v \in Workers, Asked(v, c)', ~job'[v].made, job'[v].base # None
          PROVE  job'[v].base[c] = row'[c]
      <4>1. v # w /\ Asked(v, c) /\ job'[v] = job[v] /\ ~Asked(w, c)
        BY <3>1, <3>2, <2>1 DEF IInv, OneByOne
      <4>2. job[v].base[c] = row[c] /\ row # None
        BY <3>2, <4>1 DEF IInv, OneByOne, JobsFit, JobFits, Asked
      <4>3. c \in Columns
        BY DEF IInv, TypeOK
      <4> QED BY <2>1, <4>1, <4>2, <4>3, StoredFits
    <3> QED BY <3>1, <3>2 DEF IInv, OneByOne
  <2>9. LastAskedStands'
    <3> SUFFICES ASSUME NEW c \in alone PROVE row'[c] = last'[c]
      BY <2>1 DEF LastAskedStands
    <3>1. c \in Columns
      BY DEF IInv, TypeOK
    <3>2. CASE Asked(w, c)
      BY <2>1, <3>1, <3>2, StoredFits
    <3>3. CASE ~Asked(w, c) /\ row # None
      BY <2>1, <3>1, <3>3, StoredFits DEF IInv, LastAskedStands
    <3>4. CASE ~Asked(w, c) /\ row = None
      <4>1. last = Default
        BY <2>1, <3>1, <3>4, StoredFits DEF IInv, Untouched
      <4> QED BY <2>1, <3>1, <3>4, <4>1, StoredFits
    <3> QED BY <3>2, <3>3, <3>4
  <2> QED BY <2>1, <2>2, <2>5, <2>7, <2>8, <2>9 DEF IInv, Untouched, FailedFindTheRow
<1> QED BY <1>1, <1>2

\* Every step keeps the invariant.
LEMMA NextKeeps ==
  ASSUME IInv, [Next]_vars
  PROVE  IInv'
<1>1. ASSUME NEW w \in Workers, GetNotificationSettings(w)
      PROVE  IInv'
  <2>1. [c \in {} |-> None] \in Asks
    BY DEF Asks
  <2>2. table = "notification_settings"
    BY <1>1 DEF GetNotificationSettings, GetOrCreate
  <2> QED BY <1>1, <2>1, <2>2, LoadKeeps DEF GetNotificationSettings, GetOrCreate
<1>2. ASSUME NEW w \in Workers, NEW ask \in Asks, UpdateNotificationSettings(w, ask)
      PROVE  IInv'
  <2>1. table = "notification_settings"
    BY <1>2 DEF UpdateNotificationSettings, GetOrCreate
  <2> QED BY <1>2, <2>1, LoadKeeps DEF UpdateNotificationSettings, GetOrCreate
<1>3. ASSUME NEW w \in Workers, NEW ask \in Asks, UpdateMe(w, ask)
      PROVE  IInv'
  BY <1>3, LoadKeeps DEF UpdateMe
<1>4. ASSUME NEW w \in Workers, NEW ask \in Asks, UpsertMyShelter(w, ask)
      PROVE  IInv'
  BY <1>4, LoadKeeps DEF UpsertMyShelter
<1>5. CASE Restart
  BY <1>5, NoneFresh DEF Restart, IInv, TypeOK, JobsFit, OneCreator, OneByOne, Asked, Untouched,
     LastAskedStands, FailedFindTheRow
<1>6. CASE UNCHANGED vars
  BY <1>6 DEF vars, IInv, TypeOK, JobsFit, JobFits, OneCreator, OneByOne, Asked, Untouched,
     LastAskedStands, FailedFindTheRow
<1> QED BY <1>1, <1>2, <1>3, <1>4, <1>5, <1>6, InsertKeeps, CommitKeeps DEF Next

-----------------------------------------------------------------------------
(* The theorems. *)

\* The inductive invariant holds in every run.
THEOREM Invariance == Spec => []IInv
<1>1. Init => IInv
  BY DefaultAssumption, NoneFresh DEF Init, IInv, TypeOK, Tables, JobsFit, OneCreator, OneByOne, Asked,
     Untouched, LastAskedStands, FailedFindTheRow
<1>2. IInv /\ [Next]_vars => IInv'
  BY NextKeeps
<1> QED BY <1>1, <1>2, PTL DEF Spec

\* The variables keep their types; in particular the row always has every column.
THEOREM TypeCorrect == Spec => []TypeOK
<1>1. IInv => TypeOK
  BY DEF IInv
<1> QED BY <1>1, Invariance, PTL

\* Changes of different columns do not disturb each other.
THEOREM ChangesStand == Spec => []LastAskedStands
<1>1. IInv => LastAskedStands
  BY DEF IInv
<1> QED BY <1>1, Invariance, PTL

\* Whoever got a 500 finds the row when it tries again.
THEOREM RetryWorks == Spec => []FailedFindTheRow
<1>1. IInv => FailedFindTheRow
  BY DEF IInv
<1> QED BY <1>1, Invariance, PTL

\* No stored value changes unless a request in flight asks for the new one.
THEOREM NothingElseChanges == Spec => OnlyWhatWasAsked
<1> DEFINE Step == row # None =>
      /\ row' # None
      /\ \A c \in Columns : row'[c] # row[c] =>
           \E w \in Workers : Asked(w, c) /\ job[w].ask[c] = row'[c]
<1>1. ASSUME IInv, [Next]_vars PROVE Step
  <2>1. CASE row' = row
    BY <2>1
  <2>2. ASSUME NEW w \in Workers, Commit(w), row' # row PROVE Step
    <3>1. /\ job[w] # None /\ job[w].at = "commit" /\ row' = Stored(job[w])
          /\ job[w].base = None => row = None
      BY <2>2 DEF Commit, Crash, Taken
    <3> QED BY <1>1, <3>1, StoredFits, NoneFresh
  <2>3. row' = row \/ \E w \in Workers : Commit(w)
    BY <1>1 DEF Next, GetNotificationSettings, UpdateNotificationSettings, GetOrCreate, UpdateMe,
       UpsertMyShelter, Load, Insert, Crash, Restart, vars
  <2> QED BY <2>1, <2>2, <2>3
<1>2. IInv /\ [Next]_vars => [Step]_vars
  BY <1>1
<1> QED BY <1>2, Invariance, PTL DEF Spec, OnlyWhatWasAsked

-----------------------------------------------------------------------------
(* Settings implements AtomicColumns. *)

Shown == IF row = None THEN Default ELSE row

Asking == [w \in Workers |-> IF job[w] = None THEN None ELSE job[w].ask]

\* The columns in which a handler loaded the value that its request asks for.
Met(j) == IF j.base = None THEN {} ELSE {c \in DOMAIN j.ask : j.ask[c] = j.base[c]}

Settled == [w \in Workers |-> IF job[w] = None THEN {} ELSE Met(job[w])]

\* A step that gives one handler another job, of the same request, changes its entry.
LEMMA OneEntry ==
  ASSUME IInv, NEW w \in Workers, NEW j, j # None, job' = [job EXCEPT ![w] = j]
  PROVE  /\ Asking' = [Asking EXCEPT ![w] = j.ask]
         /\ Settled' = [Settled EXCEPT ![w] = Met(j)]
<1>1. job'[w] = j /\ \A v \in Workers \ {w} : job'[v] = job[v]
  BY DEF IInv, TypeOK
<1>2. Asking' = [Asking EXCEPT ![w] = j.ask]
  <2>1. \A v \in Workers : (IF job[v] = None THEN None ELSE job[v].ask)'
                           = IF v = w THEN j.ask ELSE Asking[v]
    BY <1>1 DEF Asking
  <2>2. Asking' = [v \in Workers |-> IF v = w THEN j.ask ELSE Asking[v]]
    BY <2>1 DEF Asking
  <2>3. [v \in Workers |-> IF v = w THEN j.ask ELSE Asking[v]] = [Asking EXCEPT ![w] = j.ask]
    BY DEF Asking
  <2> QED BY <2>2, <2>3
<1>3. \A v \in Workers : (IF job[v] = None THEN {} ELSE Met(job[v]))'
                         = IF v = w THEN Met(j) ELSE Settled[v]
  BY <1>1 DEF Settled, Met
<1>4. Settled' = [v \in Workers |-> IF v = w THEN Met(j) ELSE Settled[v]]
  BY <1>3 DEF Settled
<1>5. [v \in Workers |-> IF v = w THEN Met(j) ELSE Settled[v]] = [Settled EXCEPT ![w] = Met(j)]
  BY DEF Settled
<1> QED BY <1>2, <1>4, <1>5

\* A step that ends the requests of W.
LEMMA EntriesOver ==
  ASSUME IInv, NEW W \in SUBSET Workers,
         job' = [w \in Workers |-> IF w \in W THEN None ELSE job[w]]
  PROVE  Registers!Over(W)
<1>1. \A w \in Workers : job'[w] = IF w \in W THEN None ELSE job[w]
  OBVIOUS
<1>2. Asking' = [w \in Workers |-> IF w \in W THEN None ELSE Asking[w]]
  BY <1>1 DEF Asking
<1>3. Settled' = [w \in Workers |-> IF w \in W THEN {} ELSE Settled[w]]
  <2>1. \A w \in Workers : (IF job[w] = None THEN {} ELSE Met(job[w]))'
                           = IF w \in W THEN {} ELSE Settled[w]
    BY <1>1 DEF Settled, Met
  <2> QED BY <2>1 DEF Settled
<1> QED BY <1>2, <1>3 DEF Registers!Over, Asking, Settled, Met

\* A request that fails, or dies with the process, writes nothing.
LEMMA FailureAbandons ==
  ASSUME IInv, NEW W \in SUBSET Workers, row' = row,
         job' = [w \in Workers |-> IF w \in W THEN None ELSE job[w]]
  PROVE  Registers!ColumnsNext
<1>1. Registers!Abandon(W)
  BY EntriesOver DEF Registers!Abandon
<1> QED BY <1>1 DEF Registers!ColumnsNext

LEMMA CrashAbandons ==
  ASSUME IInv, NEW w \in Workers, Crash(w)
  PROVE  Registers!ColumnsNext
<1>1. job' = [v \in Workers |-> IF v \in {w} THEN None ELSE job[v]]
  BY DEF Crash, IInv, TypeOK
<1> QED BY <1>1, FailureAbandons DEF Crash

\* A request that loads the row begins, and has settled what it finds there.
LEMMA LoadBegins ==
  ASSUME IInv, NEW w \in Workers, NEW ask \in Asks, NEW at \in {"insert", "commit"}, Load(w, ask, at)
  PROVE  Registers!ColumnsNext
<1> DEFINE j == [ask |-> ask, base |-> row, at |-> at, made |-> FALSE]
<1>1. job[w] = None /\ job' = [job EXCEPT ![w] = j] /\ row' = row /\ j # None
  <2>1. j \in Job
    BY DEF IInv, TypeOK, Job
  <2> QED BY <2>1, NoneFresh DEF Load
<1>2. j.ask = ask /\ j.base = row
  OBVIOUS
<1> HIDE DEF j
<1>3. Asking' = [Asking EXCEPT ![w] = ask] /\ Settled' = [Settled EXCEPT ![w] = Met(j)]
  BY <1>1, <1>2, OneEntry
<1>4. Met(j) \subseteq {c \in DOMAIN ask : ask[c] = Shown[c]}
  BY <1>2 DEF Met, Shown
<1>5. Asking[w] = None /\ Shown' = Shown
  BY <1>1 DEF Asking, Shown
<1>6. Registers!Begin(w, ask)
  BY <1>3, <1>4, <1>5 DEF Registers!Begin, Registers!Agreed, Asking, Settled, Met, Shown
<1>7. \E C \in SUBSET Columns : ask \in [C -> Values]
  BY DEF Asks
<1> QED BY <1>6, <1>7 DEF Registers!ColumnsNext

\* A request that has inserted the row has settled the defaults that it asks for.
LEMMA InsertSettles ==
  ASSUME IInv, NEW w \in Workers, Insert(w)
  PROVE  Registers!ColumnsNext
<1>1. CASE Crash(w)
  BY <1>1, CrashAbandons
<1>2. CASE ~Taken /\ job' = [job EXCEPT ![w].at = "commit", ![w].base = Default, ![w].made = TRUE]
  <2> DEFINE j == [job[w] EXCEPT !.at = "commit", !.base = Default, !.made = TRUE]
  <2>1. /\ job[w] # None /\ job[w] \in Job /\ job[w].base = None /\ row = None /\ row' = row
    BY <1>2 DEF Insert, Taken, Crash, IInv, TypeOK, JobsFit, JobFits
  <2>2. j \in Job /\ j # None /\ j.ask = job[w].ask /\ j.base = Default /\ Default # None
    BY <2>1, DefaultAssumption, NoneFresh DEF Job
  <2>3. job' = [job EXCEPT ![w] = j]
    BY <1>2
  <2> HIDE DEF j
  <2>4. Asking' = [Asking EXCEPT ![w] = j.ask] /\ Settled' = [Settled EXCEPT ![w] = Met(j)]
    BY <2>2, <2>3, OneEntry
  <2>5. Asking[w] = j.ask /\ Settled[w] = {} /\ Asking[w] # None
    BY <2>1, <2>2, NoneFresh DEF Asking, Settled, Met, Job
  <2>6. Asking' = Asking /\ Settled' = [Settled EXCEPT ![w] = @ \cup Met(j)]
    <3>1. [Asking EXCEPT ![w] = Asking[w]] = Asking
      BY DEF Asking
    <3> QED BY <2>4, <2>5, <3>1
  <2>7. Met(j) \subseteq {c \in DOMAIN Asking[w] : Asking[w][c] = Shown[c]}
    BY <2>1, <2>2, <2>5 DEF Met, Shown
  <2>8. Shown' = Shown
    BY <2>1 DEF Shown
  <2>9. Registers!Settle(w)
    BY <2>5, <2>6, <2>7, <2>8 DEF Registers!Settle, Registers!Agreed, Asking, Settled, Met, Shown
  <2> QED BY <2>9 DEF Registers!ColumnsNext
<1> QED BY <1>1, <1>2 DEF Insert

\* A commit writes what its request asks for and has not found, and nothing else.
LEMMA CommitWrites ==
  ASSUME IInv, NEW w \in Workers, job[w] # None, job[w].at = "commit",
         job[w].base = None => row = None
  PROVE  Stored(job[w]) = [c \in Columns |-> IF c \in DOMAIN job[w].ask \ Met(job[w])
                                               THEN job[w].ask[c] ELSE Shown[c]]
<1>1. /\ job[w] \in Job /\ JobFits(job[w]) /\ table \in Tables /\ row \in Rows \cup {None}
  BY DEF IInv, TypeOK, JobsFit
<1>2. CASE job[w].base = None
  <2>1. job[w].ask \in Rows /\ Stored(job[w]) = job[w].ask /\ Met(job[w]) = {}
    BY <1>1, <1>2 DEF JobFits, Stored, Met
  <2> QED BY <2>1 DEF Rows
<1>3. CASE job[w].base # None
  <2>1. Shown = IF job[w].made THEN Default ELSE row
    BY <1>1, <1>3 DEF JobFits, Shown
  <2>2. Stored(job[w]) =
          [c \in Columns |-> IF c \in DOMAIN job[w].ask /\ job[w].ask[c] # job[w].base[c]
                               THEN job[w].ask[c] ELSE Shown[c]]
    BY <1>3, <2>1 DEF Stored, Merge
  <2>3. \A c : c \in DOMAIN job[w].ask \ Met(job[w])
               <=> c \in DOMAIN job[w].ask /\ job[w].ask[c] # job[w].base[c]
    BY <1>3 DEF Met
  <2> QED BY <2>2, <2>3
<1> QED BY <1>2, <1>3

LEMMA CommitCompletes ==
  ASSUME IInv, NEW w \in Workers, Commit(w)
  PROVE  Registers!ColumnsNext
<1>1. CASE Crash(w)
  BY <1>1, CrashAbandons
<1>2. CASE ~(job[w].base = None /\ Taken)
  <2>1. /\ job[w] # None /\ job[w].at = "commit" /\ row' = Stored(job[w])
        /\ job' = [job EXCEPT ![w] = None]
        /\ job[w].base = None => row = None
        /\ job[w] \in Job
    BY <1>2 DEF Commit, Taken, IInv, TypeOK
  <2>2. row' # None
    BY <2>1, StoredFits, NoneFresh
  <2>3. Shown' = [c \in Columns |-> IF c \in DOMAIN job[w].ask \ Met(job[w])
                                      THEN job[w].ask[c] ELSE Shown[c]]
    BY <2>1, <2>2, CommitWrites DEF Shown
  <2>4. Asking[w] = job[w].ask /\ Settled[w] = Met(job[w]) /\ Asking[w] # None
    BY <2>1, NoneFresh DEF Asking, Settled, Job
  <2>5. job' = [v \in Workers |-> IF v \in {w} THEN None ELSE job[v]]
    BY <2>1 DEF IInv, TypeOK
  <2>6. Registers!Over({w})
    BY <2>5, EntriesOver
  <2>7. Shown' = [c \in Columns |-> IF c \in DOMAIN Asking[w] \ Settled[w]
                                      THEN Asking[w][c] ELSE Shown[c]]
    BY <2>3, <2>4
  <2>8. Registers!Complete(w)
    BY <2>4, <2>6, <2>7 DEF Registers!Complete, Asking, Settled, Met, Shown
  <2> QED BY <2>8 DEF Registers!ColumnsNext
<1> QED BY <1>1, <1>2 DEF Commit

\* Every step is a step of the registers, or one that they do not see.
LEMMA ColumnSteps ==
  ASSUME IInv, [Next]_vars
  PROVE  Registers!ColumnsNext \/ UNCHANGED <<Shown, Asking, Settled>>
<1>1. ASSUME NEW w \in Workers, NEW ask \in Asks \cup {[c \in {} |-> None]},
             UpdateMe(w, ask) \/ GetOrCreate(w, ask) \/ UpsertMyShelter(w, ask)
      PROVE  Registers!ColumnsNext
  <2>1. [c \in {} |-> None] \in Asks
    BY DEF Asks
  <2>2. ask \in Asks
    BY <2>1
  <2> QED BY <1>1, <2>2, LoadBegins DEF UpdateMe, GetOrCreate, UpsertMyShelter
<1>2. CASE Restart
  <2>1. job' = [w \in Workers |-> IF w \in Workers THEN None ELSE job[w]] /\ row' = row
    BY <1>2 DEF Restart
  <2> QED BY <2>1, FailureAbandons
<1>3. CASE UNCHANGED vars
  BY <1>3 DEF vars, Shown, Asking, Settled, Met
<1> QED BY <1>1, <1>2, <1>3, InsertSettles, CommitCompletes
        DEF Next, GetNotificationSettings, UpdateNotificationSettings

\* Each column of a row is a register of its own, whichever requests share the row.
THEOREM Implements == Spec => ImplementsAtomicColumns
<1>1. Init => Registers!ColumnsInit
  <2> SUFFICES ASSUME Init PROVE Registers!ColumnsInit
    OBVIOUS
  <2>1. Shown = Default
    BY DEF Init, Shown
  <2>2. Asking = [w \in Workers |-> None] /\ Settled = [w \in Workers |-> {}]
    BY DEF Init, Asking, Settled
  <2> QED BY <2>1, <2>2 DEF Registers!ColumnsInit, Shown, Asking, Settled, Met
<1>2. IInv /\ [Next]_vars => [Registers!ColumnsNext]_(Registers!columns)
  BY ColumnSteps DEF Registers!columns, Shown, Asking, Settled, Met
<1> QED BY <1>1, <1>2, Invariance, PTL DEF Spec, ImplementsAtomicColumns, Registers!ColumnsSpec

=============================================================================
