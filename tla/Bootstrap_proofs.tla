------------------------- MODULE Bootstrap_proofs -------------------------
(***************************************************************************)
(* Theorems about Bootstrap, for any number of containers and of kills.    *)
(***************************************************************************)
EXTENDS Bootstrap, TLAPS

\* What a container that is not the only one may rely on: what was there when it
\* looked is still there.
BootHolds(b) ==
  /\ b.at = "columns" => b.tables \subseteq schema
  /\ b.at \in {"stamp", "stamping"} => Upto(b.target) \subseteq schema
  /\ b.at \in {"stamping", "upgrading"} => \A h \in b.heads : Upto(h) \subseteq schema
  /\ b.at = "serving" => schema = Objects

\* The database is at a revision, and has what is recorded.
Reached == \E n \in 0..4 : schema = Upto(n)
Recorded == \A r \in version : Upto(r) \subseteq schema

IInv ==
  /\ TypeOK
  /\ Reached
  /\ Recorded
  /\ \A c \in Containers : BootHolds(boot[c]) /\ (boot[c].at # "off" => c \in fleet)

-----------------------------------------------------------------------------
(* The history. *)

LEMMA AddsOf ==
  /\ Adds(1) = InitialSchema
  /\ Adds(2) = SttSessionFields
  /\ Adds(3) = ChatStage
  /\ Adds(4) = PasswordResetAndOauth
BY DEF Adds

LEMMA UptoRevision ==
  ASSUME NEW n \in Nat, NEW r \in Revisions, r =< n
  PROVE  Adds(r) \subseteq Upto(n)
BY DEF Upto

LEMMA UptoHead == Upto(Head) = Objects
<1>1. {q \in Revisions : q =< Head} = Revisions
  BY DEF Revisions, Head
<1> QED BY <1>1 DEF Upto, Objects

LEMMA UptoInObjects == \A n \in Nat : Upto(n) \subseteq Objects
BY DEF Upto, Objects

LEMMA UptoGrows ==
  ASSUME NEW m \in Nat, NEW n \in Nat, m =< n
  PROVE  Upto(m) \subseteq Upto(n)
BY DEF Upto, Revisions

LEMMA UptoNothing == Upto(0) = {}
BY DEF Upto, Revisions

\* A column is not in the schema before the migration that adds it.
LEMMA ColumnsTell ==
  ASSUME NEW n \in 0..4
  PROVE  /\ "stage" \in Upto(n) <=> n >= 3
         /\ "stt_session_id" \in Upto(n) <=> n >= 2
         /\ "chat_sessions" \in Upto(n) <=> n >= 1
<1>1. ASSUME NEW r \in Revisions
      PROVE  /\ "stage" \in Adds(r) <=> r = 3
             /\ "stt_session_id" \in Adds(r) <=> r = 2
             /\ "chat_sessions" \in Adds(r) <=> r = 1
  <2>1. r = 1 \/ r = 2 \/ r = 3 \/ r = 4
    BY DEF Revisions
  <2> QED BY <2>1, AddsOf DEF InitialSchema, SttSessionFields, ChatStage, PasswordResetAndOauth
<1>2. ASSUME NEW x
      PROVE  x \in Upto(n) <=> \E r \in Revisions : r =< n /\ x \in Adds(r)
  BY DEF Upto
<1>3. 1 \in Revisions /\ 2 \in Revisions /\ 3 \in Revisions
  BY DEF Revisions
<1> QED BY <1>1, <1>2, <1>3

\* An empty revision has no tables, the others have all of the first.
LEMMA TablesTell ==
  ASSUME NEW n \in 0..4
  PROVE  /\ n = 0 => Upto(n) = {}
         /\ n # 0 => "chat_sessions" \in Upto(n) \cap Tables
<1>1. "chat_sessions" \in Tables
  BY DEF Tables, InitialSchema
<1> QED BY <1>1, ColumnsTell, UptoNothing

\* What the recorded revisions leave, and what they have, make the current schema.
LEMMA PendingCompletes ==
  ASSUME NEW heads \in SUBSET Revisions, \A h \in heads : Upto(h) \subseteq schema,
         schema \subseteq Objects
  PROVE  schema \cup UNION {Adds(r) : r \in Pending(heads)} = Objects
<1>1. ASSUME NEW r \in Revisions, r \notin Pending(heads)
      PROVE  Adds(r) \subseteq schema
  <2>1. PICK h \in heads : ~(h < r)
    BY <1>1 DEF Pending
  <2>2. h \in Nat /\ r \in Nat /\ r =< h
    BY <2>1 DEF Revisions
  <2> QED BY <2>1, <2>2, UptoRevision
<1>2. Pending(heads) \subseteq Revisions
  BY DEF Pending
<1> QED BY <1>1, <1>2 DEF Objects

-----------------------------------------------------------------------------
(* The invariant that holds however many containers start. *)

\* The target of a stamp is a revision that the database has reached.
LEMMA TargetReached ==
  ASSUME IInv, NEW tables \in SUBSET Tables, tables \subseteq schema, tables # {},
         NEW columns,
         columns = IF "chat_sessions" \in tables THEN schema \cap ChatSessionColumns ELSE {}
  PROVE  LegacyStampTarget(columns) \in Revisions /\ Upto(LegacyStampTarget(columns)) \subseteq schema
<1>1. PICK n \in 0..4 : schema = Upto(n)
  BY DEF IInv, Reached
<1>2. n # 0
  BY <1>1, UptoNothing
<1>3. /\ LegacyStampTarget(columns) \in Revisions
      /\ LegacyStampTarget(columns) =< n
  BY <1>1, <1>2, ColumnsTell
     DEF LegacyStampTarget, STAGE_REVISION, STT_REVISION, INITIAL_REVISION, Revisions
<1> QED BY <1>1, <1>3, UptoGrows DEF Revisions

\* A step of one container that leaves the database as it is.
LEMMA GoKeeps ==
  ASSUME IInv, NEW c \in Containers, c \in fleet, NEW b \in Boot,
         boot' = [boot EXCEPT ![c] = b], BootHolds(b),
         UNCHANGED <<fleet, found, schema>>, crashes' \in 0..MaxCrashes,
         version' \in SUBSET Revisions, Recorded'
  PROVE  IInv'
<1>1. TypeOK' /\ Reached'
  BY DEF IInv, TypeOK, Reached
<1>2. ASSUME NEW d \in Containers
      PROVE  BootHolds(boot[d])' /\ (boot'[d].at # "off" => d \in fleet')
  <2>1. CASE d = c
    <3>1. boot'[d] = b
      BY <2>1 DEF IInv, TypeOK
    <3> QED BY <2>1, <3>1 DEF BootHolds
  <2>2. CASE d # c
    <3>1. boot'[d] = boot[d]
      BY <2>2 DEF IInv, TypeOK
    <3> QED BY <3>1 DEF IInv, BootHolds
  <2> QED BY <2>1, <2>2
<1> QED BY <1>1, <1>2 DEF IInv

LEMMA FailKeeps ==
  ASSUME IInv, NEW c \in Containers, c \in fleet, Fail(c)
  PROVE  IInv'
<1>1. [at |-> "off"] \in Boot /\ BootHolds([at |-> "off"])
  BY DEF Boot, BootHolds
<1> QED BY <1>1, GoKeeps DEF Fail, Go, IInv, TypeOK, Recorded

LEMMA InitInv == Init => IInv
<1> SUFFICES ASSUME Init PROVE IInv
  OBVIOUS
<1>1. Reached /\ Recorded /\ version \in SUBSET Revisions
  <2>1. CASE found = "fresh"
    <3>1. 0 \in 0..4 /\ schema = Upto(0) /\ version = {}
      BY <2>1, UptoNothing DEF Init
    <3> QED BY <3>1 DEF Reached, Recorded
  <2>2. CASE found = "legacy"
    BY <2>2 DEF Init, Reached, Recorded
  <2>3. CASE found = "managed"
    BY <2>3 DEF Init, Reached, Recorded, Revisions
  <2> QED BY <2>1, <2>2, <2>3 DEF Init
<1>2. schema \in SUBSET Objects
  BY <1>1, UptoInObjects DEF Reached
<1>3. TypeOK
  BY <1>1, <1>2, MaxCrashesAssumption DEF Init, TypeOK, Boot
<1> QED BY <1>1, <1>3 DEF Init, IInv, BootHolds

LEMMA ReadTablesKeeps ==
  ASSUME IInv, NEW c \in Containers, ReadTables(c)
  PROVE  IInv'
<1> DEFINE b == [at |-> "columns", versioned |-> Versioned, tables |-> schema \cap Tables]
<1>1. b \in Boot /\ BootHolds(b)
  BY DEF Boot, BootHolds, Versioned
<1> HIDE DEF b
<1>2. /\ c \in fleet /\ boot' = [boot EXCEPT ![c] = b]
      /\ UNCHANGED <<fleet, found, schema, version, crashes>>
  BY DEF ReadTables, Go, b
<1> QED BY <1>1, <1>2, GoKeeps DEF IInv, TypeOK, Recorded

LEMMA ReadColumnsKeeps ==
  ASSUME IInv, NEW c \in Containers, ReadColumns(c)
  PROVE  IInv'
<1>1. /\ boot[c].at = "columns" /\ boot[c] \in Boot /\ BootHolds(boot[c]) /\ c \in fleet
      /\ UNCHANGED <<fleet, found, schema, version, crashes>>
  BY DEF IInv, TypeOK, ReadColumns, Go
<1>2. boot[c].tables \in SUBSET Tables /\ boot[c].tables \subseteq schema
  BY <1>1 DEF Boot, BootHolds
<1> DEFINE columns == IF "chat_sessions" \in boot[c].tables
                        THEN schema \cap ChatSessionColumns ELSE {}
           b == IF IsLegacy(boot[c])
                  THEN [at |-> "stamp", target |-> LegacyStampTarget(columns)]
                  ELSE [at |-> "upgrade"]
<1>3. b \in Boot /\ BootHolds(b)
  <2>1. CASE IsLegacy(boot[c])
    <3>1. /\ LegacyStampTarget(columns) \in Revisions
          /\ Upto(LegacyStampTarget(columns)) \subseteq schema
      BY <1>2, <2>1, TargetReached DEF IsLegacy
    <3> HIDE DEF columns
    <3> QED BY <2>1, <3>1 DEF Boot, BootHolds
  <2>2. CASE ~IsLegacy(boot[c])
    BY <2>2 DEF Boot, BootHolds
  <2> QED BY <2>1, <2>2
<1>4. boot' = [boot EXCEPT ![c] = b]
  BY DEF ReadColumns, Go
<1> HIDE DEF b
<1> QED BY <1>1, <1>3, <1>4, GoKeeps DEF IInv, TypeOK, Recorded

LEMMA BeginStampKeeps ==
  ASSUME IInv, NEW c \in Containers, BeginStamp(c)
  PROVE  IInv'
<1>1. /\ boot[c].at = "stamp" /\ boot[c] \in Boot /\ BootHolds(boot[c]) /\ c \in fleet
      /\ UNCHANGED <<fleet, found, schema, version, crashes>>
  BY DEF IInv, TypeOK, BeginStamp, Go
<1> DEFINE b == [at |-> "stamping", target |-> boot[c].target, heads |-> version]
<1>2. boot[c].target \in Revisions
  BY <1>1 DEF Boot
<1>3. b \in Boot /\ BootHolds(b)
  BY <1>1, <1>2 DEF Boot, BootHolds, IInv, TypeOK, Recorded
<1>4. boot' = [boot EXCEPT ![c] = b]
  BY DEF BeginStamp, Go
<1> HIDE DEF b
<1> QED BY <1>1, <1>3, <1>4, GoKeeps DEF IInv, TypeOK, Recorded

LEMMA BeginUpgradeKeeps ==
  ASSUME IInv, NEW c \in Containers, BeginUpgrade(c)
  PROVE  IInv'
<1>1. /\ boot[c].at = "upgrade" /\ c \in fleet
      /\ UNCHANGED <<fleet, found, schema, version, crashes>>
  BY DEF IInv, BeginUpgrade, Go
<1> DEFINE b == [at |-> "upgrading", heads |-> version]
<1>2. b \in Boot /\ BootHolds(b)
  BY DEF Boot, BootHolds, IInv, TypeOK, Recorded
<1>3. boot' = [boot EXCEPT ![c] = b]
  BY DEF BeginUpgrade, Go
<1> HIDE DEF b
<1> QED BY <1>1, <1>2, <1>3, GoKeeps DEF IInv, TypeOK, Recorded

LEMMA CommitStampKeeps ==
  ASSUME IInv, NEW c \in Containers, CommitStamp(c)
  PROVE  IInv'
<1>1. /\ boot[c].at = "stamping" /\ boot[c] \in Boot /\ BootHolds(boot[c]) /\ c \in fleet
  BY DEF IInv, TypeOK, CommitStamp
<1>2. boot[c].target \in Revisions /\ Upto(boot[c].target) \subseteq schema
  BY <1>1 DEF Boot, BootHolds
<1>3. [at |-> "upgrade"] \in Boot /\ BootHolds([at |-> "upgrade"])
  BY DEF Boot, BootHolds
<1>4. CASE Fail(c)
  BY <1>1, <1>4, FailKeeps
<1>5. CASE Go(c, [at |-> "upgrade"]) /\ UNCHANGED <<schema, version>>
  BY <1>1, <1>3, <1>5, GoKeeps DEF Go, IInv, TypeOK, Recorded
<1>6. CASE /\ Go(c, [at |-> "upgrade"]) /\ UNCHANGED schema
           /\ version' = (version \ boot[c].heads) \cup {boot[c].target}
  BY <1>1, <1>2, <1>3, <1>6, GoKeeps DEF Go, IInv, TypeOK, Recorded
<1> QED BY <1>4, <1>5, <1>6 DEF CommitStamp

LEMMA CommitUpgradeKeeps ==
  ASSUME IInv, NEW c \in Containers, CommitUpgrade(c)
  PROVE  IInv'
<1> DEFINE heads == boot[c].heads
           added == UNION {Adds(r) : r \in Pending(heads)}
           b == [at |-> "serving"]
<1>1. /\ boot[c].at = "upgrading" /\ boot[c] \in Boot /\ BootHolds(boot[c]) /\ c \in fleet
      /\ schema \subseteq Objects
  BY DEF IInv, TypeOK, CommitUpgrade
<1>2. heads \in SUBSET Revisions /\ \A h \in heads : Upto(h) \subseteq schema
  BY <1>1 DEF Boot, BootHolds
<1>3. schema \cup added = Objects
  BY <1>1, <1>2, PendingCompletes
<1>4. b \in Boot
  BY DEF Boot
<1>5. CASE Fail(c)
  BY <1>1, <1>5, FailKeeps
<1>6. CASE Pending(heads) = {} /\ Go(c, b) /\ UNCHANGED <<schema, version>>
  <2>1. schema = Objects
    BY <1>3, <1>6
  <2>2. BootHolds(b)
    BY <2>1 DEF BootHolds
  <2> QED BY <1>1, <1>4, <1>6, <2>2, GoKeeps DEF Go, IInv, TypeOK, Recorded
<1>7. CASE /\ schema' = schema \cup added /\ Go(c, b)
           /\ version' = (version \ Latest(heads)) \cup {Head}
  <2>1. schema' = Objects
    BY <1>3, <1>7
  <2>2. boot' = [boot EXCEPT ![c] = b] /\ UNCHANGED <<fleet, found, crashes>>
    BY <1>7 DEF Go
  <2>3. TypeOK'
    <3>1. version' \in SUBSET Revisions
      <4>1. version \in SUBSET Revisions /\ Head \in Revisions
        BY DEF IInv, TypeOK, Revisions, Head
      <4>2. version' = (version \ Latest(heads)) \cup {Head}
        BY <1>7
      <4> HIDE DEF heads
      <4> QED BY <4>1, <4>2
    <3> HIDE DEF b
    <3> QED BY <1>4, <2>1, <2>2, <3>1 DEF IInv, TypeOK
  <2>4. Reached'
    BY <2>1, UptoHead DEF Reached, Head
  <2>5. ASSUME NEW r \in Revisions
        PROVE  Upto(r) \subseteq schema'
    BY <2>1, UptoInObjects DEF Revisions
  <2>6. Recorded'
    BY <2>3, <2>5 DEF Recorded, TypeOK
  <2>7. ASSUME NEW d \in Containers
        PROVE  BootHolds(boot[d])' /\ (boot'[d].at # "off" => d \in fleet')
    <3>1. CASE d = c
      <4>1. boot'[d] = b
        BY <2>2, <3>1 DEF IInv, TypeOK
      <4> QED BY <1>1, <2>1, <2>2, <3>1, <4>1 DEF BootHolds
    <3>2. CASE d # c
      <4>1. boot'[d] = boot[d]
        BY <2>2, <3>2 DEF IInv, TypeOK
      <4> QED BY <1>1, <2>1, <2>2, <4>1 DEF IInv, BootHolds
    <3> QED BY <3>1, <3>2
  <2> QED BY <2>3, <2>4, <2>6, <2>7 DEF IInv
<1> QED BY <1>5, <1>6, <1>7 DEF CommitUpgrade

LEMMA KillKeeps ==
  ASSUME IInv, NEW c \in Containers, Kill(c)
  PROVE  IInv'
<1>1. [at |-> "off"] \in Boot /\ BootHolds([at |-> "off"])
  BY DEF Boot, BootHolds
<1>2. /\ boot[c].at # "off" /\ c \in fleet /\ crashes' \in 0..MaxCrashes
      /\ boot' = [boot EXCEPT ![c] = [at |-> "off"]]
      /\ UNCHANGED <<fleet, found, schema, version>>
  BY MaxCrashesAssumption DEF Kill, IInv, TypeOK
<1> QED BY <1>1, <1>2, GoKeeps DEF IInv, TypeOK, Recorded

LEMMA NextInv == IInv /\ [Next]_vars => IInv'
<1> SUFFICES ASSUME IInv, [Next]_vars PROVE IInv'
  OBVIOUS
<1>1. ASSUME NEW c \in Containers, Start(c) \/ Kill(c)
      PROVE  IInv'
  BY <1>1, ReadTablesKeeps, ReadColumnsKeeps, BeginStampKeeps, CommitStampKeeps,
     BeginUpgradeKeeps, CommitUpgradeKeeps, KillKeeps DEF Start
<1>2. CASE UNCHANGED vars
  BY <1>2 DEF vars, IInv, TypeOK, Reached, Recorded, BootHolds
<1> QED BY <1>1, <1>2 DEF Next

\* The inductive invariant: the database is at a revision, it has what is recorded,
\* and what a container saw of it is still there.
THEOREM Invariance == Spec => []IInv
<1>1. IInv /\ [Next]_vars => IInv'
  BY NextInv
<1> QED BY <1>1, InitInv, PTL DEF Spec

\* Type correctness of the bootstrap.
THEOREM TypeCorrect == Spec => []TypeOK
<1>1. IInv => TypeOK
  BY DEF IInv
<1> QED BY <1>1, Invariance, PTL

\* No container serves on less than the current schema, however many start.
THEOREM Serves == Spec => []ServesCurrentSchema
<1>1. IInv => ServesCurrentSchema
  <2> SUFFICES ASSUME IInv, NEW c \in fleet, boot[c].at = "serving"
               PROVE  schema = Objects
    BY DEF ServesCurrentSchema
  <2> QED BY DEF IInv, TypeOK, BootHolds
<1> QED BY <1>1, Invariance, PTL

-----------------------------------------------------------------------------
(* The invariant of a database that one container at a time brings up. *)

\* What a container knows that stamps: it is alone, nothing is recorded, and the
\* schema is the one of its target.
SoloBoot(b) ==
  /\ b.at = "columns" /\ IsLegacy(b) =>
       found = "legacy" /\ version = {} /\ b.tables = schema \cap Tables
  /\ b.at \in {"stamp", "stamping"} =>
       found = "legacy" /\ version = {} /\ schema = Upto(b.target)
  /\ b.at = "stamping" => b.heads = {}

Matches == \E r \in Revisions : version = {r} /\ schema = Upto(r)

\* A database without a history that is not empty was found so.
Unrecorded ==
  version = {} =>
    IF found = "legacy" THEN \E n \in 1..3 : schema = Upto(n) ELSE schema = {}

Solo ==
  /\ version # {} => Matches
  /\ Unrecorded
  /\ \A c \in Containers : SoloBoot(boot[c])

SoloInv == IInv /\ (OneAtATime => Solo)

\* The columns tell which of the old schemas it is.
LEMMA TargetFits ==
  ASSUME NEW n \in 1..3, schema = Upto(n),
         NEW columns, columns = schema \cap ChatSessionColumns
  PROVE  LegacyStampTarget(columns) = n
<1>1. "stage" \in ChatSessionColumns /\ "stt_session_id" \in ChatSessionColumns
  BY DEF ChatSessionColumns, ChatStage, SttSessionFields
<1>2. n \in 0..4
  OBVIOUS
<1>3. /\ "stage" \in columns <=> n >= 3
      /\ "stt_session_id" \in columns <=> n >= 2
  BY <1>1, <1>2, ColumnsTell
<1> QED BY <1>3 DEF LegacyStampTarget, STAGE_REVISION, STT_REVISION, INITIAL_REVISION

\* Nobody but c runs on a legacy database: what the others know concerns none.
LEMMA Alone ==
  ASSUME IInv, OneAtATime, found = "legacy", NEW c \in fleet,
         NEW d \in Containers, boot[d].at # "off"
  PROVE  d = c
BY DEF IInv, TypeOK, OneAtATime

\* A step that leaves the database as it is.
LEMMA SoloGo ==
  ASSUME IInv, OneAtATime, Solo, NEW c \in Containers, NEW b \in Boot,
         boot' = [boot EXCEPT ![c] = b], SoloBoot(b),
         UNCHANGED <<fleet, found, schema, version>>
  PROVE  Solo'
<1>1. ASSUME NEW d \in Containers
      PROVE  SoloBoot(boot[d])'
  <2>1. CASE d = c
    <3>1. boot'[d] = b
      BY <2>1 DEF IInv, TypeOK
    <3> QED BY <3>1 DEF SoloBoot, IsLegacy
  <2>2. CASE d # c
    <3>1. boot'[d] = boot[d]
      BY <2>2 DEF IInv, TypeOK
    <3> QED BY <3>1 DEF Solo, SoloBoot, IsLegacy
  <2> QED BY <2>1, <2>2
<1> QED BY <1>1 DEF Solo, Matches, Unrecorded

LEMMA SoloFail ==
  ASSUME IInv, OneAtATime, Solo, NEW c \in Containers, Fail(c)
  PROVE  Solo'
<1>1. [at |-> "off"] \in Boot /\ SoloBoot([at |-> "off"])
  BY DEF Boot, SoloBoot
<1> QED BY <1>1, SoloGo DEF Fail, Go

\* A step that records: nobody else is between reading a legacy database and
\* stamping it.
LEMMA SoloRecord ==
  ASSUME IInv, OneAtATime, Solo, NEW c \in fleet, NEW b \in {"upgrade", "serving"},
         boot' = [boot EXCEPT ![c] = [at |-> b]], UNCHANGED <<fleet, found>>,
         version' # {}, Matches'
  PROVE  Solo'
<1>1. ASSUME NEW d \in Containers
      PROVE  SoloBoot(boot[d])'
  <2>0. c \in Containers
    BY DEF IInv, TypeOK
  <2>1. CASE d = c
    <3>1. boot'[d] = [at |-> b]
      BY <2>0, <2>1 DEF IInv, TypeOK
    <3> QED BY <3>1 DEF SoloBoot
  <2>2. CASE d # c
    <3>1. boot'[d] = boot[d]
      BY <2>2 DEF IInv, TypeOK
    <3>2. SoloBoot(boot[d]) /\ (found = "legacy" => boot[d].at = "off")
      BY <2>2, Alone DEF Solo
    <3> QED BY <3>1, <3>2 DEF SoloBoot, IsLegacy
  <2> QED BY <2>1, <2>2
<1> QED BY <1>1 DEF Solo, Unrecorded

LEMMA SoloReadTables ==
  ASSUME IInv, OneAtATime, Solo, NEW c \in Containers, ReadTables(c)
  PROVE  Solo'
<1> DEFINE b == [at |-> "columns", versioned |-> Versioned, tables |-> schema \cap Tables]
<1>1. b \in Boot
  BY DEF Boot, Versioned
<1>2. SoloBoot(b)
  <2>1. b.at = "columns" /\ b.versioned = (version # {}) /\ b.tables = schema \cap Tables
    BY DEF Versioned
  <2>2. ASSUME version = {}, schema # {} PROVE found = "legacy"
    BY <2>2 DEF Solo, Unrecorded
  <2> HIDE DEF b
  <2> QED BY <2>1, <2>2 DEF SoloBoot, IsLegacy
<1> HIDE DEF b
<1>3. boot' = [boot EXCEPT ![c] = b] /\ UNCHANGED <<fleet, found, schema, version>>
  BY DEF ReadTables, Go, b
<1> QED BY <1>1, <1>2, <1>3, SoloGo

LEMMA SoloReadColumns ==
  ASSUME IInv, OneAtATime, Solo, NEW c \in Containers, ReadColumns(c)
  PROVE  Solo'
<1> DEFINE columns == IF "chat_sessions" \in boot[c].tables
                        THEN schema \cap ChatSessionColumns ELSE {}
           b == IF IsLegacy(boot[c])
                  THEN [at |-> "stamp", target |-> LegacyStampTarget(columns)]
                  ELSE [at |-> "upgrade"]
<1>1. boot[c].at = "columns" /\ SoloBoot(boot[c])
  BY DEF Solo, ReadColumns
<1>2. b \in Boot /\ SoloBoot(b)
  <2>1. CASE IsLegacy(boot[c])
    <3>1. found = "legacy" /\ version = {} /\ boot[c].tables = schema \cap Tables
      BY <1>1, <2>1 DEF SoloBoot
    <3>2. PICK n \in 1..3 : schema = Upto(n)
      BY <3>1 DEF Solo, Unrecorded
    <3>3. "chat_sessions" \in boot[c].tables
      BY <3>1, <3>2, TablesTell
    <3>4. LegacyStampTarget(columns) = n
      BY <3>2, <3>3, TargetFits
    <3>5. b = [at |-> "stamp", target |-> n] /\ n \in Revisions
      BY <2>1, <3>4 DEF Revisions
    <3> HIDE DEF b
    <3> QED BY <3>1, <3>2, <3>5 DEF Boot, SoloBoot
  <2>2. CASE ~IsLegacy(boot[c])
    BY <2>2 DEF Boot, SoloBoot
  <2> QED BY <2>1, <2>2
<1>3. boot' = [boot EXCEPT ![c] = b] /\ UNCHANGED <<fleet, found, schema, version>>
  BY DEF ReadColumns, Go
<1> HIDE DEF b
<1> QED BY <1>2, <1>3, SoloGo

LEMMA SoloBeginStamp ==
  ASSUME IInv, OneAtATime, Solo, NEW c \in Containers, BeginStamp(c)
  PROVE  Solo'
<1> DEFINE b == [at |-> "stamping", target |-> boot[c].target, heads |-> version]
<1>1. boot[c].at = "stamp" /\ SoloBoot(boot[c]) /\ boot[c] \in Boot /\ version \in SUBSET Revisions
  BY DEF Solo, BeginStamp, IInv, TypeOK
<1>2. boot[c].target \in Revisions
  BY <1>1 DEF Boot
<1>3. b \in Boot /\ SoloBoot(b)
  BY <1>1, <1>2 DEF Boot, SoloBoot
<1>4. boot' = [boot EXCEPT ![c] = b] /\ UNCHANGED <<fleet, found, schema, version>>
  BY DEF BeginStamp, Go
<1> HIDE DEF b
<1> QED BY <1>3, <1>4, SoloGo

LEMMA SoloCommitStamp ==
  ASSUME IInv, OneAtATime, Solo, NEW c \in Containers, CommitStamp(c)
  PROVE  Solo'
<1>1. /\ boot[c].at = "stamping" /\ boot[c] \in Boot /\ c \in fleet /\ SoloBoot(boot[c])
  BY DEF IInv, TypeOK, CommitStamp, Solo
<1>2. boot[c].target \in Revisions
  BY <1>1 DEF Boot
<1>3. /\ version = {} /\ boot[c].heads = {} /\ schema = Upto(boot[c].target)
  BY <1>1 DEF SoloBoot
<1>4. CASE Fail(c)
  BY <1>4, SoloFail
<1>5. CASE boot[c].target \in boot[c].heads
  BY <1>3, <1>5
<1>6. CASE /\ Go(c, [at |-> "upgrade"]) /\ UNCHANGED schema
           /\ version' = (version \ boot[c].heads) \cup {boot[c].target}
  <2>1. version' = {boot[c].target} /\ schema' = Upto(boot[c].target)
    BY <1>3, <1>6
  <2>2. version' # {} /\ Matches'
    BY <1>2, <2>1 DEF Matches
  <2> QED BY <1>1, <1>6, <2>2, SoloRecord DEF Go
<1> QED BY <1>4, <1>5, <1>6 DEF CommitStamp

LEMMA SoloBeginUpgrade ==
  ASSUME IInv, OneAtATime, Solo, NEW c \in Containers, BeginUpgrade(c)
  PROVE  Solo'
<1> DEFINE b == [at |-> "upgrading", heads |-> version]
<1>1. b \in Boot /\ SoloBoot(b)
  BY DEF Boot, SoloBoot, IInv, TypeOK
<1>2. boot' = [boot EXCEPT ![c] = b] /\ UNCHANGED <<fleet, found, schema, version>>
  BY DEF BeginUpgrade, Go
<1> HIDE DEF b
<1> QED BY <1>1, <1>2, SoloGo

LEMMA SoloCommitUpgrade ==
  ASSUME IInv, OneAtATime, Solo, NEW c \in Containers, CommitUpgrade(c)
  PROVE  Solo'
<1> DEFINE heads == boot[c].heads
           added == UNION {Adds(r) : r \in Pending(heads)}
<1>1. /\ boot[c].at = "upgrading" /\ boot[c] \in Boot /\ BootHolds(boot[c]) /\ c \in fleet
      /\ schema \subseteq Objects
  BY DEF IInv, TypeOK, CommitUpgrade
<1>2. heads \in SUBSET Revisions /\ \A h \in heads : Upto(h) \subseteq schema
  BY <1>1 DEF Boot, BootHolds
<1>3. schema \cup added = Objects
  BY <1>1, <1>2, PendingCompletes
<1>4. CASE Fail(c)
  BY <1>4, SoloFail
<1>5. CASE Go(c, [at |-> "serving"]) /\ UNCHANGED <<schema, version>>
  <2>1. [at |-> "serving"] \in Boot /\ SoloBoot([at |-> "serving"])
    BY DEF Boot, SoloBoot
  <2> QED BY <1>5, <2>1, SoloGo DEF Go
<1>6. CASE /\ ~HeadsMoved(heads) /\ schema' = schema \cup added
           /\ version' = (version \ Latest(heads)) \cup {Head}
           /\ Go(c, [at |-> "serving"])
  <2>1. schema' = Upto(Head)
    BY <1>3, <1>6, UptoHead
  <2>2. version' = {Head}
    <3>1. CASE heads = {}
      BY <1>6, <3>1 DEF HeadsMoved
    <3>2. CASE heads # {}
      <4>1. heads \subseteq version
        BY <1>6 DEF HeadsMoved
      <4>2. PICK r \in Revisions : version = {r}
        BY <3>2, <4>1 DEF Solo, Matches
      <4>3. heads = {r} /\ r =< r
        BY <3>2, <4>1, <4>2 DEF Revisions
      <4>4. Latest(heads) = {r}
        BY <4>3 DEF Latest
      <4> QED BY <1>6, <4>2, <4>4
    <3> QED BY <3>1, <3>2
  <2>3. version' # {} /\ Matches'
    BY <2>1, <2>2 DEF Matches, Revisions, Head
  <2> QED BY <1>1, <1>6, <2>3, SoloRecord DEF Go
<1> QED BY <1>4, <1>5, <1>6 DEF CommitUpgrade, Upgrades

LEMMA SoloKill ==
  ASSUME IInv, OneAtATime, Solo, NEW c \in Containers, Kill(c)
  PROVE  Solo'
<1>1. [at |-> "off"] \in Boot /\ SoloBoot([at |-> "off"])
  BY DEF Boot, SoloBoot
<1> QED BY <1>1, SoloGo DEF Kill

\* The inductive invariant of a database that one container at a time brings up.
THEOREM SoloInvariance == Spec => []SoloInv
<1>1. Init => SoloInv
  <2> SUFFICES ASSUME Init PROVE Solo
    BY InitInv DEF SoloInv
  <2>1. (version # {} => Matches) /\ Unrecorded
    BY DEF Init, Matches, Unrecorded
  <2>2. ASSUME NEW c \in Containers PROVE SoloBoot(boot[c])
    BY DEF Init, SoloBoot
  <2> QED BY <2>1, <2>2 DEF Solo
<1>2. SoloInv /\ [Next]_vars => SoloInv'
  <2> SUFFICES ASSUME SoloInv, [Next]_vars, OneAtATime' PROVE Solo'
    BY NextInv DEF SoloInv
  <2>1. UNCHANGED <<fleet, found>>
    BY DEF Next, Start, vars, ReadTables, ReadColumns, BeginStamp, CommitStamp,
           BeginUpgrade, CommitUpgrade, Fail, Go, Kill
  <2>2. IInv /\ OneAtATime /\ Solo
    BY <2>1 DEF SoloInv, OneAtATime
  <2>3. ASSUME NEW c \in Containers, Start(c) \/ Kill(c)
        PROVE  Solo'
    BY <2>2, <2>3, SoloReadTables, SoloReadColumns, SoloBeginStamp, SoloCommitStamp,
       SoloBeginUpgrade, SoloCommitUpgrade, SoloKill DEF Start
  <2>4. CASE UNCHANGED vars
    BY <2>2, <2>4 DEF vars, Solo, Matches, Unrecorded, SoloBoot, IsLegacy
  <2> QED BY <2>3, <2>4 DEF Next
<1> QED BY <1>1, <1>2, PTL DEF Spec

\* The recorded revision is the one that the schema has reached, when one container
\* at a time brings a legacy database up, however often it is killed.
THEOREM StampFits == Spec => []StampMatchesSchema
<1>1. SoloInv => StampMatchesSchema
  BY DEF SoloInv, Solo, Matches, StampMatchesSchema
<1> QED BY <1>1, SoloInvariance, PTL

-----------------------------------------------------------------------------
(* Bootstrap implements SchemaUpgrade. *)

Serving == {c \in Containers : boot[c].at = "serving"}

\* A step that leaves the schema and lets no container serve.
LEMMA StepStops ==
  ASSUME IInv, NEW c \in Containers, NEW b, boot' = [boot EXCEPT ![c] = b],
         b.at # "serving", UNCHANGED schema
  PROVE  Deployment!UpgradeNext
<1>1. \A d \in Containers : boot'[d] = IF d = c THEN b ELSE boot[d]
  BY DEF IInv, TypeOK
<1>2. Serving' = Serving \ {c}
  BY <1>1 DEF Serving
<1>3. Deployment!Stop(c)
  BY <1>2 DEF Deployment!Stop, Serving
<1> QED BY <1>3 DEF Deployment!UpgradeNext

\* A container that has the current schema serves, whether or not it made it so.
LEMMA StepServes ==
  ASSUME IInv, NEW c \in Containers, boot' = [boot EXCEPT ![c] = [at |-> "serving"]],
         schema' = Objects
  PROVE  Deployment!UpgradeNext
<1>1. \A d \in Containers : boot'[d] = IF d = c THEN [at |-> "serving"] ELSE boot[d]
  BY DEF IInv, TypeOK
<1>2. Serving' = Serving \cup {c}
  BY <1>1 DEF Serving
<1>3. schema' = Upto(Head)
  BY UptoHead
<1>4. CASE schema = Upto(Head)
  <2>1. Deployment!Serve(c)
    BY <1>2, <1>3, <1>4 DEF Deployment!Serve, Serving
  <2> QED BY <2>1 DEF Deployment!UpgradeNext
<1>5. CASE schema # Upto(Head)
  <2>1. Deployment!Upgrade(c)
    BY <1>2, <1>3, <1>5 DEF Deployment!Upgrade, Serving
  <2> QED BY <2>1 DEF Deployment!UpgradeNext
<1> QED BY <1>4, <1>5

\* A start that ends well has the current schema: it was there, or the migrations that
\* the recorded revisions leave complete it.
LEMMA CommitUpgradeServes ==
  ASSUME IInv, NEW c \in Containers, CommitUpgrade(c)
  PROVE  Deployment!UpgradeNext
<1> DEFINE heads == boot[c].heads
           added == UNION {Adds(r) : r \in Pending(heads)}
<1>1. /\ boot[c].at = "upgrading" /\ boot[c] \in Boot /\ BootHolds(boot[c])
      /\ schema \subseteq Objects
  BY DEF IInv, TypeOK, CommitUpgrade
<1>2. heads \in SUBSET Revisions /\ \A h \in heads : Upto(h) \subseteq schema
  BY <1>1 DEF Boot, BootHolds
<1>3. schema \cup added = Objects
  BY <1>1, <1>2, PendingCompletes
<1>4. CASE Fail(c)
  <2> DEFINE off == [at |-> "off"]
  <2>1. boot' = [boot EXCEPT ![c] = off] /\ UNCHANGED schema
    BY <1>4 DEF Fail, Go
  <2>2. off.at # "serving"
    OBVIOUS
  <2> HIDE DEF off
  <2> QED BY <2>1, <2>2, StepStops
<1>5. CASE Pending(heads) = {} /\ Go(c, [at |-> "serving"]) /\ UNCHANGED schema
  <2>1. schema' = Objects
    BY <1>3, <1>5
  <2> QED BY <1>5, <2>1, StepServes DEF Go
<1>6. CASE schema' = schema \cup added /\ Go(c, [at |-> "serving"])
  BY <1>3, <1>6, StepServes DEF Go
<1> QED BY <1>4, <1>5, <1>6 DEF CommitUpgrade

\* Every step of a container is a step of the deployment.
LEMMA UpgradeSteps ==
  ASSUME IInv, [Next]_vars
  PROVE  Deployment!UpgradeNext \/ UNCHANGED <<schema, Serving>>
<1>1. ASSUME NEW c \in Containers, ReadTables(c) \/ BeginStamp(c) \/ BeginUpgrade(c) \/ Kill(c)
      PROVE  Deployment!UpgradeNext
  BY <1>1, StepStops DEF ReadTables, BeginStamp, BeginUpgrade, Kill, Go
<1>2. ASSUME NEW c \in Containers, ReadColumns(c)
      PROVE  Deployment!UpgradeNext
  <2>1. PICK b : b.at # "serving" /\ Go(c, b) /\ UNCHANGED schema
    <3> DEFINE columns == IF "chat_sessions" \in boot[c].tables
                            THEN schema \cap ChatSessionColumns ELSE {}
               b == IF IsLegacy(boot[c])
                      THEN [at |-> "stamp", target |-> LegacyStampTarget(columns)]
                      ELSE [at |-> "upgrade"]
    <3>1. b.at # "serving"
      OBVIOUS
    <3>2. Go(c, b) /\ UNCHANGED schema
      BY <1>2 DEF ReadColumns
    <3> QED BY <3>1, <3>2
  <2> QED BY <2>1, StepStops DEF Go
<1>3. ASSUME NEW c \in Containers, CommitStamp(c)
      PROVE  Deployment!UpgradeNext
  BY <1>3, StepStops DEF CommitStamp, Fail, Go
<1>4. CASE UNCHANGED vars
  BY <1>4 DEF vars, Serving
<1> QED BY <1>1, <1>2, <1>3, <1>4, CommitUpgradeServes DEF Next, Start

\* The schema is brought to the current one once and as a whole, and only then do
\* containers serve, for any number of them and of kills, whatever database they find.
THEOREM Implements == Spec => ImplementsSchemaUpgrade
<1>1. Init => Deployment!UpgradeInit
  <2> SUFFICES ASSUME Init PROVE Deployment!UpgradeInit
    OBVIOUS
  <2>1. PICK n \in 0..4 : schema = Upto(n)
    BY InitInv DEF IInv, Reached
  <2>2. {c \in Containers : boot[c].at = "serving"} = {}
    BY DEF Init
  <2> QED BY <2>1, <2>2 DEF Deployment!UpgradeInit, Head
<1>2. IInv /\ [Next]_vars => [Deployment!UpgradeNext]_(Deployment!upgrade)
  BY UpgradeSteps DEF Deployment!upgrade, Serving
<1> QED BY <1>1, <1>2, Invariance, PTL
        DEF Spec, ImplementsSchemaUpgrade, Deployment!UpgradeSpec

=============================================================================
