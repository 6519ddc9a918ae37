-------------------------- MODULE Serving_proofs --------------------------
(***************************************************************************)
(* Theorems about Serving, for any number of requests and connections.     *)
(***************************************************************************)
EXTENDS Serving, FiniteSetTheorems, TLAPS

\* The order in which a handler takes its locks: those it can have at a step.
Fit(k, s, h) ==
  /\ h # {} =>
       s \in {"pin", "call", "session", "announcement", "delete announcement", "commit"}
  /\ \A lock \in AnnouncementLocks : lock \in h => s = "commit"
  /\ "session" \in h => s \in {"pin", "announcement", "commit"}
  /\ "delete session" \in h => s \in {"delete announcement", "commit"}
  /\ "pin" \in h => s \in {"call", "session", "announcement", "commit"}
  /\ s = "call" /\ k # "text" => h = {}
  /\ s = "pin" /\ k # "voice" => h = {}
  /\ s = "session" /\ k = "voice" => h = {}
  /\ k = "any" => s \in {"idle", "query", "refresh", "respond"}

LocksFit == \A r \in Requests : Fit(req[r].kind, req[r].step, held[r])

\* Locks that conflict are not held at once.
Compatible == \A r, s \in Requests : r # s =>
  \A a \in held[r], b \in held[s] : ~Conflicts(a, b)

\* Those in line want a lock of a row that they have no lock of.
InLine(r) == req[r].step \in Locks /\ ~Member(r)

LineFits ==
  /\ \A r \in behind : InLine(r)
  /\ \A row \in Rows : head[row] # None =>
       InLine(head[row]) /\ Row(req[head[row]].step) = row /\ head[row] \notin behind

\* The pool is not overdrawn.
PoolFits ==
  /\ conn \in SUBSET Requests /\ IsFiniteSet(conn)
  /\ others \in Nat
  /\ Cardinality(conn) + others =< PoolSize

IInv ==
  /\ TypeOK
  /\ PoolFits
  /\ LocksFit
  /\ Compatible
  /\ LineFits

-----------------------------------------------------------------------------
\* What a request has after a step, if it had h before it.
After(s, h) ==
  IF s = "commit" THEN {} ELSE IF s \in Locks THEN h \cup {s} ELSE h

\* Each handler takes its locks in that order.
LEMMA HandlersFit ==
  ASSUME NEW h \in SUBSET Locks, NEW s \in Steps, NEW n
  PROVE  /\ n \in Text(s) /\ Fit("text", s, h) /\ n \notin AfterCommit => Fit("text", n, After(s, h))
         /\ n \in Voice(s) /\ Fit("voice", s, h) /\ n \notin AfterCommit => Fit("voice", n, After(s, h))
         /\ n \in Images(s) /\ Fit("images", s, h) /\ n \notin AfterCommit => Fit("images", n, After(s, h))
         /\ n \in Generate(s) /\ Fit("generate", s, h) /\ n \notin AfterCommit => Fit("generate", n, After(s, h))
         /\ n \in Edit(s) /\ Fit("edit", s, h) /\ n \notin AfterCommit => Fit("edit", n, After(s, h))
         /\ n \in Delete(s) /\ Fit("delete", s, h) /\ n \notin AfterCommit => Fit("delete", n, After(s, h))
<1> USE DEF Fit, After, AfterCommit, Locks, SessionLocks, AnnouncementLocks
<1>1. n \in Text(s) /\ Fit("text", s, h) /\ n \notin AfterCommit => Fit("text", n, After(s, h))
  BY DEF Text
<1>2. n \in Voice(s) /\ Fit("voice", s, h) /\ n \notin AfterCommit => Fit("voice", n, After(s, h))
  BY DEF Voice
<1>3. n \in Images(s) /\ Fit("images", s, h) /\ n \notin AfterCommit => Fit("images", n, After(s, h))
  BY DEF Images
<1>4. n \in Generate(s) /\ Fit("generate", s, h) /\ n \notin AfterCommit => Fit("generate", n, After(s, h))
  BY DEF Generate
<1>5. n \in Edit(s) /\ Fit("edit", s, h) /\ n \notin AfterCommit => Fit("edit", n, After(s, h))
  BY DEF Edit
<1>6. n \in Delete(s) /\ Fit("delete", s, h) /\ n \notin AfterCommit => Fit("delete", n, After(s, h))
  BY DEF Delete
<1> QED BY <1>1, <1>2, <1>3, <1>4, <1>5, <1>6

\* What follows the commit, or a request turned down, has no locks.
LEMMA EndsWithoutLocks ==
  ASSUME NEW h \in SUBSET Locks, NEW s \in Steps, NEW n \in AfterCommit, NEW k, Fit(k, s, h),
         n \in Text(s) \cup Voice(s) \cup Images(s) \cup Generate(s) \cup Edit(s) \cup Delete(s)
  PROVE  After(s, h) = {}
<1> USE DEF AfterCommit
<1>1. s \in {"query", "commit"}
  BY DEF Text, Voice, Images, Generate, Edit, Delete
<1> QED BY <1>1 DEF Fit, After, Locks, SessionLocks, AnnouncementLocks

LEMMA StepsType ==
  ASSUME NEW s
  PROVE  Text(s) \cup Voice(s) \cup Images(s) \cup Generate(s) \cup Edit(s) \cup Delete(s)
           \cup {"respond"} \subseteq Steps
<1> USE DEF Steps, Locks, SessionLocks, AnnouncementLocks
<1>1. Text(s) \subseteq Steps
  BY DEF Text
<1>2. Voice(s) \subseteq Steps
  BY DEF Voice
<1>3. Images(s) \subseteq Steps
  BY DEF Images
<1>4. Generate(s) \subseteq Steps
  BY DEF Generate
<1>5. Edit(s) \subseteq Steps
  BY DEF Edit
<1>6. Delete(s) \subseteq Steps
  BY DEF Delete
<1> QED BY <1>1, <1>2, <1>3, <1>4, <1>5, <1>6

\* A step along the handler of a request keeps that order.
LEMMA HandlerFits ==
  ASSUME IInv, NEW r \in Requests, NEW k \in KindsAt(r), NEW n \in Handler(k, req[r].step)
  PROVE  /\ n \in Steps
         /\ k \in Kinds \cup {"any"}
         /\ Fit(IF n \in AfterCommit THEN "any" ELSE k, n, After(req[r].step, held[r]))
<1> DEFINE s == req[r].step
<1>1. s \in Steps /\ k \in Kinds \cup {"any"} /\ held[r] \in SUBSET Locks
  BY DEF IInv, TypeOK, KindsAt
<1>2. Fit(k, s, held[r])
  <2>1. Fit(req[r].kind, s, held[r])
    BY DEF IInv, LocksFit
  <2>2. CASE s = "query"
    <3>1. held[r] = {} /\ k # "any"
      BY <1>1, <2>1, <2>2 DEF Fit, KindsAt, At, Kinds
    <3> QED BY <2>2, <3>1 DEF Fit
  <2> QED BY <2>1, <2>2 DEF KindsAt, At
<1>3. CASE k = "any"
  <2>1. n = "respond" /\ s # "query"
    BY <1>3 DEF Handler, KindsAt, At, Kinds
  <2>2. s \in {"idle", "refresh", "respond"} /\ held[r] = {}
    BY <1>2, <1>3, <2>1 DEF Fit
  <2>3. After(s, held[r]) = {}
    BY <2>2 DEF After, Locks, SessionLocks, AnnouncementLocks
  <2>4. Fit("any", "respond", {})
    BY DEF Fit
  <2> QED BY <1>1, <2>1, <2>3, <2>4, StepsType DEF AfterCommit
<1>4. CASE k # "any"
  <2>1. n \in Text(s) \cup Voice(s) \cup Images(s) \cup Generate(s) \cup Edit(s) \cup Delete(s)
    BY <1>1, <1>4 DEF Handler, Kinds
  <2>2. n \in Steps
    BY <2>1, StepsType
  <2>3. CASE n \in AfterCommit
    <3>1. After(s, held[r]) = {}
      BY <1>1, <1>2, <2>1, <2>3, EndsWithoutLocks
    <3>2. Fit("any", n, {})
      BY <2>3 DEF Fit, AfterCommit
    <3> QED BY <1>1, <2>2, <2>3, <3>1, <3>2
  <2>4. CASE n \notin AfterCommit
    <3>1. Fit(k, n, After(s, held[r]))
      BY <1>1, <1>2, <1>4, <2>4, HandlersFit DEF Handler, Kinds
    <3> QED BY <1>1, <2>2, <2>4, <3>1
  <2> QED BY <2>3, <2>4
<1> QED BY <1>3, <1>4

LEMMA ConflictsSymmetric == \A a, b : Conflicts(a, b) <=> Conflicts(b, a)
BY DEF Conflicts

\* A step of one request that takes no place in a line.
LEMMA StepKeeps ==
  ASSUME IInv, NEW r \in Requests,
         NEW q \in [kind : Kinds \cup {"any"}, step : Steps], NEW h \in SUBSET Locks,
         req' = [req EXCEPT ![r] = q], held' = [held EXCEPT ![r] = h],
         PoolFits',
         Fit(q.kind, q.step, h),
         \A s \in Requests \ {r} : \A a \in h, b \in held[s] : ~Conflicts(a, b),
         r \notin behind, behind' = behind,
         head' = [row \in Rows |-> IF head[row] = r THEN None ELSE head[row]]
  PROVE  IInv'
<1>0. TypeOK /\ LineFits /\ Compatible /\ LocksFit
  BY DEF IInv
<1>1. TypeOK'
  BY <1>0 DEF TypeOK, PoolFits
<1>2. \A s \in Requests : s # r => req'[s] = req[s] /\ held'[s] = held[s]
  BY <1>0 DEF TypeOK
<1>3. req'[r] = q /\ held'[r] = h
  BY <1>0 DEF TypeOK
<1>4. LocksFit'
  BY <1>0, <1>2, <1>3 DEF LocksFit
<1>5. Compatible'
  <2> SUFFICES ASSUME NEW s \in Requests, NEW t \in Requests, s # t,
                      NEW a \in held'[s], NEW b \in held'[t]
               PROVE  ~Conflicts(a, b)
    BY DEF Compatible
  <2>1. CASE s = r
    BY <1>2, <1>3, <2>1
  <2>2. CASE t = r
    BY <1>2, <1>3, <2>2, ConflictsSymmetric
  <2>3. CASE s # r /\ t # r
    BY <1>0, <1>2, <2>3 DEF Compatible
  <2> QED BY <2>1, <2>2, <2>3
<1>6. \A s \in Requests : s # r /\ InLine(s) => InLine(s)' /\ req'[s] = req[s]
  BY <1>2 DEF InLine, Member
<1>7. LineFits'
  <2>1. behind \subseteq Requests /\ \A row \in Rows : head[row] \in Requests \cup {None}
    BY <1>0 DEF TypeOK
  <2>2. ASSUME NEW s \in behind' PROVE InLine(s)'
    BY <1>0, <1>6, <2>1, <2>2 DEF LineFits
  <2>3. ASSUME NEW row \in Rows, head'[row] # None
        PROVE  InLine(head[row])' /\ Row(req[head[row]].step)' = row /\ head'[row] \notin behind'
    <3>1. head'[row] = head[row] /\ head[row] # r /\ head[row] \in Requests
      BY <2>1, <2>3
    <3>2. InLine(head[row]) /\ Row(req[head[row]].step) = row /\ head[row] \notin behind
      BY <1>0, <2>3, <3>1 DEF LineFits
    <3>3. req'[head'[row]] = req[head[row]] /\ held'[head'[row]] = held[head[row]]
      BY <1>2, <3>1
    <3> QED BY <3>1, <3>2, <3>3 DEF InLine, Member
  <2> QED BY <2>2, <2>3 DEF LineFits
<1> QED BY <1>1, <1>4, <1>5, <1>7 DEF IInv

\* A request that wants no lock is in no line.
LEMMA NotInLine ==
  ASSUME IInv, NEW r \in Requests, req[r].step \notin Locks
  PROVE  /\ r \notin behind
         /\ head = [row \in Rows |-> IF head[row] = r THEN None ELSE head[row]]
<1>1. r \notin behind /\ \A row \in Rows : head[row] # r
  BY NoneAssumption DEF IInv, LineFits, InLine
<1> QED BY <1>1 DEF IInv, TypeOK

\* Fewer locks conflict with fewer.
LEMMA FewerConflicts ==
  ASSUME IInv, NEW r \in Requests, NEW h \in SUBSET held[r]
  PROVE  \A s \in Requests \ {r} : \A a \in h, b \in held[s] : ~Conflicts(a, b)
BY DEF IInv, Compatible

LEMMA PoolKept ==
  ASSUME IInv, NEW r \in Requests, others' = others, conn' \in {conn, conn \ {r}}
  PROVE  PoolFits'
<1>1. PoolFits /\ Cardinality(conn) \in Nat
  BY FS_CardinalityType DEF IInv, PoolFits
<1>2. /\ IsFiniteSet(conn \ {r}) /\ Cardinality(conn \ {r}) =< Cardinality(conn)
      /\ Cardinality(conn \ {r}) \in Nat
  <2>1. IsFiniteSet(conn) /\ conn \ {r} \subseteq conn
    BY <1>1 DEF PoolFits
  <2> QED BY <2>1, FS_Subset, FS_CardinalityType
<1>3. CASE conn' = conn
  BY <1>1, <1>3 DEF PoolFits
<1>4. CASE conn' = conn \ {r}
  <2>1. Cardinality(conn') + others =< PoolSize
    BY <1>1, <1>2, <1>4, PoolSizeAssumption DEF PoolFits
  <2> QED BY <1>1, <1>2, <1>4, <2>1 DEF PoolFits
<1> QED BY <1>3, <1>4

LEMMA EndKeeps ==
  ASSUME IInv, NEW r \in Requests, End(r), r \notin behind, behind' = behind,
         head' = [row \in Rows |-> IF head[row] = r THEN None ELSE head[row]]
  PROVE  IInv'
<1>1. Idle \in [kind : Kinds \cup {"any"}, step : Steps] /\ {} \in SUBSET Locks
  BY DEF Idle, Steps
<1>2. /\ req' = [req EXCEPT ![r] = Idle] /\ held' = [held EXCEPT ![r] = {}]
      /\ conn' = conn \ {r} /\ others' = others
  BY DEF End
<1>3. Fit(Idle.kind, Idle.step, {})
  BY DEF Fit, Idle
<1> HIDE DEF Idle
<1> QED BY <1>1, <1>2, <1>3, PoolKept, StepKeeps

LEMMA ArriveKeeps ==
  ASSUME IInv, NEW r \in Requests, Arrive(r)
  PROVE  IInv'
<1> DEFINE q == [kind |-> "any", step |-> "query"]
<1>1. q \in [kind : Kinds \cup {"any"}, step : Steps]
  BY DEF Steps
<1>2. /\ req' = [req EXCEPT ![r] = q] /\ UNCHANGED <<conn, others, held, head, behind>>
      /\ req[r].step = "idle"
  BY DEF Arrive, At, lines
<1>3. held[r] = {} /\ held[r] \in SUBSET Locks
  <2>1. Fit(req[r].kind, req[r].step, held[r])
    BY DEF IInv, LocksFit
  <2> QED BY <1>2, <2>1 DEF Fit, IInv, TypeOK
<1>4. held' = [held EXCEPT ![r] = held[r]]
  BY <1>2 DEF IInv, TypeOK
<1>5. Fit(q.kind, q.step, held[r])
  BY <1>3 DEF Fit, Kinds
<1>6. req[r].step \notin Locks
  BY <1>2 DEF Locks, SessionLocks, AnnouncementLocks
<1> HIDE DEF q
<1>7. /\ r \notin behind
      /\ head' = [row \in Rows |-> IF head[row] = r THEN None ELSE head[row]]
  BY <1>2, <1>6, NotInLine
<1>8. PoolFits'
  BY <1>2, PoolKept
<1> QED BY <1>1, <1>2, <1>3, <1>4, <1>5, <1>7, <1>8, FewerConflicts, StepKeeps

\* A step along the handler, with the locks that it has afterwards.
LEMMA AdvanceKeeps ==
  ASSUME IInv, NEW r \in Requests, Advance(r),
         NEW h \in SUBSET Locks, h = After(req[r].step, held[r]), held' = [held EXCEPT ![r] = h],
         PoolFits',
         \A s \in Requests \ {r} : \A a \in h, b \in held[s] : ~Conflicts(a, b),
         r \notin behind, behind' = behind,
         head' = [row \in Rows |-> IF head[row] = r THEN None ELSE head[row]]
  PROVE  IInv'
<1>0. PICK k \in KindsAt(r) : \E n \in Handler(k, req[r].step) :
        req' = [req EXCEPT ![r] = [kind |-> IF n \in AfterCommit THEN "any" ELSE k, step |-> n]]
  BY DEF Advance
<1>1. PICK n \in Handler(k, req[r].step) :
        req' = [req EXCEPT ![r] = [kind |-> IF n \in AfterCommit THEN "any" ELSE k, step |-> n]]
  BY <1>0
<1> DEFINE q == [kind |-> IF n \in AfterCommit THEN "any" ELSE k, step |-> n]
<1>2. n \in Steps /\ k \in Kinds \cup {"any"} /\ Fit(q.kind, q.step, h)
  BY HandlerFits
<1>3. q \in [kind : Kinds \cup {"any"}, step : Steps]
  BY <1>2
<1>4. req' = [req EXCEPT ![r] = q]
  BY <1>1
<1> HIDE DEF q
<1> QED BY <1>2, <1>3, <1>4, StepKeeps

\* A step that takes no lock: a query, a commit, the answer of a service.
LEMMA UnlockedKeeps ==
  ASSUME IInv, NEW r \in Requests, Advance(r), req[r].step \notin Locks,
         held' = [held EXCEPT ![r] = After(req[r].step, held[r])],
         PoolFits',
         UNCHANGED <<head, behind>>
  PROVE  IInv'
<1>1. held[r] \in SUBSET Locks
  BY DEF IInv, TypeOK
<1>2. After(req[r].step, held[r]) \in SUBSET held[r]
  BY DEF After
<1>3. /\ r \notin behind
      /\ head' = [row \in Rows |-> IF head[row] = r THEN None ELSE head[row]]
  BY NotInLine
<1> DEFINE h == After(req[r].step, held[r])
<1>4. \A s \in Requests \ {r} : \A a \in h, b \in held[s] : ~Conflicts(a, b)
  BY <1>2, FewerConflicts
<1>5. h \in SUBSET Locks /\ h = After(req[r].step, held[r]) /\ held' = [held EXCEPT ![r] = h]
  BY <1>1, <1>2
<1> HIDE DEF h
<1> QED BY <1>3, <1>4, <1>5, AdvanceKeeps

LEMMA GoOnKeeps ==
  ASSUME IInv, NEW r \in Requests, GoOn(r) \/ Answer(r)
  PROVE  IInv'
<1> USE DEF Locks, SessionLocks, AnnouncementLocks, At
<1>0. held = [held EXCEPT ![r] = held[r]] /\ TypeOK
  BY DEF IInv, TypeOK
<1>1. CASE Connect(r)
  <2>1. req[r].step \in {"query", "refresh"} /\ conn' = conn \cup {r} /\ r \notin conn
    BY <1>1 DEF Connect, NeedsConnection
  <2>2. After(req[r].step, held[r]) = held[r]
    BY <2>1 DEF After
  <2>3. /\ IsFiniteSet(conn') /\ Cardinality(conn') = Cardinality(conn) + 1
        /\ Cardinality(conn) \in Nat
    BY <2>1, FS_AddElement, FS_CardinalityType DEF IInv, PoolFits
  <2>4. others \in Nat /\ others' = others /\ Cardinality(conn') + others =< PoolSize
    <3>1. others \in Nat /\ others' = others /\ Cardinality(conn) + others < PoolSize
      BY <1>0, <1>1 DEF Connect, Free, TypeOK
    <3> QED BY <2>3, <3>1, PoolSizeAssumption
  <2>5. PoolFits'
    BY <1>0, <2>1, <2>3, <2>4 DEF TypeOK, PoolFits
  <2> QED BY <1>0, <1>1, <2>1, <2>2, <2>3, <2>4, <2>5, UnlockedKeeps DEF Connect, lines
<1>2. CASE PoolTimeout(r)
  <2>1. req[r].step \notin Locks
    BY <1>2 DEF PoolTimeout, NeedsConnection
  <2> QED BY <1>2, <2>1, NotInLine, EndKeeps DEF PoolTimeout, lines
<1>3. CASE CallFails(r)
  <2>1. req[r].step \notin Locks
    BY <1>3 DEF CallFails
  <2> QED BY <1>3, <2>1, NotInLine, EndKeeps DEF CallFails, lines
<1>4. CASE Respond(r)
  <2>1. req[r].step \notin Locks
    BY <1>4 DEF Respond
  <2> QED BY <1>4, <2>1, NotInLine, EndKeeps DEF Respond, lines
<1>5. CASE Commit(r)
  <2>1. req[r].step = "commit"
    BY <1>5 DEF Commit
  <2>2. After(req[r].step, held[r]) = {}
    BY <2>1 DEF After
  <2> QED BY <1>5, <2>1, <2>2, PoolKept, UnlockedKeeps DEF Commit, lines
<1>6. CASE Answer(r)
  <2>1. req[r].step = "call"
    BY <1>6 DEF Answer
  <2>2. After(req[r].step, held[r]) = held[r]
    BY <2>1 DEF After
  <2> QED BY <1>0, <1>6, <2>1, <2>2, PoolKept, UnlockedKeeps DEF Answer, lines
<1> QED BY <1>1, <1>2, <1>3, <1>4, <1>5, <1>6 DEF GoOn

LEMMA TakeLockKeeps ==
  ASSUME IInv, NEW r \in Requests, TakeLock(r)
  PROVE  IInv'
<1>1. CASE Lock(r)
  <2>1. /\ req[r].step \in Locks /\ ~Blocked(r) /\ r \notin behind /\ Advance(r)
        /\ held' = [held EXCEPT ![r] = held[r] \cup {req[r].step}]
        /\ UNCHANGED <<conn, others, behind>>
        /\ head' = [row \in Rows |-> IF head[row] = r THEN None ELSE head[row]]
    BY <1>1 DEF Lock, Leave
  <2> DEFINE h == held[r] \cup {req[r].step}
  <2>2. h = After(req[r].step, held[r])
    BY <2>1 DEF After, Locks, SessionLocks, AnnouncementLocks
  <2>3. held[r] \in SUBSET Locks
    BY DEF IInv, TypeOK
  <2>4. \A s \in Requests \ {r} : \A b \in held[s] : ~Conflicts(req[r].step, b)
    BY <2>1 DEF Blocked, Holders
  <2>5. \A s \in Requests \ {r} : \A a \in h, b \in held[s] : ~Conflicts(a, b)
    BY <2>4, FewerConflicts
  <2>6. PoolFits'
    BY <2>1, PoolKept
  <2>7. h \in SUBSET Locks
    BY <2>1, <2>3
  <2> HIDE DEF h
  <2>8. held' = [held EXCEPT ![r] = h]
    BY <2>1 DEF h
  <2> QED BY <2>1, <2>2, <2>5, <2>6, <2>7, <2>8, AdvanceKeeps
<1>2. CASE RowGone(r)
  BY <1>2, EndKeeps DEF RowGone, Leave
<1> QED BY <1>1, <1>2 DEF TakeLock

LEMMA LineKeeps ==
  ASSUME IInv, NEW r \in Requests, Queue(r) \/ TakePlace(r) \/ Wake(r)
  PROVE  IInv'
<1>0. TypeOK /\ LineFits /\ UNCHANGED <<req, conn, others, held>>
  BY DEF IInv, Queue, TakePlace, Wake
<1>1. head' \in [Rows -> Requests \cup {None}] /\ behind' \in SUBSET Requests
  BY <1>0 DEF Queue, TakePlace, Wake, TypeOK
<1>2. LineFits'
  <2>1. \A s \in Requests : InLine(s)' = InLine(s)
    BY <1>0 DEF InLine, Member
  <2>2. CASE Wake(r)
    BY <1>0, <2>1, <2>2 DEF Wake, LineFits, TypeOK
  <2>3. CASE TakePlace(r)
    <3> DEFINE row == Row(req[r].step)
    <3>1. /\ r \in behind /\ InLine(r) /\ row \in Rows
          /\ head' = [head EXCEPT ![row] = r] /\ behind' = behind \ {r}
      BY <1>0, <2>3 DEF TakePlace, LineFits, Row, Rows
    <3> QED BY <1>0, <2>1, <3>1 DEF LineFits, TypeOK
  <2>4. CASE Queue(r)
    <3> DEFINE row == Row(req[r].step)
    <3>1. InLine(r) /\ row \in Rows
      BY <2>4 DEF Queue, InLine, Blocked, Row, Rows
    <3>2. CASE head[row] = None /\ head' = [head EXCEPT ![row] = r] /\ UNCHANGED behind
      BY <1>0, <2>1, <2>4, <3>1, <3>2 DEF Queue, LineFits, TypeOK
    <3>3. CASE head[row] \notin {None, r} /\ behind' = behind \cup {r} /\ UNCHANGED head
      <4>1. \A q \in Rows : head[q] # r
        BY <1>0, <3>1, <3>3, NoneAssumption DEF LineFits
      <4> QED BY <1>0, <2>1, <2>4, <3>1, <3>3, <4>1 DEF LineFits, TypeOK
    <3> QED BY <2>4, <3>2, <3>3 DEF Queue
  <2> QED BY <2>2, <2>3, <2>4
<1>3. TypeOK'
  BY <1>0, <1>1 DEF TypeOK
<1> QED BY <1>0, <1>2, <1>3 DEF IInv, PoolFits, LocksFit, Compatible

LEMMA ElsewhereKeeps ==
  ASSUME IInv, Elsewhere
  PROVE  IInv'
<1>1. PoolFits /\ Cardinality(conn) \in Nat /\ UNCHANGED <<req, conn, held, head, behind>>
  BY FS_CardinalityType DEF IInv, PoolFits, Elsewhere, lines
<1>2. PoolFits'
  BY <1>1, PoolSizeAssumption DEF PoolFits, Elsewhere, Free
<1> QED BY <1>1, <1>2 DEF IInv, PoolFits, TypeOK, LocksFit, Compatible, LineFits, InLine, Member

LEMMA InitInv == Init => IInv
<1> SUFFICES ASSUME Init PROVE IInv
  OBVIOUS
<1>1. IsFiniteSet(conn) /\ Cardinality(conn) = 0
  BY FS_EmptySet DEF Init
<1>2. TypeOK
  BY <1>1, PoolSizeAssumption DEF Init, TypeOK, Idle, Steps
<1> QED BY <1>1, <1>2 DEF Init, IInv, PoolFits, TypeOK, LocksFit, Fit, Idle, Compatible, LineFits

LEMMA NextInv == IInv /\ [Next]_vars => IInv'
<1> SUFFICES ASSUME IInv, [Next]_vars PROVE IInv'
  OBVIOUS
<1>1. ASSUME NEW r \in Requests,
             \/ Arrive(r) \/ GoOn(r) \/ Answer(r)
             \/ Queue(r) \/ TakePlace(r) \/ Wake(r) \/ TakeLock(r)
      PROVE  IInv'
  BY <1>1, ArriveKeeps, GoOnKeeps, LineKeeps, TakeLockKeeps
<1>2. CASE Elsewhere
  BY <1>2, ElsewhereKeeps
<1>3. CASE UNCHANGED vars
  BY <1>3 DEF vars, IInv, PoolFits, TypeOK, LocksFit, Compatible, LineFits, InLine, Member
<1> QED BY <1>1, <1>2, <1>3 DEF Next

-----------------------------------------------------------------------------
(* Who waits for whom. *)

Waiting(r) == r \in behind \/ Blocked(r)

\* Whoever waits waits for somebody of a higher rank: sessions come before
\* announcements, and in each line those behind, the head, and those who have a lock
\* of the row already.
Rank(r) ==
  IF ~Waiting(r) THEN 5
  ELSE IF req[r].step \in AnnouncementLocks THEN IF r \in behind THEN 3 ELSE 4
  ELSE IF r \in behind THEN 0 ELSE IF Member(r) THEN 2 ELSE 1

LEMMA RankType == \A r : Rank(r) \in 0..5
BY DEF Rank

\* What is known of a request that waits.
LEMMA WaitingFits ==
  ASSUME IInv, NEW r \in Requests, Waiting(r)
  PROVE  /\ req[r].step \in Locks
         /\ Fit(req[r].kind, req[r].step, held[r])
         /\ held[r] \subseteq Locks
         /\ r \in behind => ~Member(r)
BY DEF IInv, LineFits, InLine, Waiting, Blocked, LocksFit, TypeOK

\* A request that wants a lock of a session has a lock of it, or of nothing.
LEMMA MemberOfSession ==
  ASSUME IInv, NEW r \in Requests, Waiting(r), req[r].step \in SessionLocks,
         \E lock \in held[r] : lock \in SessionLocks
  PROVE  Member(r)
BY DEF Member, Row

\* Nobody waits to upgrade behind a lock that has been upgraded but by those who go on
\* to the announcement.
LEMMA UpgradeWaits ==
  ASSUME IInv, NEW r \in Requests, NEW s \in Requests, Blocked(r), s \in Holders(r),
         req[r].step \in SessionLocks, Member(r)
  PROVE  ~Waiting(s) \/ req[s].step \in AnnouncementLocks
<1>1. PICK b \in held[s] : Conflicts(req[r].step, b) /\ s # r
  BY DEF Holders
<1>2. PICK a \in held[r] : a \in SessionLocks
  BY DEF Member, Row, SessionLocks, AnnouncementLocks
<1>3. ~Conflicts(a, b)
  BY <1>1, <1>2 DEF IInv, Compatible
<1>4. Fit(req[r].kind, req[r].step, held[r]) /\ Fit(req[s].kind, req[s].step, held[s])
  BY DEF IInv, LocksFit
<1>5. b = "session"
  BY <1>1, <1>2, <1>3, <1>4 DEF Conflicts, Fit, SessionLocks, AnnouncementLocks
<1>6. req[s].step \in {"pin", "announcement", "commit"}
  BY <1>4, <1>5 DEF Fit
<1>7. CASE req[s].step = "pin"
  <2>1. Member(s)
    BY <1>5, <1>7 DEF Member, Row, SessionLocks
  <2>2. ~Blocked(s)
    <3> SUFFICES ASSUME NEW t \in Holders(s) PROVE FALSE
      BY DEF Blocked
    <3>1. PICK c \in held[t] : Conflicts("pin", c) /\ t # s /\ t \in Requests
      BY <1>7 DEF Holders
    <3>2. Conflicts("session", c)
      BY <3>1 DEF Conflicts, SessionLocks, AnnouncementLocks
    <3> QED BY <1>5, <3>1, <3>2 DEF IInv, Compatible
  <2> QED BY <2>1, <2>2, WaitingFits DEF Waiting
<1>8. CASE req[s].step = "commit"
  BY <1>8, WaitingFits DEF Locks, SessionLocks, AnnouncementLocks
<1> QED BY <1>6, <1>7, <1>8 DEF AnnouncementLocks

LEMMA RankGrows ==
  ASSUME IInv, NEW r \in Requests, NEW s \in Requests, WaitsFor(r, s)
  PROVE  Rank(r) < Rank(s)
<1>1. CASE r \in behind
  <2>1. s = head[Row(req[r].step)]
    BY <1>1 DEF WaitsFor
  <2>2. req[r].step \in Locks /\ Row(req[r].step) \in Rows
    BY <1>1, WaitingFits DEF Waiting, Row, Rows
  <2>3. InLine(s) /\ Row(req[s].step) = Row(req[r].step) /\ s \notin behind
    BY <2>1, <2>2, NoneAssumption DEF IInv, LineFits
  <2>4. req[s].step \in AnnouncementLocks <=> req[r].step \in AnnouncementLocks
    BY <2>2, <2>3 DEF InLine, Row, Locks, SessionLocks, AnnouncementLocks
  <2> QED BY <1>1, <2>3, <2>4 DEF Rank, Waiting, InLine
<1>2. CASE r \notin behind
  <2>1. Blocked(r) /\ s \in Holders(r) /\ req[r].step \in Locks
    BY <1>2 DEF WaitsFor, Blocked
  <2>2. PICK b \in held[s] : Conflicts(req[r].step, b) /\ s # r
    BY <2>1 DEF Holders
  <2>3. CASE req[r].step \in AnnouncementLocks
    <3>1. b \in AnnouncementLocks
      BY <2>2, <2>3 DEF Conflicts, SessionLocks, AnnouncementLocks
    <3>2. req[s].step = "commit"
      BY <3>1 DEF IInv, LocksFit, Fit
    <3>3. ~Waiting(s)
      BY <3>2, WaitingFits DEF Locks, SessionLocks, AnnouncementLocks
    <3> QED BY <1>2, <2>1, <2>3, <3>3 DEF Rank, Waiting
  <2>4. CASE req[r].step \in SessionLocks /\ Member(r)
    <3>1. ~Waiting(s) \/ req[s].step \in AnnouncementLocks
      BY <2>1, <2>4, UpgradeWaits
    <3>2. req[r].step \notin AnnouncementLocks
      BY <2>4 DEF SessionLocks, AnnouncementLocks
    <3> QED BY <1>2, <2>1, <2>4, <3>1, <3>2 DEF Rank, Waiting
  <2>5. CASE req[r].step \in SessionLocks /\ ~Member(r)
    <3>1. b \in SessionLocks
      BY <2>2, <2>5 DEF Conflicts, SessionLocks, AnnouncementLocks
    <3>2. req[r].step \notin AnnouncementLocks
      BY <2>5 DEF SessionLocks, AnnouncementLocks
    <3>3. Waiting(s) /\ req[s].step \notin AnnouncementLocks => Member(s) /\ s \notin behind
      BY <3>1, WaitingFits, MemberOfSession DEF Locks
    <3> QED BY <1>2, <2>1, <2>5, <3>2, <3>3 DEF Rank, Waiting
  <2> QED BY <2>1, <2>3, <2>4, <2>5 DEF Locks
<1> QED BY <1>1, <1>2

\* Of several requests one has the highest rank.
LEMMA Highest ==
  ASSUME NEW rs \in SUBSET Requests, rs # {}
  PROVE  \E r \in rs : \A s \in rs : Rank(s) =< Rank(r)
<1> SUFFICES ASSUME \A r \in rs : \E s \in rs : ~(Rank(s) =< Rank(r)) PROVE FALSE
  OBVIOUS
<1>0. \A r \in rs : \E s \in rs : Rank(s) > Rank(r)
  BY RankType
<1>1. PICK r1 \in rs : Rank(r1) >= 0
  BY RankType
<1>2. PICK r2 \in rs : Rank(r2) >= 1
  <2>1. PICK r \in rs : Rank(r) > Rank(r1)
    BY <1>0
  <2>2. Rank(r) \in Int /\ Rank(r1) \in Int
    BY RankType
  <2>3. Rank(r) >= 1
    BY <1>1, <2>1, <2>2
  <2> QED BY <2>3
<1>3. PICK r3 \in rs : Rank(r3) >= 2
  <2>1. PICK r \in rs : Rank(r) > Rank(r2)
    BY <1>0
  <2>2. Rank(r) \in Int /\ Rank(r2) \in Int
    BY RankType
  <2>3. Rank(r) >= 2
    BY <1>2, <2>1, <2>2
  <2> QED BY <2>3
<1>4. PICK r4 \in rs : Rank(r4) >= 3
  <2>1. PICK r \in rs : Rank(r) > Rank(r3)
    BY <1>0
  <2>2. Rank(r) \in Int /\ Rank(r3) \in Int
    BY RankType
  <2>3. Rank(r) >= 3
    BY <1>3, <2>1, <2>2
  <2> QED BY <2>3
<1>5. PICK r5 \in rs : Rank(r5) >= 4
  <2>1. PICK r \in rs : Rank(r) > Rank(r4)
    BY <1>0
  <2>2. Rank(r) \in Int /\ Rank(r4) \in Int
    BY RankType
  <2>3. Rank(r) >= 4
    BY <1>4, <2>1, <2>2
  <2> QED BY <2>3
<1>6. PICK r6 \in rs : Rank(r6) >= 5
  <2>1. PICK r \in rs : Rank(r) > Rank(r5)
    BY <1>0
  <2>2. Rank(r) \in Int /\ Rank(r5) \in Int
    BY RankType
  <2>3. Rank(r) >= 5
    BY <1>5, <2>1, <2>2
  <2> QED BY <2>3
<1> QED BY <1>0, <1>6, RankType

\* The inductive invariant: the handlers take their locks in one order.
THEOREM Invariance == Spec => []IInv
<1>1. IInv /\ [Next]_vars => IInv'
  BY NextInv
<1> QED BY <1>1, InitInv, PTL DEF Spec

\* Type correctness of the requests and their locks; the pool is never overdrawn.
THEOREM TypeCorrect == Spec => []TypeOK
<1>1. IInv => TypeOK
  BY DEF IInv
<1> QED BY <1>1, Invariance, PTL

\* No deadlock in the database, for any number of requests of a chat.
THEOREM NoDeadlock == Spec => []NoLockCycle
<1>1. IInv => NoLockCycle
  <2> SUFFICES ASSUME IInv, NEW rs \in SUBSET Requests, rs # {}
               PROVE  \E r \in rs : \A s \in rs : ~WaitsFor(r, s)
    BY DEF NoLockCycle
  <2>1. PICK r \in rs : \A s \in rs : Rank(s) =< Rank(r)
    BY Highest
  <2>2. ASSUME NEW s \in rs, WaitsFor(r, s) PROVE FALSE
    BY <2>1, <2>2, RankGrows, RankType
  <2> QED BY <2>2
<1> QED BY <1>1, Invariance, PTL

\* A call to another service holds up deletions only, for any number of requests.
THEOREM CallsHoldUpFew == Spec => []CallsHoldUpOnlyDeletions
<1>1. IInv => CallsHoldUpOnlyDeletions
  <2> SUFFICES ASSUME IInv, NEW r \in Requests, NEW s \in Requests,
                      Blocked(r), s \in Holders(r), req[s].step = "call"
               PROVE  req[r].step = "delete session"
    BY DEF CallsHoldUpOnlyDeletions, At
  <2>1. PICK b \in held[s] : Conflicts(req[r].step, b)
    BY DEF Holders
  <2>2. b = "pin"
    BY <2>1 DEF IInv, LocksFit, Fit, TypeOK, Locks, SessionLocks, AnnouncementLocks
  <2> QED BY <2>1, <2>2 DEF Conflicts, SessionLocks, AnnouncementLocks
<1> QED BY <1>1, Invariance, PTL

=============================================================================
