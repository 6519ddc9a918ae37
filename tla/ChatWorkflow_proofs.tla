------------------------- MODULE ChatWorkflow_proofs -------------------------
(***************************************************************************)
(* Theorems about ChatWorkflow, for any number of handlers, announcements, *)
(* pipelines and replies.                                                  *)
(***************************************************************************)
EXTENDS ChatWorkflow, TLAPS

-----------------------------------------------------------------------------
(* Facts about rows. *)

\* A new session and a new announcement are rows, and a row is not None.
LEMMA RowTypes ==
  /\ NewSession \in Session
  /\ NewAnnouncement \in Announcement
  /\ None \notin Session /\ None \notin Announcement /\ None \notin Job
  /\ None \notin Pipelines
BY NoneAssumption, BoundAssumption
DEF NewSession, Session, Slots, NoSlots, Stages, NewAnnouncement, Announcement, NoDraft, Drafts,
    AllTitles

\* Merging two session objects into a session row yields a session row.
LEMMA MergeSession ==
  ASSUME NEW row \in Session, NEW old \in Session, NEW new \in Session
  PROVE  /\ Merge(row, old, new) \in Session
         /\ Merge(row, old, new).stage = IF new.stage = old.stage THEN row.stage ELSE new.stage
BY DEF Merge, Session

\* Merging two announcement objects into an announcement row yields such a row.
LEMMA MergeAnnouncement ==
  ASSUME NEW row \in Announcement, NEW base \in Announcement, NEW edit \in Announcement
  PROVE  LET m == Merge(row, base, edit) IN
         /\ m \in Announcement
         /\ m.status = IF edit.status = base.status THEN row.status ELSE edit.status
         /\ m.draft = IF edit.draft = base.draft THEN row.draft ELSE edit.draft
BY DEF Merge, Announcement

\* A request that has just loaded its rows is a job.
LEMMA RequestType ==
  ASSUME NEW kind \in Kinds, NEW at \in {"call", "flush", "commit", "delete", "stream"},
         NEW i \in Ids, NEW s \in Session, NEW a \in Announcement
  PROVE  Request(kind, at, i, s, a) \in Job
BY DEF Request, Job

\* The edits of the handlers yield announcements.
LEMMA EditTypes ==
  ASSUME NEW a \in Announcement
  PROVE  /\ Clone(a) \in Announcement
         /\ \A n \in Notices : AddVariants(a, n) \in Announcement
         /\ \A t \in Titles : Retitle(a, t) \in Announcement
         /\ \A p \in Pipelines \cup {None} : PersistDraft(a, p) \in Announcement
         /\ \A c \in Covers : [a EXCEPT !.cover = c] \in Announcement
<1>1. Clone(a) \in Announcement
  BY DEF Clone, Announcement, Drafts, AllTitles
<1>2. \A n \in Notices : AddVariants(a, n) \in Announcement
  BY DEF AddVariants, Announcement, Drafts
<1>3. \A t \in Titles : Retitle(a, t) \in Announcement
  BY DEF Retitle, Announcement, Drafts, AllTitles
<1>4. \A p \in Pipelines \cup {None} : PersistDraft(a, p) \in Announcement
  BY DEF PersistDraft, Announcement, Drafts, AllTitles
<1>5. \A c \in Covers : [a EXCEPT !.cover = c] \in Announcement
  BY DEF Announcement
<1> QED BY <1>1, <1>2, <1>3, <1>4, <1>5

\* The job of a busy worker is a job.
LEMMA BusyJob ==
  ASSUME TypeOK, NEW w \in Workers, NEW kinds, NEW at, Handling(w, kinds, at)
  PROVE  job[w] \in Job /\ job[w].id \in Ids /\ job[w].kind \in kinds /\ job[w].at = at
<1>1. job[w] \in Job
  BY DEF TypeOK, Handling
<1> QED BY <1>1 DEF Handling, Job

-----------------------------------------------------------------------------
(* Type correctness. *)

\* What a handler holds is not ahead of the rows.
HandlerSafe(w) == job[w] # None => Safe(job[w])

HandlersSafe == \A w \in Workers : HandlerSafe(w)

\* A reply of the STT service leaves the session object and the service typed.
LEMMA ReceiveType ==
  ASSUME TypeOK, NEW w \in Workers, NEW p \in Pipelines, NEW r \in Replies,
         NEW kinds, Handling(w, kinds, "call"), Receive(w, p, r)
  PROVE  TypeOK'
<1>1. job[w] \in Job
  BY BusyJob
<1>2. turns[p] + 1 \in 0 .. MaxTurns /\ r \in [slots : BOOLEAN, completed : BOOLEAN, ready : BOOLEAN, question : BOOLEAN]
  BY BoundAssumption, ReplyAssumption DEF Receive, TakeInput, TypeOK
<1>3. StageAfterReply(r) \in Stages
  BY <1>2 DEF StageAfterReply, PipelineStage, Stages
<1>4. AfterReply(job[w].old, p, turns[p] + 1, r) \in Session
  <2>1. [pipe |-> p, turn |-> turns[p] + 1, full |-> r.completed] \in Slots /\ NoSlots \in Slots
    BY <1>2, BoundAssumption DEF Slots, NoSlots
  <2> QED BY <1>3, <2>1 DEF AfterReply, Session
<1>5. [job[w] EXCEPT !.at = "flush",
                     !.new = AfterReply(job[w].old, p, turns[p] + 1, r),
                     !.draft = IF Completes(r) THEN p ELSE None] \in Job
  BY <1>1, <1>4 DEF Job
<1>6. turns' \in [Pipelines -> 0 .. MaxTurns] /\ done' \in SUBSET Pipelines
  BY <1>2 DEF Receive, TakeInput, TypeOK
<1>7. job' \in [Workers -> Job \cup {None}]
  BY <1>5 DEF Receive, Advance, TypeOK
<1> QED BY <1>6, <1>7 DEF Receive, db, TypeOK

\* Saving what a handler has leaves its job typed, whatever it assigns.
LEMMA PersistType ==
  ASSUME TypeOK, ReferencesHold, NEW w \in Workers, Persist(w)
  PROVE  TypeOK'
<1>1. job[w] \in Job /\ job[w].id \in Ids
  BY BusyJob DEF Persist, PersistReply, PersistPhotos
<1>2. sess[job[w].id] # None /\ ann[job[w].id] \in Announcement
  BY <1>1 DEF Persist, PersistReply, PersistPhotos, Flush, ReferencesHold, TypeOK
<1>3. PICK a \in Announcement :
        job' = [job EXCEPT ![w] = [job[w] EXCEPT !.at = "commit", !.base = ann[job[w].id], !.edit = a]]
  <2>1. CASE PersistReply(w)
    <3>1. PersistDraft(ann[job[w].id], job[w].draft) \in Announcement
      BY <1>1, <1>2, EditTypes DEF Job
    <3> QED BY <2>1, <3>1 DEF PersistReply, Flush, Advance
  <2>2. ASSUME NEW c \in Covers, PersistPhotos(w, c)
        PROVE  \E a \in Announcement :
                 job' = [job EXCEPT ![w] = [job[w] EXCEPT !.at = "commit", !.base = ann[job[w].id], !.edit = a]]
    <3>1. [ann[job[w].id] EXCEPT !.cover = c] \in Announcement
      BY <1>2, EditTypes
    <3> QED BY <2>2, <3>1 DEF PersistPhotos, Flush, Advance
  <2> QED BY <2>1, <2>2 DEF Persist
<1>4. [job[w] EXCEPT !.at = "commit", !.base = ann[job[w].id], !.edit = a] \in Job
  BY <1>1, <1>2 DEF Job
<1>5. job' \in [Workers -> Job \cup {None}]
  BY <1>3, <1>4 DEF TypeOK
<1>6. UNCHANGED <<db, stt, missed>>
  BY DEF Persist, PersistReply, PersistPhotos, Flush
<1> QED BY <1>5, <1>6 DEF TypeOK, db, stt

\* Loading the rows of a request leaves the variables typed.
LEMMA ArriveType ==
  ASSUME TypeOK, NEW w \in Workers, Arrive(w)
  PROVE  TypeOK'
<1>1. \E j \in Job : job' = [job EXCEPT ![w] = j]
  <2> PICK i \in Ids :
        \/ \E kind \in TextKinds : SendMessage(w, i, kind)
        \/ UploadVoice(w, i)
        \/ UploadImages(w, i)
        \/ GeneratePlatformDrafts(w, i)
        \/ \E t \in Titles : UpdateAnnouncement(w, i, t)
        \/ \E n \in Notices : UpdatePlatformVariant(w, i, n)
        \/ DuplicateAnnouncement(w, i)
        \/ DeleteAnnouncement(w, i)
    BY DEF Arrive
  <2>1. sess[i] # None => sess[i] \in Session
    BY DEF TypeOK
  <2>2. ann[i] # None => ann[i] \in Announcement
    BY DEF TypeOK
  <2>3. ASSUME NEW kind \in TextKinds, SendMessage(w, i, kind)
        PROVE  \E j \in Job : job' = [job EXCEPT ![w] = j]
    <3>1. Request(kind, "call", i, sess[i], NewAnnouncement) \in Job
      BY <2>1, <2>3, RequestType, RowTypes
      DEF SendMessage, RequireSession, TextKinds, ChatKinds, Kinds
    <3> QED BY <2>3, <3>1 DEF SendMessage, Begin
  <2>4. CASE UploadVoice(w, i)
    <3>1. Request("voice", "call", i, sess[i], NewAnnouncement) \in Job
      BY <2>1, <2>4, RequestType, RowTypes DEF UploadVoice, RequireSession, ChatKinds, Kinds
    <3> QED BY <2>4, <3>1 DEF UploadVoice, Begin
  <2>5. CASE UploadImages(w, i)
    <3>1. Request("images", "call", i, sess[i], NewAnnouncement) \in Job
      BY <2>1, <2>5, RequestType, RowTypes DEF UploadImages, RequireSession, ChatKinds, Kinds
    <3> QED BY <2>5, <3>1 DEF UploadImages, Begin
  <2>6. CASE GeneratePlatformDrafts(w, i)
    <3>1. Request("generate", "call", i, sess[i], ann[i]) \in Job
      BY <2>1, <2>2, <2>6, RequestType DEF GeneratePlatformDrafts, RequireSession, EditKinds, Kinds
    <3> QED BY <2>6, <3>1 DEF GeneratePlatformDrafts, Begin
  <2>7. ASSUME NEW t \in Titles, UpdateAnnouncement(w, i, t)
        PROVE  \E j \in Job : job' = [job EXCEPT ![w] = j]
    <3>1. /\ Request("patch", "commit", i, NewSession, ann[i]) \in Job
          /\ Retitle(ann[i], t) \in Announcement
      BY <2>2, <2>7, RequestType, RowTypes, EditTypes DEF UpdateAnnouncement, EditKinds, Kinds
    <3>2. [Request("patch", "commit", i, NewSession, ann[i]) EXCEPT !.edit = Retitle(ann[i], t)] \in Job
      BY <3>1 DEF Job
    <3> QED BY <2>7, <3>2 DEF UpdateAnnouncement, Begin
  <2>8. ASSUME NEW n \in Notices, UpdatePlatformVariant(w, i, n)
        PROVE  \E j \in Job : job' = [job EXCEPT ![w] = j]
    <3>1. /\ Request("variant", "commit", i, NewSession, ann[i]) \in Job
          /\ AddVariants(ann[i], n) \in Announcement
      BY <2>2, <2>8, RequestType, RowTypes, EditTypes DEF UpdatePlatformVariant, EditKinds, Kinds
    <3>2. [Request("variant", "commit", i, NewSession, ann[i]) EXCEPT !.edit = AddVariants(ann[i], n)] \in Job
      BY <3>1 DEF Job
    <3> QED BY <2>8, <3>2 DEF UpdatePlatformVariant, Begin
  <2>9. CASE DuplicateAnnouncement(w, i)
    <3>1. Request("duplicate", "commit", i, NewSession, ann[i]) \in Job
      BY <2>2, <2>9, RequestType, RowTypes DEF DuplicateAnnouncement, Kinds
    <3> QED BY <2>9, <3>1 DEF DuplicateAnnouncement, Begin
  <2>10. CASE DeleteAnnouncement(w, i)
    <3>1. Request("delete", "delete", i, NewSession, NewAnnouncement) \in Job
      BY RequestType, RowTypes DEF Kinds
    <3> QED BY <2>10, <3>1 DEF DeleteAnnouncement, Begin
  <2> QED BY <2>3, <2>4, <2>5, <2>6, <2>7, <2>8, <2>9, <2>10
<1>2. job' \in [Workers -> Job \cup {None}]
  BY <1>1 DEF TypeOK
<1>3. UNCHANGED <<db, stt, missed>>
  BY DEF Arrive, SendMessage, UploadVoice, UploadImages, GeneratePlatformDrafts, UpdateAnnouncement,
     UpdatePlatformVariant, DuplicateAnnouncement, DeleteAnnouncement
<1> QED BY <1>2, <1>3 DEF TypeOK, db, stt

\* So does every end of a call to another service.
LEMMA AnsweredType ==
  ASSUME TypeOK, NEW w \in Workers, Answered(w)
  PROVE  TypeOK'
<1>1. ASSUME NEW p \in Pipelines, NEW r \in Replies, StartPipeline(w, p, r)
      PROVE  TypeOK'
  BY <1>1, ReceiveType DEF StartPipeline
<1>2. ASSUME NEW r \in Replies, AnswerPipeline(w, r)
      PROVE  TypeOK'
  <2>1. job[w].old.stt \in Pipelines
    BY <1>2, BusyJob DEF AnswerPipeline, IsAnswer, Job, Session
  <2> QED BY <1>2, <2>1, ReceiveType DEF AnswerPipeline
<1>3. ASSUME NEW r \in Replies, AnswerLost(w, r)
      PROVE  TypeOK'
  <2>1. job[w].old.stt \in Pipelines
    BY <1>3, BusyJob DEF AnswerLost, IsAnswer, Job, Session
  <2>2. turns' \in [Pipelines -> 0 .. MaxTurns] /\ done' \in SUBSET Pipelines
    BY <1>3, <2>1, BoundAssumption DEF AnswerLost, TakeInput, TypeOK
  <2>3. job' \in [Workers -> Job \cup {None}] /\ missed' \in SUBSET Workers
    BY <1>3 DEF AnswerLost, Finish, Advance, TypeOK
  <2> QED BY <1>3, <2>2, <2>3 DEF AnswerLost, TypeOK, db
<1>4. CASE NothingToProcess(w)
  <2>1. job[w] \in Job
    BY <1>4, BusyJob DEF NothingToProcess
  <2>2. [job[w] EXCEPT !.at = "flush", !.new.stage = StageWithNothingToProcess(@)] \in Job
    BY <2>1 DEF Job, Session, StageWithNothingToProcess, Stages
  <2>3. job' \in [Workers -> Job \cup {None}]
    BY <1>4, <2>2 DEF NothingToProcess, Advance, TypeOK
  <2> QED BY <1>4, <2>3 DEF NothingToProcess, TypeOK, db, stt
<1>5. CASE SelectRepresentative(w)
  <2>1. job[w] \in Job
    BY <1>5, BusyJob DEF SelectRepresentative
  <2>2. [job[w] EXCEPT !.at = "flush", !.new.stage = StageAfterPhotos(@)] \in Job
    BY <2>1 DEF Job, Session, StageAfterPhotos, Stages
  <2>3. job' \in [Workers -> Job \cup {None}]
    BY <1>5, <2>2 DEF SelectRepresentative, Advance, TypeOK
  <2> QED BY <1>5, <2>3 DEF SelectRepresentative, TypeOK, db, stt
<1>6. ASSUME NEW n \in Notices, GenerateAll(w, n)
      PROVE  TypeOK'
  <2>1. job[w] \in Job /\ AddVariants(job[w].base, n) \in Announcement
    BY <1>6, BusyJob, EditTypes DEF GenerateAll, Job
  <2>2. [job[w] EXCEPT !.at = "commit", !.edit = AddVariants(job[w].base, n)] \in Job
    BY <2>1 DEF Job
  <2>3. job' \in [Workers -> Job \cup {None}]
    BY <1>6, <2>2 DEF GenerateAll, Advance, TypeOK
  <2> QED BY <1>6, <2>3 DEF GenerateAll, TypeOK, db, stt
<1>7. CASE CallFails(w)
  BY <1>7 DEF CallFails, Finish, Advance, TypeOK, db, stt
<1> QED BY <1>1, <1>2, <1>3, <1>4, <1>5, <1>6, <1>7 DEF Answered

\* And every end of a handler.
LEMMA EndType ==
  ASSUME TypeOK, ReferencesHold, HandlersSafe, NEW w \in Workers,
         Commit(w) \/ CommitDelete(w)
  PROVE  TypeOK'
<1>1. CASE CommitChat(w)
  <2> DEFINE j == job[w]
             i == job[w].id
  <2>1. j \in Job /\ i \in Ids
    BY <1>1, BusyJob DEF CommitChat
  <2>2. sess[i] \in Session /\ ann[i] \in Announcement
    BY <1>1, <2>1 DEF CommitChat, Handling, HandlersSafe, HandlerSafe, Safe, ReferencesHold, TypeOK
  <2>3. Merge(sess[i], j.old, j.new) \in Session /\ Merge(ann[i], j.base, j.edit) \in Announcement
    BY <2>1, <2>2, MergeSession, MergeAnnouncement DEF Job
  <2>4. Request("stream", "stream", i, NewSession, NewAnnouncement) \in Job
    BY <2>1, RequestType, RowTypes DEF Kinds, ChatKinds, TextKinds
  <2>5. job' \in [Workers -> Job \cup {None}]
    BY <1>1, <2>4 DEF CommitChat, Advance, TypeOK
  <2>6. sess' \in [Ids -> Session \cup {None}] /\ ann' \in [Ids -> Announcement \cup {None}]
    BY <1>1, <2>1, <2>3 DEF CommitChat, TypeOK
  <2>7. msgs' \in SUBSET Ids /\ missed' \in SUBSET Workers
    BY <1>1, <2>1 DEF CommitChat, TypeOK
  <2> QED BY <1>1, <2>5, <2>6, <2>7 DEF CommitChat, TypeOK, stt
<1>2. CASE CommitEdit(w)
  <2> DEFINE j == job[w]
             i == job[w].id
  <2>1. j \in Job /\ i \in Ids
    BY <1>2, BusyJob DEF CommitEdit
  <2>2. Merge(ann[i], j.base, j.edit) \in Announcement
    BY <1>2, <2>1, MergeAnnouncement DEF CommitEdit, TypeOK, Job
  <2>3. ann' \in [Ids -> Announcement \cup {None}]
    BY <1>2, <2>1, <2>2 DEF CommitEdit, TypeOK
  <2> QED BY <1>2, <2>3 DEF CommitEdit, Finish, Advance, TypeOK, stt
<1>3. CASE RowGone(w)
  BY <1>3 DEF RowGone, Finish, Advance, TypeOK, db, stt
<1>4. CASE EndStream(w)
  BY <1>4 DEF EndStream, Finish, Advance, TypeOK, db, stt
<1>5. CASE CommitDelete(w)
  BY <1>5 DEF CommitDelete, Finish, Advance, TypeOK, db, stt
<1>6. ASSUME NEW j \in Ids, CommitDuplicate(w, j)
      PROVE  TypeOK'
  <2>1. Clone(job[w].base) \in Announcement
    BY <1>6, BusyJob, EditTypes DEF CommitDuplicate, Job
  <2>2. ann' \in [Ids -> Announcement \cup {None}] /\ used' \in SUBSET Ids
    BY <1>6, <2>1 DEF CommitDuplicate, TypeOK
  <2> QED BY <1>6, <2>2 DEF CommitDuplicate, Finish, Advance, TypeOK, stt
<1> QED BY <1>1, <1>2, <1>3, <1>4, <1>5, <1>6 DEF Commit

\* Every step keeps the types.
LEMMA NextType ==
  ASSUME TypeOK, ReferencesHold, HandlersSafe, [Next]_vars
  PROVE  TypeOK'
<1>1. ASSUME NEW i \in Ids, CreateSession(i)
      PROVE  TypeOK'
  BY <1>1, RowTypes DEF CreateSession, TypeOK, stt
<1>2. ASSUME NEW w \in Workers, Arrive(w) \/ Answered(w) \/ Persist(w) \/ Commit(w) \/ CommitDelete(w)
      PROVE  TypeOK'
  BY <1>2, ArriveType, AnsweredType, PersistType, EndType
<1>3. CASE Restart
  BY <1>3 DEF Restart, TypeOK, db, stt
<1>4. CASE UNCHANGED vars
  BY <1>4 DEF vars, TypeOK
<1> QED BY <1>1, <1>2, <1>3, <1>4 DEF Next

-----------------------------------------------------------------------------
(* The invariant. *)

IInv ==
  /\ TypeOK
  /\ ReferencesHold
  /\ RowsReviewed
  /\ HandlersSafe

\* The assignments of every handler keep what they must keep.
LEMMA HandlersEditKeeps ==
  ASSUME NEW a \in Announcement, Reviewed(a)
  PROVE  /\ EditKeeps(a, a)
         /\ \A t \in Titles : EditKeeps(a, Retitle(a, t))
         /\ a.draft.pipe # None => \A n \in Notices : EditKeeps(a, AddVariants(a, n))
         /\ \A p \in Pipelines \cup {None} : EditKeeps(a, PersistDraft(a, p))
         /\ \A c \in Covers : EditKeeps(a, [a EXCEPT !.cover = c])
<1>1. EditKeeps(a, a)
  BY DEF EditKeeps
<1>2. \A t \in Titles : EditKeeps(a, Retitle(a, t))
  BY DEF EditKeeps, Reviewed, Retitle, Announcement, Drafts
<1>3. a.draft.pipe # None => \A n \in Notices : EditKeeps(a, AddVariants(a, n))
  BY DEF EditKeeps, Reviewed, AddVariants, Announcement, Drafts
<1>4. \A p \in Pipelines \cup {None} : EditKeeps(a, PersistDraft(a, p))
  BY DEF EditKeeps, Reviewed, PersistDraft, Announcement, Drafts
<1>5. \A c \in Covers : EditKeeps(a, [a EXCEPT !.cover = c])
  BY DEF EditKeeps, Reviewed, Announcement
<1> QED BY <1>1, <1>2, <1>3, <1>4, <1>5

\* Merging such assignments into the row that has come of the loaded one keeps
\* the row reviewed, takes nothing from it and leaves it the draft they brought.
LEMMA MergeKeeps ==
  ASSUME NEW row \in Announcement, NEW base \in Announcement, NEW edit \in Announcement,
         Reviewed(row), EditKeeps(base, edit), Since(row, base)
  PROVE  LET m == Merge(row, base, edit) IN
         /\ Reviewed(m)
         /\ Since(m, row)
         /\ edit.draft.pipe # None => m.draft.pipe # None
         /\ m.status = row.status \/ row.draft.pipe # None
BY MergeAnnouncement DEF Reviewed, EditKeeps, Since

\* A row that no step sends back: what a handler knows of it stays true.
Grows ==
  /\ used \subseteq used'
  /\ \A i \in Ids :
       /\ ann[i] # None /\ ann'[i] # None => Since(ann'[i], ann[i])
       /\ ann[i] = None /\ i \in used => ann'[i] = None
       /\ sess[i] # None /\ sess'[i] = None => ~Pinned(i)

\* What has to be shown of a handler after a step.
LEMMA SafeAfter ==
  ASSUME NEW v \in Workers, NEW j, job'[v] = j,
         j.id \in used',
         (\/ j.kind \in ChatKinds /\ j.at = "commit"
          \/ j.kind \in TextKinds /\ j.at \in {"call", "flush"}) => sess'[j.id] # None,
         EditKeeps(j.base, j.edit),
         j.kind = "generate" => j.base.draft.pipe # None,
         ann'[j.id] # None => Since(ann'[j.id], j.base)
  PROVE  HandlerSafe(v)'
BY DEF HandlerSafe, Safe

\* A handler that does nothing in such a step stays consistent.
LEMMA Bystander ==
  ASSUME TypeOK, Grows, NEW v \in Workers, HandlerSafe(v), job'[v] = job[v]
  PROVE  HandlerSafe(v)'
<1> SUFFICES ASSUME NEW j, j = job[v], j # None
             PROVE  HandlerSafe(v)'
  BY DEF HandlerSafe
<1>1. j \in Job /\ j.id \in Ids
  BY DEF TypeOK, Job
<1>2. Safe(j)
  BY DEF HandlerSafe
<1>3. (\/ j.kind \in ChatKinds /\ j.at = "commit"
       \/ j.kind \in TextKinds /\ j.at \in {"call", "flush"}) => sess'[j.id] # None
  <2>1. (\/ j.kind \in ChatKinds /\ j.at = "commit"
         \/ j.kind \in TextKinds /\ j.at \in {"call", "flush"}) => sess[j.id] # None /\ Pinned(j.id)
    BY <1>2 DEF Safe, Pinned, Handling
  <2> QED BY <1>1, <2>1 DEF Grows
<1>4. ann'[j.id] # None => ann[j.id] # None /\ Since(ann'[j.id], ann[j.id])
  BY <1>1, <1>2 DEF Grows, Safe
<1>5. ann'[j.id] # None => Since(ann'[j.id], j.base)
  BY <1>2, <1>4 DEF Safe, Since
<1>6. j.id \in used'
  BY <1>2 DEF Safe, Grows
<1> QED BY <1>2, <1>3, <1>5, <1>6, SafeAfter DEF Safe

\* A step that leaves the database alone lets it grow.
LEMMA Unchanged ==
  ASSUME UNCHANGED db
  PROVE  Grows
BY DEF Grows, Since, db

\* The part of the invariant that speaks of the database stays when that does.
LEMMA RowsUnchanged ==
  ASSUME IInv, UNCHANGED db
  PROVE  ReferencesHold' /\ RowsReviewed'
BY DEF IInv, ReferencesHold, RowsReviewed, db

\* A step of one handler keeps the invariant when it lets the database grow, keeps
\* its rows right, and leaves that handler idle or consistent.
LEMMA OneHandlerSteps ==
  ASSUME IInv, TypeOK', Grows, ReferencesHold', RowsReviewed',
         NEW w \in Workers, \A v \in Workers \ {w} : job'[v] = job[v], HandlerSafe(w)'
  PROVE  IInv'
<1>1. \A v \in Workers : HandlerSafe(v)'
  BY Bystander DEF IInv, HandlersSafe
<1> QED BY <1>1 DEF IInv, HandlersSafe

\* A handler that is done is consistent.
LEMMA IdleSafe ==
  ASSUME NEW w \in Workers, job'[w] = None
  PROVE  HandlerSafe(w)'
BY DEF HandlerSafe

\* A request that has just been loaded is consistent.
LEMMA LoadedSafe ==
  ASSUME IInv, UNCHANGED db, NEW w \in Workers, NEW i \in Ids,
         NEW kind \in Kinds, NEW at \in {"call", "flush", "commit", "delete", "stream"},
         NEW s \in Session, NEW a \in Announcement, NEW e \in Announcement,
         i \in used,
         kind \in ChatKinds => sess[i] # None,
         s = sess[i] \/ s = NewSession,
         a = ann[i] \/ a = NewAnnouncement,
         EditKeeps(a, e),
         kind = "generate" => a.draft.pipe # None,
         job'[w] = [Request(kind, at, i, s, a) EXCEPT !.edit = e]
  PROVE  HandlerSafe(w)'
<1> DEFINE j == [Request(kind, at, i, s, a) EXCEPT !.edit = e]
<1>1. /\ j.id = i /\ j.kind = kind /\ j.at = at /\ j.old = s /\ j.new = s
      /\ j.base = a /\ j.edit = e
  BY DEF Request
<1>2. ann[i] # None => Since(ann[i], a)
  BY DEF Since, NewAnnouncement, NoDraft
<1>3. ChatKinds \cap TextKinds = TextKinds
  BY DEF ChatKinds
<1> HIDE DEF j
<1>4. job'[w] = j
  BY DEF j
<1>5. HandlerSafe(w)'
  <2>1. sess' = sess /\ ann' = ann /\ used' = used
    BY DEF db
  <2>2. (\/ j.kind \in ChatKinds /\ j.at = "commit"
         \/ j.kind \in TextKinds /\ j.at \in {"call", "flush"}) => sess'[j.id] # None
    BY <1>1, <1>3, <2>1
  <2>3. ann'[j.id] # None => Since(ann'[j.id], j.base)
    BY <1>1, <1>2, <2>1
  <2> QED BY <1>1, <1>4, <2>1, <2>2, <2>3, SafeAfter
<1> QED BY <1>5

\* The null announcement keeps itself.
LEMMA NullKeeps == Reviewed(NewAnnouncement) /\ EditKeeps(NewAnnouncement, NewAnnouncement)
BY DEF EditKeeps, Reviewed, NewAnnouncement, NoDraft

\* A request that arrives keeps the invariant.
LEMMA ArriveKeeps ==
  ASSUME IInv, NEW w \in Workers, Arrive(w)
  PROVE  IInv'
<1>1. TypeOK'
  BY ArriveType DEF IInv
<1>2. UNCHANGED db
  BY DEF Arrive, SendMessage, UploadVoice, UploadImages, GeneratePlatformDrafts, UpdateAnnouncement,
     UpdatePlatformVariant, DuplicateAnnouncement, DeleteAnnouncement
<1>3. \A v \in Workers \ {w} : job'[v] = job[v]
  BY DEF Arrive, SendMessage, UploadVoice, UploadImages, GeneratePlatformDrafts, UpdateAnnouncement,
     UpdatePlatformVariant, DuplicateAnnouncement, DeleteAnnouncement, Begin, IInv, TypeOK
<1>4. HandlerSafe(w)'
  <2> PICK i \in Ids :
        \/ \E kind \in TextKinds : SendMessage(w, i, kind)
        \/ UploadVoice(w, i)
        \/ UploadImages(w, i)
        \/ GeneratePlatformDrafts(w, i)
        \/ \E t \in Titles : UpdateAnnouncement(w, i, t)
        \/ \E n \in Notices : UpdatePlatformVariant(w, i, n)
        \/ DuplicateAnnouncement(w, i)
        \/ DeleteAnnouncement(w, i)
    BY DEF Arrive
  <2>1. /\ sess[i] # None => sess[i] \in Session
        /\ ann[i] # None => ann[i] \in Announcement /\ Reviewed(ann[i]) /\ i \in used
    BY DEF IInv, TypeOK, RowsReviewed, ReferencesHold
  <2>2. TypeOK
    BY DEF IInv
  <2>3. ASSUME NEW kind \in ChatKinds, RequireSession(i),
               Begin(w, kind, Request(kind, "call", i, sess[i], NewAnnouncement))
        PROVE  HandlerSafe(w)'
    <3>1. job'[w] = [Request(kind, "call", i, sess[i], NewAnnouncement) EXCEPT !.edit = NewAnnouncement]
      BY <2>2, <2>3 DEF Begin, TypeOK, Request
    <3>2. kind \in Kinds /\ kind # "generate"
      BY DEF Kinds, ChatKinds, TextKinds
    <3> QED BY <1>2, <2>1, <2>3, <3>1, <3>2, RowTypes, NullKeeps, LoadedSafe DEF RequireSession
  <2>4. ASSUME NEW kind \in TextKinds, SendMessage(w, i, kind)
        PROVE  HandlerSafe(w)'
    BY <2>3, <2>4 DEF SendMessage, ChatKinds
  <2>5. CASE UploadVoice(w, i)
    BY <2>3, <2>5 DEF UploadVoice, ChatKinds
  <2>6. CASE UploadImages(w, i)
    BY <2>3, <2>6 DEF UploadImages, ChatKinds
  <2>7. CASE GeneratePlatformDrafts(w, i)
    <3>1. job'[w] = [Request("generate", "call", i, sess[i], ann[i]) EXCEPT !.edit = ann[i]]
      BY <2>2, <2>7 DEF GeneratePlatformDrafts, Begin, TypeOK, Request
    <3>2. /\ sess[i] # None /\ ann[i] # None /\ ann[i].draft.pipe # None
          /\ "generate" \in Kinds
      BY <2>7 DEF GeneratePlatformDrafts, RequireSession, CanGeneratePlatformDrafts, Kinds, EditKinds
    <3>3. EditKeeps(ann[i], ann[i])
      BY <2>1, <3>2, HandlersEditKeeps
    <3> QED BY <1>2, <2>1, <3>1, <3>2, <3>3, LoadedSafe
  <2>8. ASSUME NEW t \in Titles, UpdateAnnouncement(w, i, t)
        PROVE  HandlerSafe(w)'
    <3>1. /\ job'[w] = [Request("patch", "commit", i, NewSession, ann[i]) EXCEPT !.edit = Retitle(ann[i], t)]
          /\ ann[i] # None
      BY <2>2, <2>8 DEF UpdateAnnouncement, Begin, TypeOK
    <3>2. "patch" \in Kinds /\ "patch" \notin ChatKinds
      BY DEF Kinds, EditKinds, ChatKinds, TextKinds
    <3>3. EditKeeps(ann[i], Retitle(ann[i], t)) /\ Retitle(ann[i], t) \in Announcement
      BY <2>1, <3>1, HandlersEditKeeps, EditTypes
    <3> QED BY <1>2, <2>1, <3>1, <3>2, <3>3, RowTypes, LoadedSafe
  <2>9. ASSUME NEW n \in Notices, UpdatePlatformVariant(w, i, n)
        PROVE  HandlerSafe(w)'
    <3>1. /\ job'[w] = [Request("variant", "commit", i, NewSession, ann[i]) EXCEPT !.edit = AddVariants(ann[i], n)]
          /\ ann[i] # None /\ ann[i].draft.pipe # None
      BY <2>2, <2>9 DEF UpdatePlatformVariant, Begin, TypeOK
    <3>2. "variant" \in Kinds /\ "variant" \notin ChatKinds
      BY DEF Kinds, EditKinds, ChatKinds, TextKinds
    <3>3. EditKeeps(ann[i], AddVariants(ann[i], n)) /\ AddVariants(ann[i], n) \in Announcement
      BY <2>1, <3>1, HandlersEditKeeps, EditTypes
    <3> QED BY <1>2, <2>1, <3>1, <3>2, <3>3, RowTypes, LoadedSafe
  <2>10. CASE DuplicateAnnouncement(w, i)
    <3>1. /\ job'[w] = [Request("duplicate", "commit", i, NewSession, ann[i]) EXCEPT !.edit = ann[i]]
          /\ ann[i] # None
      BY <2>2, <2>10 DEF DuplicateAnnouncement, Begin, TypeOK, Request
    <3>2. "duplicate" \in Kinds /\ "duplicate" \notin ChatKinds
      BY DEF Kinds, ChatKinds, TextKinds
    <3>3. EditKeeps(ann[i], ann[i])
      BY <2>1, <3>1, HandlersEditKeeps
    <3> QED BY <1>2, <2>1, <3>1, <3>2, <3>3, RowTypes, LoadedSafe
  <2>11. CASE DeleteAnnouncement(w, i)
    <3>1. /\ job'[w] = [Request("delete", "delete", i, NewSession, NewAnnouncement) EXCEPT !.edit = NewAnnouncement]
          /\ ann[i] # None
      BY <2>2, <2>11 DEF DeleteAnnouncement, Begin, TypeOK, Request
    <3>2. "delete" \in Kinds /\ "delete" \notin ChatKinds
      BY DEF Kinds, EditKinds, ChatKinds, TextKinds
    <3> QED BY <1>2, <2>1, <3>1, <3>2, RowTypes, NullKeeps, LoadedSafe
  <2> QED BY <2>4, <2>5, <2>6, <2>7, <2>8, <2>9, <2>10, <2>11
<1> QED BY <1>1, <1>2, <1>3, <1>4, Unchanged, RowsUnchanged, OneHandlerSteps

\* An answer that leaves a handler with another job on the same rows, the same
\* announcement objects, keeps the
\* invariant.
LEMMA AdvanceKeeps ==
  ASSUME IInv, TypeOK', UNCHANGED db, NEW w \in Workers, job[w] # None,
         NEW j, job' = [job EXCEPT ![w] = j],
         j.id = job[w].id, j.kind = job[w].kind, j.old = job[w].old, j.base = job[w].base,
         EditKeeps(j.base, j.edit),
         j.at = "commit" => j.kind \notin ChatKinds,
         j.at \in {"call", "flush"} => job[w].at \in {"call", "flush"}
  PROVE  IInv'
<1>1. Safe(job[w]) /\ job' \in [Workers -> Job \cup {None}] /\ job'[w] = j
  BY DEF IInv, TypeOK, HandlersSafe, HandlerSafe
<1>2. sess' = sess /\ ann' = ann /\ used' = used
  BY DEF db
<1>3. (\/ j.kind \in ChatKinds /\ j.at = "commit"
       \/ j.kind \in TextKinds /\ j.at \in {"call", "flush"}) => sess'[j.id] # None
  BY <1>1, <1>2 DEF Safe
<1>4. ann'[j.id] # None => Since(ann'[j.id], j.base)
  BY <1>1, <1>2 DEF Safe
<1>5. HandlerSafe(w)'
  BY <1>1, <1>2, <1>3, <1>4, SafeAfter DEF Safe
<1>6. \A v \in Workers \ {w} : job'[v] = job[v]
  BY DEF IInv, TypeOK
<1> QED BY <1>5, <1>6, Unchanged, RowsUnchanged, OneHandlerSteps

\* A handler that ends without a trace keeps the invariant.
LEMMA FinishKeeps ==
  ASSUME IInv, TypeOK', UNCHANGED db, NEW w \in Workers, Finish(w)
  PROVE  IInv'
<1>1. job'[w] = None /\ \A v \in Workers \ {w} : job'[v] = job[v]
  BY DEF Finish, Advance, IInv, TypeOK
<1> QED BY <1>1, IdleSafe, Unchanged, RowsUnchanged, OneHandlerSteps

\* The reply of a pipeline keeps the invariant.
LEMMA ReceiveKeeps ==
  ASSUME IInv, NEW w \in Workers, NEW p \in Pipelines, NEW r \in Replies,
         NEW kinds, Handling(w, kinds, "call"), Receive(w, p, r)
  PROVE  IInv'
<1> DEFINE n == AfterReply(job[w].old, p, turns[p] + 1, r)
           d == IF Completes(r) THEN p ELSE None
           j == [job[w] EXCEPT !.at = "flush", !.new = n, !.draft = d]
<1>1. TypeOK'
  BY ReceiveType DEF IInv
<1>2. /\ job[w] \in Job /\ job[w] # None /\ job[w].at = "call"
      /\ EditKeeps(job[w].base, job[w].edit)
  BY BusyJob, RowTypes DEF IInv, HandlersSafe, HandlerSafe, Safe, Handling
<1>3. /\ j.id = job[w].id /\ j.kind = job[w].kind /\ j.old = job[w].old
      /\ j.base = job[w].base /\ j.edit = job[w].edit /\ j.at = "flush"
  BY <1>2 DEF Job
<1>4. job' = [job EXCEPT ![w] = j] /\ UNCHANGED db
  BY DEF Receive, Advance
<1> HIDE DEF j, n, d
<1> QED BY <1>1, <1>2, <1>3, <1>4, AdvanceKeeps

\* Every end of a call keeps the invariant.
LEMMA AnsweredKeeps ==
  ASSUME IInv, NEW w \in Workers, Answered(w)
  PROVE  IInv'
<1>1. TypeOK'
  BY AnsweredType DEF IInv
<1>2. job[w] # None => job[w] \in Job /\ Safe(job[w])
  BY DEF IInv, TypeOK, HandlersSafe, HandlerSafe
<1>3. ASSUME NEW p \in Pipelines, NEW r \in Replies, StartPipeline(w, p, r)
      PROVE  IInv'
  BY <1>3, ReceiveKeeps DEF StartPipeline, TextKinds
<1>4. ASSUME NEW r \in Replies, AnswerPipeline(w, r)
      PROVE  IInv'
  <2>1. job[w].old.stt \in Pipelines
    BY <1>4, BusyJob DEF AnswerPipeline, IsAnswer, Job, Session, IInv
  <2> QED BY <1>4, <2>1, ReceiveKeeps DEF AnswerPipeline, TextKinds
<1>5. ASSUME NEW r \in Replies, AnswerLost(w, r)
      PROVE  IInv'
  BY <1>1, <1>5, FinishKeeps DEF AnswerLost
<1>6. CASE NothingToProcess(w)
  <2> DEFINE j == [job[w] EXCEPT !.at = "flush", !.new.stage = StageWithNothingToProcess(@)]
  <2>1. job[w] # None /\ job[w] \in Job /\ job[w].at = "call"
    BY <1>2, <1>6 DEF NothingToProcess, Handling
  <2>2. /\ j.id = job[w].id /\ j.kind = job[w].kind /\ j.old = job[w].old
        /\ j.base = job[w].base /\ j.edit = job[w].edit /\ j.at = "flush"
    BY <2>1 DEF Job
  <2>3. job' = [job EXCEPT ![w] = j] /\ UNCHANGED db
    BY <1>6 DEF NothingToProcess, Advance
  <2> HIDE DEF j
  <2>4. EditKeeps(j.base, j.edit)
    BY <1>2, <2>1, <2>2 DEF Safe
  <2> QED BY <1>1, <2>1, <2>2, <2>3, <2>4, AdvanceKeeps
<1>7. CASE SelectRepresentative(w)
  <2> DEFINE j == [job[w] EXCEPT !.at = "flush", !.new.stage = StageAfterPhotos(@)]
  <2>1. job[w] # None /\ job[w] \in Job /\ job[w].at = "call"
    BY <1>2, <1>7 DEF SelectRepresentative, Handling
  <2>2. /\ j.id = job[w].id /\ j.kind = job[w].kind /\ j.old = job[w].old
        /\ j.base = job[w].base /\ j.edit = job[w].edit /\ j.at = "flush"
    BY <2>1 DEF Job
  <2>3. job' = [job EXCEPT ![w] = j] /\ UNCHANGED db
    BY <1>7 DEF SelectRepresentative, Advance
  <2> HIDE DEF j
  <2>4. EditKeeps(j.base, j.edit)
    BY <1>2, <2>1, <2>2 DEF Safe
  <2> QED BY <1>1, <2>1, <2>2, <2>3, <2>4, AdvanceKeeps
<1>8. ASSUME NEW n \in Notices, GenerateAll(w, n)
      PROVE  IInv'
  <2> DEFINE j == [job[w] EXCEPT !.at = "commit", !.edit = AddVariants(job[w].base, n)]
  <2>1. job[w] # None /\ job[w] \in Job /\ job[w].at = "call" /\ job[w].kind = "generate"
    BY <1>2, <1>8 DEF GenerateAll, Handling
  <2>2. /\ j.id = job[w].id /\ j.kind = job[w].kind /\ j.old = job[w].old
        /\ j.base = job[w].base /\ j.edit = AddVariants(job[w].base, n) /\ j.at = "commit"
    BY <2>1 DEF Job
  <2>3. job' = [job EXCEPT ![w] = j] /\ UNCHANGED db
    BY <1>8 DEF GenerateAll, Advance
  <2> HIDE DEF j
  <2>4. EditKeeps(j.base, j.edit)
    BY <1>2, <2>1, <2>2, HandlersEditKeeps DEF Safe, EditKeeps, Job
  <2>5. j.kind \notin ChatKinds
    BY <2>1, <2>2 DEF ChatKinds, TextKinds
  <2> QED BY <1>1, <2>1, <2>2, <2>3, <2>4, <2>5, AdvanceKeeps
<1>9. CASE CallFails(w)
  BY <1>1, <1>9, FinishKeeps DEF CallFails
<1> QED BY <1>3, <1>4, <1>5, <1>6, <1>7, <1>8, <1>9 DEF Answered

\* Saving what a handler has keeps the invariant: it now holds the announcement
\* as it is.
LEMMA PersistKeeps ==
  ASSUME IInv, NEW w \in Workers, Persist(w)
  PROVE  IInv'
<1> DEFINE i == job[w].id
<1>1. TypeOK'
  BY PersistType DEF IInv
<1>2. /\ job[w] # None /\ job[w] \in Job /\ i \in Ids /\ Safe(job[w])
      /\ job[w].at = "flush" /\ job[w].kind \in ChatKinds
  BY BusyJob DEF Persist, PersistReply, PersistPhotos, Handling, IInv, HandlersSafe,
     HandlerSafe, ChatKinds
<1>3. sess[i] # None /\ ann[i] \in Announcement /\ ann[i] # None /\ Reviewed(ann[i])
  BY <1>2 DEF Persist, PersistReply, PersistPhotos, Flush, IInv, ReferencesHold, RowsReviewed, TypeOK
<1>4. PICK a \in Announcement :
        /\ job' = [job EXCEPT ![w] = [job[w] EXCEPT !.at = "commit", !.base = ann[i], !.edit = a]]
        /\ EditKeeps(ann[i], a)
  <2>1. CASE PersistReply(w)
    <3> DEFINE a == PersistDraft(ann[i], job[w].draft)
    <3>1. a \in Announcement /\ EditKeeps(ann[i], a)
      BY <1>2, <1>3, EditTypes, HandlersEditKeeps DEF Job
    <3>2. job' = [job EXCEPT ![w] = [job[w] EXCEPT !.at = "commit", !.base = ann[i], !.edit = a]]
      BY <2>1 DEF PersistReply, Flush, Advance
    <3> QED BY <3>1, <3>2
  <2>2. ASSUME NEW c \in Covers, PersistPhotos(w, c)
        PROVE  \E a \in Announcement :
                 /\ job' = [job EXCEPT ![w] = [job[w] EXCEPT !.at = "commit", !.base = ann[i], !.edit = a]]
                 /\ EditKeeps(ann[i], a)
    <3> DEFINE a == [ann[i] EXCEPT !.cover = c]
    <3>1. a \in Announcement /\ EditKeeps(ann[i], a)
      BY <1>3, EditTypes, HandlersEditKeeps
    <3>2. job' = [job EXCEPT ![w] = [job[w] EXCEPT !.at = "commit", !.base = ann[i], !.edit = a]]
      BY <2>2 DEF PersistPhotos, Flush, Advance
    <3> QED BY <3>1, <3>2
  <2> QED BY <2>1, <2>2 DEF Persist
<1> DEFINE j == [job[w] EXCEPT !.at = "commit", !.base = ann[i], !.edit = a]
<1>5. /\ j.id = i /\ j.kind = job[w].kind /\ j.old = job[w].old /\ j.new = job[w].new
      /\ j.at = "commit" /\ j.base = ann[i] /\ j.edit = a
  BY <1>2 DEF Job
<1>6. UNCHANGED db /\ \A v \in Workers \ {w} : job'[v] = job[v]
  BY <1>4 DEF Persist, PersistReply, PersistPhotos, Flush, IInv, TypeOK
<1>7. job'[w] = j
  BY <1>4 DEF IInv, TypeOK
<1> HIDE DEF j
<1>8. ann'[j.id] # None => Since(ann'[j.id], j.base)
  BY <1>5, <1>6 DEF Since, db
<1>9. HandlerSafe(w)'
  BY <1>2, <1>3, <1>4, <1>5, <1>6, <1>7, <1>8, SafeAfter DEF Safe, db, ChatKinds, TextKinds
<1> QED BY <1>1, <1>6, <1>9, Unchanged, RowsUnchanged, OneHandlerSteps

\* A commit of a chat handler keeps the invariant: its stale objects are merged
\* into rows that have only gained since.
LEMMA CommitChatKeeps ==
  ASSUME IInv, NEW w \in Workers, CommitChat(w)
  PROVE  IInv' /\ Grows
<1> DEFINE j == job[w]
           i == job[w].id
           r == Merge(sess[i], j.old, j.new)
           m == Merge(ann[i], j.base, j.edit)
<1>1. j \in Job /\ i \in Ids /\ j.kind \in ChatKinds /\ j.at = "commit" /\ Safe(j)
  BY BusyJob DEF CommitChat, Handling, IInv, HandlersSafe, HandlerSafe
<1>2. sess[i] \in Session /\ sess[i] # None /\ ann[i] \in Announcement /\ ann[i] # None /\ Reviewed(ann[i])
  BY <1>1 DEF Safe, IInv, TypeOK, ReferencesHold, RowsReviewed
<1>3. /\ j.old \in Session /\ j.new \in Session /\ j.base \in Announcement /\ j.edit \in Announcement
      /\ EditKeeps(j.base, j.edit) /\ Since(ann[i], j.base)
  BY <1>1, <1>2 DEF Job, Safe
<1>4. m \in Announcement /\ Reviewed(m) /\ Since(m, ann[i])
  BY <1>2, <1>3, MergeAnnouncement, MergeKeeps
<1>5. r \in Session
  BY <1>2, <1>3, MergeSession
<1>6. r # None /\ m # None
  BY <1>4, <1>5, RowTypes
<1>7. sess' = [sess EXCEPT ![i] = r] /\ ann' = [ann EXCEPT ![i] = m] /\ msgs' = msgs \cup {i} /\ used' = used
  BY DEF CommitChat
<1> HIDE DEF r, m
<1>8. TypeOK'
  BY EndType DEF IInv, Commit
<1>9. Grows
  BY <1>1, <1>2, <1>4, <1>6, <1>7 DEF Grows, Since, IInv, TypeOK
<1>10. ReferencesHold'
  BY <1>1, <1>2, <1>6, <1>7 DEF ReferencesHold, IInv, TypeOK
<1>11. RowsReviewed'
  BY <1>1, <1>4, <1>7 DEF RowsReviewed, Reviewed, IInv, TypeOK
<1>12. \A v \in Workers \ {w} : job'[v] = job[v]
  BY DEF CommitChat, Advance, IInv, TypeOK
<1>13. HandlerSafe(w)'
  <2>1. CASE j.kind # "stream"
    BY <2>1, IdleSafe DEF CommitChat, Advance, IInv, TypeOK
  <2>2. CASE j.kind = "stream"
    <3> DEFINE k == Request("stream", "stream", i, NewSession, NewAnnouncement)
    <3>1. job'[w] = k
      BY <2>2 DEF CommitChat, Advance, IInv, TypeOK
    <3>2. /\ k.id = i /\ k.at = "stream" /\ k.kind = "stream"
          /\ k.base = NewAnnouncement /\ k.edit = NewAnnouncement
      BY DEF Request
    <3> HIDE DEF k
    <3>3. EditKeeps(k.base, k.edit)
      BY <3>2, NullKeeps
    <3>4. ann'[k.id] # None => Since(ann'[k.id], k.base)
      BY <3>2 DEF Since, NewAnnouncement, NoDraft
    <3>5. k.id \in used'
      BY <1>1, <1>7, <3>2 DEF Safe
    <3> QED BY <3>1, <3>2, <3>3, <3>4, <3>5, SafeAfter
  <2> QED BY <2>1, <2>2
<1> QED BY <1>8, <1>9, <1>10, <1>11, <1>12, <1>13, OneHandlerSteps

\* So does a commit of the other handlers that change an announcement.
LEMMA CommitEditKeeps ==
  ASSUME IInv, NEW w \in Workers, CommitEdit(w)
  PROVE  IInv' /\ Grows
<1> DEFINE j == job[w]
           i == job[w].id
           m == Merge(ann[i], j.base, j.edit)
<1>1. j \in Job /\ i \in Ids /\ Safe(j) /\ ann[i] # None
  BY BusyJob DEF CommitEdit, Handling, IInv, HandlersSafe, HandlerSafe
<1>2. ann[i] \in Announcement /\ Reviewed(ann[i])
  BY <1>1 DEF IInv, TypeOK, RowsReviewed
<1>3. /\ j.base \in Announcement /\ j.edit \in Announcement
      /\ EditKeeps(j.base, j.edit) /\ Since(ann[i], j.base)
  BY <1>1 DEF Job, Safe
<1>4. m \in Announcement /\ Reviewed(m) /\ Since(m, ann[i]) /\ m # None
  BY <1>2, <1>3, MergeAnnouncement, MergeKeeps, RowTypes
<1>5. ann' = [ann EXCEPT ![i] = m] /\ UNCHANGED <<sess, msgs, used>>
  BY DEF CommitEdit
<1> HIDE DEF m
<1>6. TypeOK'
  BY EndType DEF IInv, Commit
<1>7. Grows
  BY <1>1, <1>4, <1>5 DEF Grows, Since, IInv, TypeOK
<1>8. ReferencesHold'
  BY <1>1, <1>4, <1>5 DEF ReferencesHold, IInv, TypeOK
<1>9. RowsReviewed'
  BY <1>1, <1>4, <1>5 DEF RowsReviewed, Reviewed, IInv, TypeOK
<1>10. job'[w] = None /\ \A v \in Workers \ {w} : job'[v] = job[v]
  BY DEF CommitEdit, Finish, Advance, IInv, TypeOK
<1> QED BY <1>6, <1>7, <1>8, <1>9, <1>10, IdleSafe, OneHandlerSteps

\* A deletion waits until no open transaction needs the session, and fails when a
\* message it did not see is left.
LEMMA CommitDeleteKeeps ==
  ASSUME IInv, NEW w \in Workers, CommitDelete(w)
  PROVE  IInv' /\ Grows
<1>1. TypeOK'
  BY EndType DEF IInv
<1>2. CASE w \in missed
  BY <1>1, <1>2, FinishKeeps, Unchanged DEF CommitDelete, StillReferenced
<1>3. CASE w \notin missed
  <2> DEFINE i == job[w].id
  <2>1. i \in Ids /\ ~Pinned(i)
    BY BusyJob DEF CommitDelete, IInv
  <2>2. /\ sess' = [sess EXCEPT ![i] = None] /\ ann' = [ann EXCEPT ![i] = None]
        /\ msgs' = msgs \ {i} /\ used' = used
    BY <1>3 DEF CommitDelete, StillReferenced
  <2>3. Grows
    BY <2>1, <2>2 DEF Grows, Since, IInv, TypeOK
  <2>4. ReferencesHold'
    BY <2>1, <2>2 DEF ReferencesHold, IInv, TypeOK
  <2>5. RowsReviewed'
    BY <2>1, <2>2 DEF RowsReviewed, Reviewed, IInv, TypeOK
  <2>6. job'[w] = None /\ \A v \in Workers \ {w} : job'[v] = job[v]
    BY DEF CommitDelete, Finish, Advance, IInv, TypeOK
  <2> QED BY <1>1, <2>3, <2>4, <2>5, <2>6, IdleSafe, OneHandlerSteps
<1> QED BY <1>2, <1>3

\* A step that no handler takes and that lets the database grow keeps the handlers.
LEMMA NoHandlerSteps ==
  ASSUME IInv, Grows, UNCHANGED job
  PROVE  HandlersSafe'
BY Bystander DEF IInv, HandlersSafe

\* A new session and its new announcement keep the invariant.
LEMMA CreateSessionKeeps ==
  ASSUME IInv, NEW i \in Ids, CreateSession(i)
  PROVE  IInv' /\ Grows
<1>1. TypeOK'
  BY NextType DEF IInv, Next
<1>2. ann[i] = None /\ sess[i] = None /\ i \notin msgs
  BY DEF CreateSession, IInv, ReferencesHold
<1>3. Grows
  BY <1>2 DEF CreateSession, Grows, Since, IInv, TypeOK
<1>4. ReferencesHold'
  BY <1>2, RowTypes DEF CreateSession, ReferencesHold, IInv, TypeOK
<1>5. RowsReviewed'
  BY NullKeeps DEF CreateSession, RowsReviewed, Reviewed, IInv, TypeOK
<1> QED BY <1>1, <1>3, <1>4, <1>5, NoHandlerSteps DEF CreateSession, IInv

\* A copy is reviewed when its original is.
LEMMA CloneReviewed ==
  ASSUME NEW a \in Announcement, Reviewed(a)
  PROVE  /\ Reviewed(Clone(a))
         /\ Clone(a).draft.pipe = a.draft.pipe
         /\ Clone(a).status = "in_review" => a.status = "in_review"
BY DEF Reviewed, Clone, Announcement, Drafts

\* A copy of what a handler loaded keeps the invariant.
LEMMA CommitDuplicateKeeps ==
  ASSUME IInv, NEW w \in Workers, NEW j \in Ids, CommitDuplicate(w, j)
  PROVE  IInv' /\ Grows
<1> DEFINE a == job[w].base
<1>1. TypeOK'
  BY EndType DEF IInv, Commit
<1>2. ann[j] = None /\ sess[j] = None /\ j \notin msgs /\ j \notin used
  BY DEF CommitDuplicate, IInv, ReferencesHold
<1>3. job[w] \in Job /\ Safe(job[w])
  BY BusyJob DEF CommitDuplicate, Handling, IInv, HandlersSafe, HandlerSafe
<1>4. a \in Announcement /\ Reviewed(a)
  BY <1>3 DEF Job, Safe, EditKeeps
<1>5. Clone(a) \in Announcement /\ Clone(a) # None /\ Reviewed(Clone(a))
  BY <1>4, EditTypes, RowTypes, CloneReviewed
<1>6. ann' = [ann EXCEPT ![j] = Clone(a)] /\ UNCHANGED <<sess, msgs>> /\ used' = used \cup {j}
  BY DEF CommitDuplicate
<1> HIDE DEF a
<1>7. Grows
  BY <1>2, <1>6 DEF Grows, Since, IInv, TypeOK
<1>8. ReferencesHold'
  BY <1>2, <1>6 DEF ReferencesHold, IInv, TypeOK
<1>9. RowsReviewed'
  BY <1>5, <1>6 DEF RowsReviewed, Reviewed, IInv, TypeOK
<1>10. job'[w] = None /\ \A v \in Workers \ {w} : job'[v] = job[v]
  BY DEF CommitDuplicate, Finish, Advance, IInv, TypeOK
<1> QED BY <1>1, <1>7, <1>8, <1>9, <1>10, IdleSafe, OneHandlerSteps

\* A restart keeps the rows and forgets the handlers.
LEMMA RestartKeeps ==
  ASSUME IInv, Restart
  PROVE  IInv'
<1>1. TypeOK'
  BY NextType DEF IInv, Next
<1>2. HandlersSafe'
  BY DEF Restart, HandlersSafe, HandlerSafe
<1> QED BY <1>1, <1>2, RowsUnchanged DEF Restart, IInv

\* The empty database satisfies the invariant.
LEMMA InitInvariant == Init => IInv
BY BoundAssumption
DEF Init, IInv, TypeOK, ReferencesHold, RowsReviewed, HandlersSafe,
    HandlerSafe

\* Every step keeps the invariant and lets the database grow.
LEMMA NextInvariant ==
  ASSUME IInv, [Next]_vars
  PROVE  IInv' /\ Grows
<1>1. ASSUME NEW i \in Ids, CreateSession(i)
      PROVE  IInv' /\ Grows
  BY <1>1, CreateSessionKeeps
<1>2. ASSUME NEW j \in Ids, NEW w \in Workers, CommitDuplicate(w, j)
      PROVE  IInv' /\ Grows
  BY <1>2, CommitDuplicateKeeps
<1>3. ASSUME NEW w \in Workers, Arrive(w) \/ Answered(w) \/ Persist(w)
      PROVE  IInv' /\ Grows
  <2>1. CASE Arrive(w)
    BY <2>1, ArriveKeeps, Unchanged DEF Arrive, SendMessage, UploadVoice, UploadImages,
       GeneratePlatformDrafts, UpdateAnnouncement, UpdatePlatformVariant, DuplicateAnnouncement,
       DeleteAnnouncement
  <2>2. CASE Answered(w)
    BY <2>2, AnsweredKeeps, Unchanged DEF Answered, StartPipeline, AnswerPipeline, Receive, AnswerLost,
       NothingToProcess, SelectRepresentative, GenerateAll, CallFails
  <2>3. CASE Persist(w)
    BY <2>3, PersistKeeps, Unchanged DEF Persist, PersistReply, PersistPhotos, Flush
  <2> QED BY <1>3, <2>1, <2>2, <2>3
<1>4. ASSUME NEW w \in Workers, Commit(w) \/ CommitDelete(w)
      PROVE  IInv' /\ Grows
  <2>1. TypeOK'
    BY <1>4, EndType DEF IInv
  <2>2. CASE RowGone(w)
    BY <2>1, <2>2, FinishKeeps, Unchanged DEF RowGone
  <2>3. CASE EndStream(w)
    BY <2>1, <2>3, FinishKeeps, Unchanged DEF EndStream
  <2> QED BY <1>2, <1>4, <2>2, <2>3, CommitChatKeeps, CommitEditKeeps, CommitDeleteKeeps DEF Commit
<1>5. CASE Restart
  BY <1>5, RestartKeeps, Unchanged DEF Restart
<1>6. CASE UNCHANGED vars
  <2>1. TypeOK' /\ HandlersSafe'
    BY <1>6 DEF vars, IInv, TypeOK, HandlersSafe, HandlerSafe, Safe, EditKeeps,
       Reviewed, Since
  <2> QED BY <1>6, <2>1, RowsUnchanged, Unchanged DEF vars, db, IInv
<1> QED BY <1>1, <1>3, <1>4, <1>5, <1>6 DEF Next

-----------------------------------------------------------------------------
(* The theorems. *)

\* The inductive invariant holds in every run.
THEOREM Invariance == Spec => []IInv
<1>1. Init => IInv
  BY InitInvariant
<1>2. IInv /\ [Next]_vars => IInv'
  BY NextInvariant
<1> QED BY <1>1, <1>2, PTL DEF Spec

\* The types of the variables, and with them that no session ever reaches a stage
\* in which the chat router would turn the owner away.
THEOREM TypeCorrect == Spec => []TypeOK
<1>1. IInv => TypeOK
  BY DEF IInv
<1> QED BY <1>1, Invariance, PTL

\* No message without its session, no session without its announcement, whatever
\* is sent while announcements are deleted.
THEOREM References == Spec => []ReferencesHold
<1>1. IInv => ReferencesHold
  BY DEF IInv
<1> QED BY <1>1, Invariance, PTL

\* An announcement with platform variants is in review, and one in review has a draft.
THEOREM Variants == Spec => []RowsReviewed
<1>1. IInv => RowsReviewed
  BY DEF IInv
<1> QED BY <1>1, Invariance, PTL

-----------------------------------------------------------------------------
(* ChatWorkflow implements AnnouncementLifecycle. *)

Lives == [i \in Ids |-> Life(i)]

\* The lifecycle of an announcement depends on its row and on used alone.
LEMMA LifeSame ==
  ASSUME NEW i \in Ids, ann'[i] = ann[i], (i \in used') <=> (i \in used)
  PROVE  Life(i)' = Life(i)
BY DEF Life

\* The life of an announcement that has a row.
LEMMA LifeOfRow ==
  ASSUME IInv, NEW i \in Ids, ann[i] # None
  PROVE  /\ ann[i] \in Announcement /\ Reviewed(ann[i])
         /\ Life(i) = IF ann[i].status = "in_review" THEN "in_review"
                      ELSE IF ann[i].draft.pipe # None THEN "drafted" ELSE "empty"
BY DEF Life, IInv, TypeOK, RowsReviewed, Announcement

\* A step that changes one announcement in a way that its life allows.
LEMMA OneLifeChanges ==
  ASSUME NEW i \in Ids, \A k \in Ids \ {i} : Life(k)' = Life(k), NEW l, Life(i)' = l
  PROVE  Lives' = [Lives EXCEPT ![i] = l]
BY DEF Lives

\* A row that gains a draft, or review when it had a draft, goes on in its life.
LEMMA GainedLife ==
  ASSUME IInv, NEW i \in Ids, ann[i] # None, NEW m \in Announcement, m # None,
         Since(m, ann[i]), Reviewed(m), m.status = ann[i].status \/ ann[i].draft.pipe # None,
         ann' = [ann EXCEPT ![i] = m], used' = used
  PROVE  Lifecycle!LifeNext \/ Lives' = Lives
<1> DEFINE l == IF m.status = "in_review" THEN "in_review"
                ELSE IF m.draft.pipe # None THEN "drafted" ELSE "empty"
<1>1. ann'[i] = m
  BY DEF IInv, TypeOK
<1>2. \A k \in Ids \ {i} : Life(k)' = Life(k)
  <2> TAKE k \in Ids \ {i}
  <2>1. ann'[k] = ann[k]
    BY DEF IInv, TypeOK
  <2> QED BY <2>1, LifeSame
<1>3. ann[i] \in Announcement /\ Reviewed(ann[i])
  BY LifeOfRow
<1>4. Life(i) = IF ann[i].status = "in_review" THEN "in_review"
                ELSE IF ann[i].draft.pipe # None THEN "drafted" ELSE "empty"
  BY LifeOfRow
<1>5. Life(i)' = l
  BY <1>1 DEF Life, Announcement
<1>6. \/ l = Life(i)
      \/ Life(i) = "empty" /\ l = "drafted"
      \/ Life(i) = "drafted" /\ l = "in_review"
  BY <1>3, <1>4 DEF Since, Reviewed, Announcement
<1> HIDE DEF l
<1>7. Lives' = [Lives EXCEPT ![i] = l]
  BY <1>2, <1>5, OneLifeChanges
<1>8. CASE l = Life(i)
  BY <1>7, <1>8 DEF Lives
<1>9. CASE Life(i) = "empty" /\ l = "drafted"
  <2>1. Lifecycle!Draft(i)
    BY <1>7, <1>9 DEF Lifecycle!Draft, Lifecycle!Becomes, Lives
  <2> QED BY <2>1 DEF Lifecycle!LifeNext
<1>10. CASE Life(i) = "drafted" /\ l = "in_review"
  <2>1. Lifecycle!Review(i)
    BY <1>7, <1>10 DEF Lifecycle!Review, Lifecycle!Becomes, Lives
  <2> QED BY <2>1 DEF Lifecycle!LifeNext
<1> QED BY <1>6, <1>8, <1>9, <1>10

\* Merging a handler's changes drafts the announcement, puts it in review, or
\* leaves its life alone.
LEMMA MergedLife ==
  ASSUME IInv, NEW w \in Workers, CommitChat(w) \/ CommitEdit(w)
  PROVE  Lifecycle!LifeNext \/ Lives' = Lives
<1>1. job[w] \in Job /\ job[w].id \in Ids /\ Safe(job[w])
  BY BusyJob DEF CommitChat, CommitEdit, Handling, IInv, HandlersSafe, HandlerSafe
<1>2. PICK j \in Job : j = job[w]
  BY <1>1
<1>3. PICK i \in Ids : i = j.id
  BY <1>1, <1>2
<1>4. ann[i] # None
  BY <1>1, <1>2, <1>3 DEF CommitChat, CommitEdit, Handling, Safe, IInv, ReferencesHold
<1>5. /\ j.base \in Announcement /\ j.edit \in Announcement
      /\ EditKeeps(j.base, j.edit) /\ Since(ann[i], j.base)
  BY <1>1, <1>2, <1>3, <1>4 DEF Job, Safe
<1>6. ann[i] \in Announcement /\ Reviewed(ann[i])
  BY <1>4, LifeOfRow
<1>7. PICK m : m = Merge(ann[i], j.base, j.edit)
  OBVIOUS
<1>8. /\ m \in Announcement /\ m # None /\ Since(m, ann[i]) /\ Reviewed(m)
      /\ m.status = ann[i].status \/ ann[i].draft.pipe # None
  BY <1>5, <1>6, <1>7, MergeAnnouncement, MergeKeeps, RowTypes
<1>9. ann' = [ann EXCEPT ![i] = m] /\ used' = used
  BY <1>2, <1>3, <1>7 DEF CommitChat, CommitEdit
<1> QED BY <1>4, <1>8, <1>9, GainedLife

\* A new announcement is empty.
LEMMA CreatedLife ==
  ASSUME IInv, NEW i \in Ids, CreateSession(i)
  PROVE  Lifecycle!LifeNext
<1>1. ann[i] = None /\ ann'[i] = NewAnnouncement /\ NewAnnouncement # None
  BY RowTypes DEF CreateSession, IInv, ReferencesHold, TypeOK
<1>2. \A k \in Ids \ {i} : Life(k)' = Life(k)
  <2> TAKE k \in Ids \ {i}
  <2>1. ann'[k] = ann[k] /\ ((k \in used') <=> (k \in used))
    BY DEF CreateSession, IInv, TypeOK
  <2> QED BY <2>1, LifeSame
<1>3. Life(i) = "absent"
  BY <1>1 DEF Life, CreateSession
<1>4. Life(i)' = "empty"
  BY <1>1 DEF Life, NewAnnouncement, NoDraft
<1>5. Lives' = [Lives EXCEPT ![i] = "empty"]
  BY <1>2, <1>4, OneLifeChanges
<1>6. Lifecycle!Create(i)
  BY <1>3, <1>5 DEF Lifecycle!Create, Lifecycle!Becomes, Lives
<1> QED BY <1>6 DEF Lifecycle!LifeNext

\* A copy has no more than its original has had.
LEMMA CopiedLife ==
  ASSUME IInv, NEW w \in Workers, NEW j \in Ids, CommitDuplicate(w, j)
  PROVE  Lifecycle!LifeNext
<1>1. job[w] \in Job /\ job[w].id \in Ids /\ Safe(job[w])
  BY BusyJob DEF CommitDuplicate, Handling, IInv, HandlersSafe, HandlerSafe
<1>2. PICK i \in Ids : i = job[w].id
  BY <1>1
<1>3. PICK a \in Announcement : a = job[w].base
  BY <1>1 DEF Job
<1>4. i \in used /\ Reviewed(a) /\ (ann[i] # None => Since(ann[i], a))
  BY <1>1, <1>2, <1>3 DEF Safe, EditKeeps
<1>5. PICK m \in Announcement : m = Clone(a)
  BY EditTypes
<1>6. /\ m # None /\ m.draft.pipe = a.draft.pipe
      /\ m.status = "in_review" => a.status = "in_review"
  BY <1>4, <1>5, RowTypes, CloneReviewed
<1>7. ann[j] = None /\ ann'[j] = m /\ j \notin used
  BY <1>3, <1>5 DEF CommitDuplicate, IInv, ReferencesHold, TypeOK
<1>8. \A k \in Ids \ {j} : Life(k)' = Life(k)
  <2> TAKE k \in Ids \ {j}
  <2>1. ann'[k] = ann[k] /\ ((k \in used') <=> (k \in used))
    BY DEF CommitDuplicate, IInv, TypeOK
  <2> QED BY <2>1, LifeSame
<1>9. Life(j) = "absent"
  BY <1>7 DEF Life
<1> DEFINE l == IF m.status = "in_review" THEN "in_review"
                ELSE IF m.draft.pipe # None THEN "drafted" ELSE "empty"
<1>10. Life(j)' = l
  BY <1>6, <1>7 DEF Life, Announcement
<1>11. l \in Lifecycle!Past(Life(i))
  <2>1. CASE ann[i] = None
    <3>1. Life(i) = "deleted"
      BY <1>4, <2>1 DEF Life
    <3> QED BY <3>1 DEF Lifecycle!Past, Lifecycle!Live
  <2>2. CASE ann[i] # None
    <3>1. /\ ann[i] \in Announcement
          /\ Life(i) = IF ann[i].status = "in_review" THEN "in_review"
                       ELSE IF ann[i].draft.pipe # None THEN "drafted" ELSE "empty"
      BY <2>2, LifeOfRow
    <3> QED BY <1>4, <1>6, <2>2, <3>1 DEF Since, Lifecycle!Past, Lifecycle!Live
  <2> QED BY <2>1, <2>2
<1> HIDE DEF l
<1>12. Lives' = [Lives EXCEPT ![j] = l]
  BY <1>8, <1>10, OneLifeChanges
<1>13. Lifecycle!Copy(i, j)
  BY <1>9, <1>11, <1>12 DEF Lifecycle!Copy, Lifecycle!Becomes, Lives
<1> QED BY <1>13 DEF Lifecycle!LifeNext

\* A deletion that succeeds ends the life of a live announcement.
LEMMA DeletedLife ==
  ASSUME IInv, NEW w \in Workers, CommitDelete(w)
  PROVE  Lifecycle!LifeNext \/ Lives' = Lives
<1>1. job[w] # None /\ job[w] \in Job /\ job[w].id \in Ids /\ Safe(job[w])
  BY BusyJob DEF CommitDelete, Handling, IInv, HandlersSafe, HandlerSafe
<1>2. PICK i \in Ids : i = job[w].id
  BY <1>1
<1>3. i \in used
  BY <1>1, <1>2 DEF Safe
<1>4. CASE ann' = ann /\ used' = used
  BY <1>4 DEF Lives, Life
<1>5. CASE ann' = [ann EXCEPT ![i] = None] /\ used' = used
  <2>1. \A k \in Ids \ {i} : Life(k)' = Life(k)
    <3> TAKE k \in Ids \ {i}
    <3>1. ann'[k] = ann[k]
      BY <1>5 DEF IInv, TypeOK
    <3> QED BY <1>5, <3>1, LifeSame
  <2>2. Life(i)' = "deleted"
    BY <1>3, <1>5 DEF Life, IInv, TypeOK
  <2>3. Lives' = [Lives EXCEPT ![i] = "deleted"]
    BY <2>1, <2>2, OneLifeChanges
  <2>4. CASE ann[i] = None
    <3>1. Life(i) = "deleted"
      BY <1>3, <2>4 DEF Life
    <3> QED BY <2>3, <3>1 DEF Lives
  <2>5. CASE ann[i] # None
    <3>1. Life(i) \in {"empty", "drafted", "in_review"}
      BY <2>5, LifeOfRow
    <3>2. Lifecycle!Delete(i)
      BY <2>3, <3>1 DEF Lifecycle!Delete, Lifecycle!Becomes, Lifecycle!Live, Lives
    <3> QED BY <3>2 DEF Lifecycle!LifeNext
  <2> QED BY <2>4, <2>5
<1> QED BY <1>2, <1>4, <1>5 DEF CommitDelete, db

\* Every step is a step of the lifecycle or leaves every life alone.
LEMMA LifeSteps ==
  ASSUME IInv, [Next]_vars
  PROVE  Lifecycle!LifeNext \/ Lives' = Lives
<1>1. ASSUME NEW w \in Workers, Arrive(w) \/ Answered(w) \/ Persist(w)
      PROVE  ann' = ann /\ used' = used
  <2>1. CASE Arrive(w)
    BY <2>1 DEF Arrive, SendMessage, UploadVoice, UploadImages, GeneratePlatformDrafts,
       UpdateAnnouncement, UpdatePlatformVariant, DuplicateAnnouncement, DeleteAnnouncement, db
  <2>2. CASE Answered(w)
    BY <2>2 DEF Answered, StartPipeline, AnswerPipeline, Receive, AnswerLost, NothingToProcess,
       SelectRepresentative, GenerateAll, CallFails, db
  <2>3. CASE Persist(w)
    BY <2>3 DEF Persist, PersistReply, PersistPhotos, Flush, db
  <2> QED BY <1>1, <2>1, <2>2, <2>3
<1>2. ASSUME NEW w \in Workers, RowGone(w) \/ EndStream(w)
      PROVE  ann' = ann /\ used' = used
  BY <1>2 DEF RowGone, EndStream, db
<1>3. Restart \/ UNCHANGED vars => ann' = ann /\ used' = used
  BY DEF Restart, vars, db
<1>4. ann' = ann /\ used' = used => Lives' = Lives
  BY DEF Lives, Life
<1> QED BY <1>1, <1>2, <1>3, <1>4, CreatedLife, CopiedLife, MergedLife, DeletedLife DEF Next, Commit

\* The workflow implements the lifecycle a client may rely on: the rows start
\* absent, and every step of any handler is one of the lifecycle's or none.
THEOREM Implements == Spec => ImplementsLifecycle
<1>1. Init => Lifecycle!LifeInit
  BY DEF Init, Lifecycle!LifeInit, Life
<1>2. IInv /\ [Next]_vars => [Lifecycle!LifeNext]_Lives
  BY LifeSteps
<1> QED BY <1>1, <1>2, Invariance, PTL DEF Spec, ImplementsLifecycle, Lifecycle!LifeSpec, Lives

=============================================================================
