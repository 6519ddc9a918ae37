-------------------------- MODULE ChatDrafts_proofs --------------------------
(***************************************************************************)
(* Theorems about the stage of a session and the draft of its announcement *)
(* in ChatWorkflow: what holds whatever is in flight, and what holds of an *)
(* announcement whose requests come one after the other.  The invariant of *)
(* ChatWorkflow_proofs is the ground for both.                             *)
(***************************************************************************)
EXTENDS ChatWorkflow_proofs

-----------------------------------------------------------------------------
(* Any requests in flight: draft_ready comes with a draft. *)

HandlerReady(w) == job[w] # None => Ready(job[w])

ReadyInv ==
  /\ DraftReadyHasDraft
  /\ \A w \in Workers : HandlerReady(w)

\* What has to be shown of a handler after a step.
LEMMA ReadyAfter ==
  ASSUME NEW v \in Workers, NEW j, job'[v] = j, BringsDraft(j),
         ann'[j.id] # None /\ j.old.stage = "draft_ready" => ann'[j.id].draft.pipe # None
  PROVE  HandlerReady(v)'
BY DEF HandlerReady, Ready

\* A handler that does nothing while the database grows stays ready.
LEMMA ReadyBystander ==
  ASSUME IInv, ReadyInv, Grows, NEW v \in Workers, job'[v] = job[v]
  PROVE  HandlerReady(v)'
<1> SUFFICES ASSUME NEW j, j = job[v], j # None
             PROVE  HandlerReady(v)'
  BY DEF HandlerReady
<1>1. j.id \in Ids /\ j.id \in used /\ Ready(j)
  BY DEF IInv, TypeOK, Job, HandlersSafe, HandlerSafe, Safe, ReadyInv, HandlerReady
<1>2. ann'[j.id] # None => ann[j.id] # None /\ Since(ann'[j.id], ann[j.id])
  BY <1>1 DEF Grows
<1>3. ann'[j.id] # None /\ j.old.stage = "draft_ready" => ann'[j.id].draft.pipe # None
  BY <1>1, <1>2 DEF Ready, Since
<1> QED BY <1>1, <1>3, ReadyAfter DEF Ready

\* A step that stores no other stage than that of a new session keeps its drafts.
LEMMA StagesStay ==
  ASSUME IInv, ReadyInv, Grows, ReferencesHold',
         \A i \in Ids : sess'[i] = sess[i] \/ sess'[i] = None \/ sess'[i] = NewSession
  PROVE  DraftReadyHasDraft'
<1> SUFFICES ASSUME NEW i \in Ids, sess'[i] # None, sess'[i].stage = "draft_ready"
             PROVE  ann'[i] # None /\ ann'[i].draft.pipe # None
  BY DEF DraftReadyHasDraft
<1>1. sess'[i] = sess[i]
  BY DEF NewSession
<1>2. ann[i] # None /\ ann[i].draft.pipe # None
  BY <1>1 DEF ReadyInv, DraftReadyHasDraft
<1>3. ann'[i] # None
  BY DEF ReferencesHold
<1> QED BY <1>2, <1>3 DEF Grows, Since

\* A step of one handler keeps the invariant if it keeps the stages and leaves the
\* handler idle or ready.
LEMMA OneReadySteps ==
  ASSUME IInv, ReadyInv, Grows, DraftReadyHasDraft', NEW w \in Workers,
         \A v \in Workers \ {w} : job'[v] = job[v], HandlerReady(w)'
  PROVE  ReadyInv'
<1>1. \A v \in Workers : HandlerReady(v)'
  BY ReadyBystander
<1> QED BY <1>1 DEF ReadyInv

\* The same for a step that leaves the database alone.
LEMMA QuietReady ==
  ASSUME IInv, ReadyInv, UNCHANGED db, NEW w \in Workers, NEW j,
         job' = [job EXCEPT ![w] = j],
         j = None \/ BringsDraft(j),
         j # None => \/ j.old.stage # "draft_ready"
                     \/ ann[j.id] # None => ann[j.id].draft.pipe # None
  PROVE  ReadyInv'
<1>1. job'[w] = j /\ \A v \in Workers \ {w} : job'[v] = job[v]
  BY DEF IInv, TypeOK
<1>2. ann' = ann
  BY DEF db
<1>3. HandlerReady(w)'
  <2>1. CASE j = None
    BY <1>1, <2>1 DEF HandlerReady
  <2>2. CASE j # None
    BY <1>1, <1>2, <2>2, ReadyAfter
  <2> QED BY <2>1, <2>2
<1>4. DraftReadyHasDraft'
  BY DEF ReadyInv, DraftReadyHasDraft, db
<1> QED BY <1>1, <1>3, <1>4, Unchanged, OneReadySteps

\* A request loads what is stored, and has assigned no stage yet.
LEMMA ArriveReady ==
  ASSUME IInv, ReadyInv, NEW w \in Workers, Arrive(w)
  PROVE  ReadyInv'
<1> PICK i \in Ids :
      \/ \E kind \in TextKinds : SendMessage(w, i, kind)
      \/ UploadVoice(w, i)
      \/ UploadImages(w, i)
      \/ GeneratePlatformDrafts(w, i)
      \/ \E t \in Titles : UpdateAnnouncement(w, i, t)
      \/ \E n \in Notices : UpdatePlatformVariant(w, i, n)
      \/ DuplicateAnnouncement(w, i)
      \/ DeleteAnnouncement(w, i)
  BY DEF Arrive
<1> DEFINE Loaded(j) == /\ job' = [job EXCEPT ![w] = j]
                        /\ j.id = i /\ j.new = j.old
                        /\ j.old = NewSession \/ (sess[i] # None /\ j.old = sess[i])
<1>1. \E j : Loaded(j)
  <2>1. ASSUME NEW kind, NEW at, NEW s, NEW a,
               job' = [job EXCEPT ![w] = Request(kind, at, i, s, a)],
               s = NewSession \/ (sess[i] # None /\ s = sess[i])
        PROVE  \E j : Loaded(j)
    <3> DEFINE j == Request(kind, at, i, s, a)
    <3>1. j.id = i /\ j.new = s /\ j.old = s
      BY DEF Request
    <3> HIDE DEF j
    <3>2. Loaded(j)
      BY <2>1, <3>1 DEF j
    <3> QED BY <3>2
  <2>2. ASSUME NEW kind, NEW e, NEW a,
               job' = [job EXCEPT ![w] = [Request(kind, "commit", i, NewSession, a) EXCEPT !.edit = e]]
        PROVE  \E j : Loaded(j)
    <3> DEFINE j == [Request(kind, "commit", i, NewSession, a) EXCEPT !.edit = e]
    <3>1. j.id = i /\ j.new = NewSession /\ j.old = NewSession
      BY DEF Request
    <3> HIDE DEF j
    <3>2. Loaded(j)
      BY <2>2, <3>1 DEF j
    <3> QED BY <3>2
  <2> HIDE DEF Loaded
  <2>3. CASE \E kind \in TextKinds : SendMessage(w, i, kind)
    BY <2>1, <2>3 DEF SendMessage, Begin, RequireSession
  <2>4. CASE UploadVoice(w, i)
    BY <2>1, <2>4 DEF UploadVoice, Begin, RequireSession
  <2>5. CASE UploadImages(w, i)
    BY <2>1, <2>5 DEF UploadImages, Begin, RequireSession
  <2>6. CASE GeneratePlatformDrafts(w, i)
    BY <2>1, <2>6 DEF GeneratePlatformDrafts, Begin, RequireSession
  <2>7. CASE \E t \in Titles : UpdateAnnouncement(w, i, t)
    BY <2>2, <2>7 DEF UpdateAnnouncement, Begin
  <2>8. CASE \E n \in Notices : UpdatePlatformVariant(w, i, n)
    BY <2>2, <2>8 DEF UpdatePlatformVariant, Begin
  <2>9. CASE DeleteAnnouncement(w, i)
    BY <2>1, <2>9 DEF DeleteAnnouncement, Begin
  <2>10. CASE DuplicateAnnouncement(w, i)
    BY <2>1, <2>10 DEF DuplicateAnnouncement, Begin
  <2> QED BY <2>3, <2>4, <2>5, <2>6, <2>7, <2>8, <2>9, <2>10
<1>2. PICK j : Loaded(j)
  BY <1>1
<1>3. UNCHANGED db
  BY DEF SendMessage, UploadVoice, UploadImages, GeneratePlatformDrafts, UpdateAnnouncement,
     UpdatePlatformVariant, DuplicateAnnouncement, DeleteAnnouncement
<1>4. BringsDraft(j)
  BY <1>2 DEF BringsDraft
<1>5. j.old.stage = "draft_ready" => ann[j.id].draft.pipe # None
  BY <1>2 DEF ReadyInv, DraftReadyHasDraft, NewSession
<1> QED BY <1>2, <1>3, <1>4, <1>5, QuietReady

\* A reply that stores draft_ready brings a draft, if the service is coherent.
LEMMA ReplyBringsDraft ==
  ASSUME RepliesCoherent, NEW r \in Replies, StageAfterReply(r) = "draft_ready"
  PROVE  Completes(r)
<1>1. r \in [slots : BOOLEAN, completed : BOOLEAN, ready : BOOLEAN, question : BOOLEAN]
  BY ReplyAssumption
<1> QED BY <1>1 DEF RepliesCoherent, StageAfterReply, PipelineStage, Completes

\* The reply of a pipeline keeps the invariant.
LEMMA ReceiveReady ==
  ASSUME RepliesCoherent, IInv, ReadyInv, NEW w \in Workers, NEW p \in Pipelines, NEW r \in Replies,
         NEW kinds, "images" \notin kinds, Handling(w, kinds, "call"), Receive(w, p, r)
  PROVE  ReadyInv'
<1> DEFINE n == AfterReply(job[w].old, p, turns[p] + 1, r)
           d == IF Completes(r) THEN p ELSE None
           j == [job[w] EXCEPT !.at = "flush", !.new = n, !.draft = d]
<1>1. job[w] \in Job /\ job[w].kind # "images" /\ Ready(job[w])
  BY BusyJob DEF IInv, Handling, ReadyInv, HandlerReady
<1>2. /\ j.id = job[w].id /\ j.kind = job[w].kind /\ j.old = job[w].old
      /\ j.at = "flush" /\ j.new = n /\ j.draft = d
  BY <1>1 DEF Job
<1>3. n.stage = "draft_ready" => d # None
  BY ReplyBringsDraft, RowTypes DEF AfterReply
<1>4. job' = [job EXCEPT ![w] = j] /\ UNCHANGED db
  BY DEF Receive, Advance
<1> HIDE DEF j, n, d
<1>5. BringsDraft(j)
  BY <1>1, <1>2, <1>3 DEF BringsDraft
<1> QED BY <1>1, <1>2, <1>4, <1>5, QuietReady DEF Ready

\* So does every end of a call.
LEMMA AnsweredReady ==
  ASSUME RepliesCoherent, IInv, ReadyInv, NEW w \in Workers, Answered(w)
  PROVE  ReadyInv'
<1>1. job[w] # None => job[w] \in Job /\ Ready(job[w])
  BY DEF IInv, TypeOK, ReadyInv, HandlerReady
<1>2. ASSUME NEW p \in Pipelines, NEW r \in Replies, StartPipeline(w, p, r)
      PROVE  ReadyInv'
  BY <1>2, ReceiveReady DEF StartPipeline, TextKinds
<1>3. ASSUME NEW r \in Replies, AnswerPipeline(w, r)
      PROVE  ReadyInv'
  <2>1. job[w].old.stt \in Pipelines
    BY <1>3, BusyJob DEF AnswerPipeline, IsAnswer, Job, Session, IInv
  <2> QED BY <1>3, <2>1, ReceiveReady DEF AnswerPipeline, TextKinds
<1>4. ASSUME NEW r \in Replies, AnswerLost(w, r)
      PROVE  ReadyInv'
  BY <1>4, QuietReady DEF AnswerLost, Finish, Advance
<1>5. CASE NothingToProcess(w)
  <2> DEFINE j == [job[w] EXCEPT !.at = "flush", !.new.stage = StageWithNothingToProcess(@)]
  <2>1. job[w] # None /\ job[w] \in Job /\ Ready(job[w]) /\ job[w].at = "call"
    BY <1>1, <1>5 DEF NothingToProcess, Handling
  <2>2. j.id = job[w].id /\ j.old = job[w].old
    BY <2>1 DEF Job
  <2>3. job[w].new.stage \in Stages /\ j.new.stage = StageWithNothingToProcess(job[w].new.stage)
    BY <2>1 DEF Job, Session
  <2>4. j.new.stage = "draft_ready" => job[w].new.stage = "draft_ready"
    BY <2>3 DEF StageWithNothingToProcess, Stages
  <2>5. job' = [job EXCEPT ![w] = j] /\ UNCHANGED db
    BY <1>5 DEF NothingToProcess, Advance
  <2> HIDE DEF j
  <2>6. BringsDraft(j)
    BY <2>1, <2>2, <2>4 DEF Ready, BringsDraft
  <2> QED BY <2>1, <2>2, <2>5, <2>6, QuietReady DEF Ready
<1>6. CASE SelectRepresentative(w)
  <2> DEFINE j == [job[w] EXCEPT !.at = "flush", !.new.stage = StageAfterPhotos(@)]
  <2>1. job[w] \in Job /\ Ready(job[w])
    BY <1>1, <1>6 DEF SelectRepresentative, Handling
  <2>2. j.id = job[w].id /\ j.old = job[w].old /\ j.new.stage = "clarifying"
    BY <2>1 DEF Job, Session, StageAfterPhotos
  <2>3. job' = [job EXCEPT ![w] = j] /\ UNCHANGED db
    BY <1>6 DEF SelectRepresentative, Advance
  <2> HIDE DEF j
  <2>4. BringsDraft(j)
    BY <2>2 DEF BringsDraft
  <2> QED BY <2>1, <2>2, <2>3, <2>4, QuietReady DEF Ready
<1>7. ASSUME NEW n \in Notices, GenerateAll(w, n)
      PROVE  ReadyInv'
  <2> DEFINE j == [job[w] EXCEPT !.at = "commit", !.edit = AddVariants(job[w].base, n)]
  <2>1. job[w] \in Job /\ Ready(job[w]) /\ job[w].at = "call"
    BY <1>1, <1>7 DEF GenerateAll, Handling
  <2>2. j.id = job[w].id /\ j.old = job[w].old /\ j.new = job[w].new
    BY <2>1 DEF Job
  <2>3. job' = [job EXCEPT ![w] = j] /\ UNCHANGED db
    BY <1>7 DEF GenerateAll, Advance
  <2> HIDE DEF j
  <2>4. BringsDraft(j)
    BY <2>1, <2>2 DEF Ready, BringsDraft
  <2> QED BY <2>1, <2>2, <2>3, <2>4, QuietReady DEF Ready
<1>8. CASE CallFails(w)
  BY <1>8, QuietReady DEF CallFails, Finish, Advance
<1> QED BY <1>2, <1>3, <1>4, <1>5, <1>6, <1>7, <1>8 DEF Answered

\* A handler that saves what it has now holds an announcement with its draft.
LEMMA PersistReady ==
  ASSUME IInv, ReadyInv, NEW w \in Workers, Persist(w)
  PROVE  ReadyInv'
<1> DEFINE i == job[w].id
<1>1. /\ job[w] \in Job /\ i \in Ids /\ Ready(job[w]) /\ job[w].at = "flush"
  BY BusyJob DEF Persist, PersistReply, PersistPhotos, Handling, IInv, ReadyInv, HandlerReady
<1>2. ann[i] \in Announcement
  BY <1>1 DEF Persist, PersistReply, PersistPhotos, Flush, IInv, ReferencesHold, TypeOK
<1>3. PICK a : /\ job' = [job EXCEPT ![w] = [job[w] EXCEPT !.at = "commit", !.base = ann[i], !.edit = a]]
               /\ job[w].draft # None => a.draft.pipe # None \/ job[w].kind = "images"
  <2>1. CASE PersistReply(w)
    <3>1. job[w].draft # None => PersistDraft(ann[i], job[w].draft).draft.pipe # None
      BY <1>2 DEF PersistDraft, Announcement
    <3> QED BY <2>1, <3>1 DEF PersistReply, Flush, Advance
  <2>2. CASE \E c \in Covers : PersistPhotos(w, c)
    BY <2>2 DEF PersistPhotos, Flush, Advance, Handling
  <2> QED BY <2>1, <2>2 DEF Persist
<1> DEFINE j == [job[w] EXCEPT !.at = "commit", !.base = ann[i], !.edit = a]
<1>4. /\ j.id = i /\ j.kind = job[w].kind /\ j.old = job[w].old /\ j.new = job[w].new
      /\ j.at = "commit" /\ j.edit = a
  BY <1>1 DEF Job
<1>5. UNCHANGED db
  BY DEF Persist, PersistReply, PersistPhotos, Flush
<1> HIDE DEF j
<1>6. BringsDraft(j)
  BY <1>1, <1>3, <1>4 DEF BringsDraft, Ready
<1>7. job' = [job EXCEPT ![w] = j]
  BY <1>3 DEF j
<1> QED BY <1>1, <1>4, <1>5, <1>6, <1>7, QuietReady DEF Ready

\* A commit stores draft_ready with the draft, or leaves both as the rows have them.
LEMMA CommitChatReady ==
  ASSUME IInv, ReadyInv, NEW w \in Workers, CommitChat(w)
  PROVE  ReadyInv'
<1> DEFINE j == job[w]
           i == job[w].id
           r == Merge(sess[i], j.old, j.new)
           m == Merge(ann[i], j.base, j.edit)
<1>1. j \in Job /\ i \in Ids /\ j.kind \in ChatKinds /\ j.at = "commit" /\ Safe(j) /\ Ready(j)
  BY BusyJob DEF CommitChat, Handling, IInv, HandlersSafe, HandlerSafe, ReadyInv, HandlerReady
<1>2. sess[i] \in Session /\ sess[i] # None /\ ann[i] \in Announcement /\ ann[i] # None /\ Reviewed(ann[i])
  BY <1>1 DEF Safe, IInv, TypeOK, ReferencesHold, RowsReviewed
<1>3. /\ j.old \in Session /\ j.new \in Session /\ j.base \in Announcement /\ j.edit \in Announcement
      /\ EditKeeps(j.base, j.edit) /\ Since(ann[i], j.base)
  BY <1>1, <1>2 DEF Job, Safe
<1>4. m \in Announcement /\ Since(m, ann[i]) /\ (j.edit.draft.pipe # None => m.draft.pipe # None)
  BY <1>2, <1>3, MergeAnnouncement, MergeKeeps
<1>5. r \in Session /\ r.stage = IF j.new.stage = j.old.stage THEN sess[i].stage ELSE j.new.stage
  BY <1>2, <1>3, MergeSession
<1>6. r.stage = "draft_ready" => m.draft.pipe # None
  <2>1. CASE j.new.stage = j.old.stage
    BY <1>1, <1>2, <1>4, <1>5, <2>1 DEF Since, ReadyInv, DraftReadyHasDraft
  <2>2. CASE j.new.stage # j.old.stage
    BY <1>1, <1>4, <1>5, <2>2 DEF Ready, BringsDraft
  <2> QED BY <2>1, <2>2
<1>7. m # None
  BY <1>4, RowTypes
<1>8. sess' = [sess EXCEPT ![i] = r] /\ ann' = [ann EXCEPT ![i] = m]
  BY DEF CommitChat
<1> HIDE DEF r, m
<1>9. DraftReadyHasDraft'
  BY <1>1, <1>6, <1>7, <1>8 DEF DraftReadyHasDraft, ReadyInv, IInv, TypeOK
<1>10. \A v \in Workers \ {w} : job'[v] = job[v]
  BY DEF CommitChat, Advance, IInv, TypeOK
<1>11. HandlerReady(w)'
  <2>1. CASE j.kind # "stream"
    BY <2>1 DEF CommitChat, Advance, IInv, TypeOK, HandlerReady
  <2>2. CASE j.kind = "stream"
    <3> DEFINE k == Request("stream", "stream", i, NewSession, NewAnnouncement)
    <3>1. job'[w] = k
      BY <2>2 DEF CommitChat, Advance, IInv, TypeOK
    <3>2. k.old = NewSession /\ k.new = NewSession
      BY DEF Request
    <3> HIDE DEF k
    <3>3. BringsDraft(k) /\ k.old.stage # "draft_ready"
      BY <3>2 DEF BringsDraft, NewSession
    <3> QED BY <3>1, <3>3, ReadyAfter
  <2> QED BY <2>1, <2>2
<1> QED BY <1>9, <1>10, <1>11, CommitChatKeeps, OneReadySteps

\* The steps of no handler, and the other ends of one.
LEMMA OtherReady ==
  ASSUME IInv, ReadyInv, IInv', Grows,
         \A v \in Workers : job'[v] = job[v] \/ job'[v] = None,
         \A i \in Ids : sess'[i] = sess[i] \/ sess'[i] = None \/ sess'[i] = NewSession
  PROVE  ReadyInv'
<1>1. \A v \in Workers : HandlerReady(v)'
  <2> TAKE v \in Workers
  <2>1. CASE job'[v] = None
    BY <2>1 DEF HandlerReady
  <2>2. CASE job'[v] = job[v]
    BY <2>2, ReadyBystander
  <2> QED BY <2>1, <2>2
<1> QED BY <1>1, StagesStay DEF ReadyInv, IInv

\* The empty database satisfies the invariant.
LEMMA InitReady == Init => ReadyInv
BY DEF Init, ReadyInv, DraftReadyHasDraft, HandlerReady

\* Every step keeps it, if the STT service is coherent.
LEMMA NextReady ==
  ASSUME RepliesCoherent, IInv, ReadyInv, [Next]_vars
  PROVE  ReadyInv'
<1>1. IInv' /\ Grows
  BY NextInvariant
<1>2. CASE \E i \in Ids : CreateSession(i)
  BY <1>1, <1>2, OtherReady DEF CreateSession, IInv, TypeOK
<1>3. CASE \E w \in Workers, j \in Ids : CommitDuplicate(w, j)
  BY <1>1, <1>3, OtherReady DEF CommitDuplicate, Finish, Advance, IInv, TypeOK
<1>4. CASE \E w \in Workers : Arrive(w) \/ Answered(w) \/ Persist(w) \/ CommitChat(w)
  BY <1>4, ArriveReady, AnsweredReady, PersistReady, CommitChatReady
<1>5. CASE \E w \in Workers : CommitEdit(w) \/ RowGone(w) \/ EndStream(w) \/ CommitDelete(w)
  BY <1>1, <1>5, OtherReady
  DEF CommitEdit, RowGone, EndStream, CommitDelete, Finish, Advance, db, IInv, TypeOK
<1>6. CASE Restart
  BY <1>1, <1>6, OtherReady DEF Restart, db
<1>7. CASE UNCHANGED vars
  BY <1>1, <1>7, OtherReady DEF vars
<1> QED BY <1>2, <1>3, <1>4, <1>5, <1>6, <1>7 DEF Next, Commit

\* What says draft_ready, stored or held by a handler, has a draft, as long as the STT
\* service calls nothing complete without one (_persist_draft).
THEOREM ReadyInvariance ==
  ASSUME RepliesCoherent
  PROVE  Spec => []ReadyInv
<1>1. Init => ReadyInv
  BY InitReady
<1>2. IInv /\ ReadyInv /\ [Next]_vars => ReadyInv'
  BY NextReady
<1> QED BY <1>1, <1>2, Invariance, PTL DEF Spec

\* A session that is draft_ready has a draft, with any number of handlers.
THEOREM DraftReady ==
  ASSUME RepliesCoherent
  PROVE  Spec => []DraftReadyHasDraft
<1>1. ReadyInv => DraftReadyHasDraft
  BY DEF ReadyInv
<1> QED BY <1>1, ReadyInvariance, PTL

\* The objects that handlers hold across awaits are never ahead of their rows: none
\* of them takes a whole draft or a review back, whether or not the draft that stays
\* is the newest.
THEOREM StaleObjects ==
  ASSUME RepliesCoherent
  PROVE  Spec => []HandlersConsistent
<1>1. IInv /\ ReadyInv => HandlersConsistent
  BY DEF IInv, HandlersSafe, HandlerSafe, ReadyInv, HandlerReady, HandlersConsistent
<1> QED BY <1>1, Invariance, ReadyInvariance, PTL

-----------------------------------------------------------------------------
(* One request at a time about announcement i: its rows stay in step. *)

\* The title of a draft is the title of its announcement.
Titled(a) == a.draft.pipe # None => a.draft.title = a.title

\* The slots of a session, if any, are those of its pipeline; when it is draft_ready
\* they are complete, and the announcement has the draft made from them and shows its photo.
InStep(s, a) ==
  /\ s.slots.pipe \in {None, s.stt}
  /\ RepliesCoherent /\ s.stage = "draft_ready" =>
       /\ s.slots.full
       /\ a.draft.pipe = s.slots.pipe
       /\ a.draft.cover = a.cover

RowsInStep(i) ==
  /\ ann[i] # None => Titled(ann[i])
  /\ sess[i] # None => InStep(sess[i], ann[i])

\* What a request that works alone on the rows s and a holds: the rows as they are,
\* and assignments that will leave them in step.
HandlerInStep(j, s, a) ==
  /\ j.kind \in ChatKinds => j.old = s
  /\ j.kind \in ChatKinds /\ j.at = "call" => j.new = j.old /\ j.draft = None
  /\ j.kind \in TextKinds \cup {"voice"} /\ j.at = "flush" => InStep(j.new, PersistDraft(a, j.draft))
  /\ j.kind = "images" /\ j.at = "flush" => j.new.stage # "draft_ready" /\ j.new.slots.pipe \in {None, j.new.stt}
  /\ j.kind \in ChatKinds /\ j.at = "commit" => InStep(j.new, j.edit)
  /\ j.kind = "generate" \/ j.at = "commit" => j.base = a
  /\ j.at = "commit" => Titled(j.edit)
  /\ j.kind \in EditKinds /\ j.at = "commit" /\ s # None => InStep(s, j.edit)

InStepInv(i) ==
  /\ RowsInStep(i)
  /\ \A w \in Workers : Working(w, i) => HandlerInStep(job[w], sess[i], ann[i])

\* A merge into the row that was loaded stores what was assigned.
LEMMA MergeInTurn ==
  /\ \A s, n \in Session : Merge(s, s, n) = n
  /\ \A a, e \in Announcement : Merge(a, a, e) = e
BY DEF Merge, Session, Announcement

\* The edits that keep title, draft and photo in step.
LEMMA EditsInStep ==
  ASSUME NEW a \in Announcement, Titled(a)
  PROVE  /\ \A t \in Titles : Titled(Retitle(a, t))
         /\ \A n \in Notices : Titled(AddVariants(a, n))
         /\ \A c \in Covers : Titled([a EXCEPT !.cover = c])
         /\ \A p \in Pipelines \cup {None} : Titled(PersistDraft(a, p))
         /\ \A s, t : InStep(s, a) => InStep(s, Retitle(a, t))
         /\ \A s, n : InStep(s, a) => InStep(s, AddVariants(a, n))
<1>1. \A t \in Titles : Titled(Retitle(a, t))
  BY DEF Titled, Retitle, Announcement, Drafts
<1>2. \A n \in Notices : Titled(AddVariants(a, n))
  BY DEF Titled, AddVariants, Announcement, Drafts
<1>3. \A c \in Covers : Titled([a EXCEPT !.cover = c])
  BY DEF Titled, Announcement
<1>4. \A p \in Pipelines \cup {None} : Titled(PersistDraft(a, p))
  BY DEF Titled, PersistDraft, Announcement
<1>5. \A t : LET b == Retitle(a, t) IN
        b.draft.pipe = a.draft.pipe /\ b.draft.cover = a.draft.cover /\ b.cover = a.cover
  BY DEF Retitle, Announcement, Drafts
<1>6. \A n : LET b == AddVariants(a, n) IN
        b.draft.pipe = a.draft.pipe /\ b.draft.cover = a.draft.cover /\ b.cover = a.cover
  BY DEF AddVariants, Announcement, Drafts
<1> QED BY <1>1, <1>2, <1>3, <1>4, <1>5, <1>6 DEF InStep

\* A step that leaves the rows of i alone, and every handler of i but those that it
\* leaves in step.
LEMMA QuietInStep ==
  ASSUME NEW i \in Ids, InStepInv(i), sess'[i] = sess[i], ann'[i] = ann[i],
         \A w \in Workers : \/ job'[w] = job[w]
                            \/ ~Working(w, i)'
                            \/ HandlerInStep(job'[w], sess[i], ann[i])
  PROVE  InStepInv(i)'
<1>1. RowsInStep(i)'
  BY DEF InStepInv, RowsInStep, InStep, Titled, RepliesCoherent
<1>2. ASSUME NEW w \in Workers, Working(w, i)'
      PROVE  HandlerInStep(job'[w], sess[i], ann[i])
  BY <1>2 DEF InStepInv, Working
<1>3. \A w \in Workers : Working(w, i)' => HandlerInStep(job'[w], sess'[i], ann'[i])
  BY <1>2
<1> QED BY <1>1, <1>3 DEF InStepInv, HandlerInStep, InStep, Titled, PersistDraft, RepliesCoherent

\* The same for one handler that goes on with another job.
LEMMA AdvanceInStep ==
  ASSUME IInv, UNCHANGED db, NEW i \in Ids, InStepInv(i), NEW w \in Workers, NEW j,
         job' = [job EXCEPT ![w] = j],
         j # None /\ j.id = i => HandlerInStep(j, sess[i], ann[i])
  PROVE  InStepInv(i)'
<1>1. job'[w] = j /\ \A v \in Workers \ {w} : job'[v] = job[v]
  BY DEF IInv, TypeOK
<1>2. Working(w, i)' => HandlerInStep(job'[w], sess[i], ann[i])
  BY <1>1 DEF Working
<1> QED BY <1>1, <1>2, QuietInStep DEF db

\* A request loads the rows as they are, and what it assigns at once keeps them in step.
LEMMA ArriveInStep ==
  ASSUME IInv, NEW i \in Ids, InStepInv(i), NEW w \in Workers, Arrive(w)
  PROVE  InStepInv(i)'
<1> PICK k \in Ids :
      \/ \E kind \in TextKinds : SendMessage(w, k, kind)
      \/ UploadVoice(w, k)
      \/ UploadImages(w, k)
      \/ GeneratePlatformDrafts(w, k)
      \/ \E t \in Titles : UpdateAnnouncement(w, k, t)
      \/ \E n \in Notices : UpdatePlatformVariant(w, k, n)
      \/ DuplicateAnnouncement(w, k)
      \/ DeleteAnnouncement(w, k)
  BY DEF Arrive
<1>1. UNCHANGED db
  BY DEF SendMessage, UploadVoice, UploadImages, GeneratePlatformDrafts, UpdateAnnouncement,
     UpdatePlatformVariant, DuplicateAnnouncement, DeleteAnnouncement
<1>2. /\ ann[k] # None => ann[k] \in Announcement
      /\ sess[k] # None => sess[k] \in Session
      /\ k = i /\ ann[k] # None => Titled(ann[k])
      /\ k = i /\ sess[k] # None => InStep(sess[k], ann[k])
  BY DEF IInv, TypeOK, InStepInv, RowsInStep
<1>3. ASSUME NEW kind \in ChatKinds, NEW a, job' = [job EXCEPT ![w] = Request(kind, "call", k, sess[k], a)]
      PROVE  InStepInv(i)'
  <2> DEFINE j == Request(kind, "call", k, sess[k], a)
  <2>1. j.id = k /\ j.kind = kind /\ j.at = "call" /\ j.old = sess[k] /\ j.new = sess[k] /\ j.draft = None
    BY DEF Request
  <2>2. kind # "generate" /\ kind \notin EditKinds
    BY DEF ChatKinds, TextKinds, EditKinds
  <2> HIDE DEF j
  <2>3. HandlerInStep(j, sess[k], ann[k])
    BY <2>1, <2>2 DEF HandlerInStep
  <2> QED BY <1>1, <1>3, <2>1, <2>3, AdvanceInStep DEF j
<1>4. CASE GeneratePlatformDrafts(w, k)
  <2> DEFINE j == Request("generate", "call", k, sess[k], ann[k])
  <2>1. j.id = k /\ j.kind = "generate" /\ j.at = "call" /\ j.base = ann[k]
    BY DEF Request
  <2> HIDE DEF j
  <2>2. HandlerInStep(j, sess[k], ann[k])
    BY <2>1 DEF HandlerInStep, ChatKinds, TextKinds
  <2>3. job' = [job EXCEPT ![w] = j]
    BY <1>4 DEF GeneratePlatformDrafts, Begin, j
  <2> QED BY <1>1, <2>1, <2>2, <2>3, AdvanceInStep
<1>5. ASSUME NEW kind \in EditKinds \ {"generate"}, NEW e, ann[k] # None,
             k = i => Titled(e) /\ (sess[k] # None => InStep(sess[k], e)),
             job' = [job EXCEPT ![w] = [Request(kind, "commit", k, NewSession, ann[k]) EXCEPT !.edit = e]]
      PROVE  InStepInv(i)'
  <2> DEFINE j == [Request(kind, "commit", k, NewSession, ann[k]) EXCEPT !.edit = e]
  <2>1. j.id = k /\ j.kind = kind /\ j.at = "commit" /\ j.base = ann[k] /\ j.edit = e
    BY DEF Request
  <2>2. kind \notin ChatKinds /\ kind # "voice" /\ kind # "images" /\ kind \notin TextKinds
    BY DEF ChatKinds, TextKinds, EditKinds
  <2> HIDE DEF j
  <2>3. k = i => HandlerInStep(j, sess[k], ann[k])
    BY <1>5, <2>1, <2>2 DEF HandlerInStep
  <2> QED BY <1>1, <1>5, <2>1, <2>3, AdvanceInStep DEF j
<1>6. ASSUME NEW t \in Titles, UpdateAnnouncement(w, k, t)
      PROVE  InStepInv(i)'
  <2>1. k = i => Titled(Retitle(ann[k], t)) /\ (sess[k] # None => InStep(sess[k], Retitle(ann[k], t)))
    BY <1>2, <1>6, EditsInStep DEF UpdateAnnouncement
  <2> QED BY <1>5, <1>6, <2>1 DEF UpdateAnnouncement, Begin, EditKinds
<1>7. ASSUME NEW n \in Notices, UpdatePlatformVariant(w, k, n)
      PROVE  InStepInv(i)'
  <2>1. k = i => Titled(AddVariants(ann[k], n)) /\ (sess[k] # None => InStep(sess[k], AddVariants(ann[k], n)))
    BY <1>2, <1>7, EditsInStep DEF UpdatePlatformVariant
  <2> QED BY <1>5, <1>7, <2>1 DEF UpdatePlatformVariant, Begin, EditKinds
<1>8. CASE DeleteAnnouncement(w, k)
  <2> DEFINE j == Request("delete", "delete", k, NewSession, NewAnnouncement)
  <2>1. j.id = k /\ j.kind = "delete" /\ j.at = "delete"
    BY DEF Request
  <2> HIDE DEF j
  <2>2. HandlerInStep(j, sess[k], ann[k])
    BY <2>1 DEF HandlerInStep, ChatKinds, TextKinds, EditKinds
  <2>3. job' = [job EXCEPT ![w] = j]
    BY <1>8 DEF DeleteAnnouncement, Begin, j
  <2> QED BY <1>1, <2>1, <2>2, <2>3, AdvanceInStep
<1>9. CASE DuplicateAnnouncement(w, k)
  <2> DEFINE j == Request("duplicate", "commit", k, NewSession, ann[k])
  <2>1. j.id = k /\ j.kind = "duplicate" /\ j.at = "commit" /\ j.base = ann[k] /\ j.edit = ann[k]
    BY DEF Request
  <2> HIDE DEF j
  <2>2. k = i => HandlerInStep(j, sess[k], ann[k])
    BY <1>2, <1>9, <2>1 DEF HandlerInStep, ChatKinds, TextKinds, EditKinds, DuplicateAnnouncement
  <2>3. job' = [job EXCEPT ![w] = j]
    BY <1>9 DEF DuplicateAnnouncement, Begin, j
  <2> QED BY <1>1, <2>1, <2>2, <2>3, AdvanceInStep
<1>10. ASSUME NEW kind \in TextKinds, SendMessage(w, k, kind)
      PROVE  InStepInv(i)'
  BY <1>3, <1>10 DEF SendMessage, Begin, ChatKinds
<1>11. UploadVoice(w, k) \/ UploadImages(w, k) => InStepInv(i)'
  BY <1>3 DEF UploadVoice, UploadImages, Begin, ChatKinds
<1> QED BY <1>4, <1>6, <1>7, <1>8, <1>9, <1>10, <1>11

\* The reply of a pipeline brings slots of that pipeline or none, and its draft when it
\* is ready.
LEMMA ReceiveInStep ==
  ASSUME IInv, NEW i \in Ids, InStepInv(i), NEW w \in Workers, NEW p \in Pipelines, NEW r \in Replies,
         NEW kinds, kinds \subseteq TextKinds \cup {"voice"}, Handling(w, kinds, "call"), Receive(w, p, r)
  PROVE  InStepInv(i)'
<1> DEFINE n == AfterReply(job[w].old, p, turns[p] + 1, r)
           d == IF Completes(r) THEN p ELSE None
           j == [job[w] EXCEPT !.at = "flush", !.new = n, !.draft = d]
           k == job[w].id
<1>1. /\ job[w] \in Job /\ job[w] # None /\ job[w].kind \in TextKinds \cup {"voice"} /\ job[w].at = "call"
      /\ Safe(job[w])
  BY BusyJob DEF IInv, Handling, HandlersSafe, HandlerSafe
<1>2. /\ j.id = k /\ j.kind = job[w].kind /\ j.old = job[w].old
      /\ j.at = "flush" /\ j.new = n /\ j.draft = d
  BY <1>1 DEF Job
<1>3. /\ n.stt = p /\ n.stage = StageAfterReply(r) /\ n.slots.pipe \in {None, p}
      /\ r.slots => n.slots.pipe = p /\ n.slots.full = r.completed
  BY DEF AfterReply, NoSlots
<1>4. RepliesCoherent /\ StageAfterReply(r) = "draft_ready" => Completes(r)
  BY ReplyBringsDraft
<1>5. RepliesCoherent /\ Completes(r) => r.completed /\ r.slots
  BY DEF Completes, RepliesCoherent
<1>6. ASSUME sess[k] # None
      PROVE  InStep(n, PersistDraft(ann[k], d))
  <2>1. ann[k] \in Announcement
    BY <1>1, <1>6 DEF IInv, ReferencesHold, TypeOK, Job
  <2>2. Completes(r) => /\ PersistDraft(ann[k], d).draft.pipe = p
                        /\ PersistDraft(ann[k], d).draft.cover = PersistDraft(ann[k], d).cover
    BY <2>1, RowTypes DEF PersistDraft, Announcement
  <2> HIDE DEF n, d
  <2> QED BY <1>3, <1>4, <1>5, <2>2 DEF InStep
<1>7. job' = [job EXCEPT ![w] = j] /\ UNCHANGED db
  BY DEF Receive, Advance
<1>8. k = i => HandlerInStep(job[w], sess[i], ann[i])
  BY <1>1 DEF InStepInv, Working
<1>9. job[w].kind \in ChatKinds /\ job[w].kind \notin EditKinds /\ job[w].kind # "images"
  BY <1>1 DEF ChatKinds, TextKinds, EditKinds
<1>10. k = i => sess[i] # None
  BY <1>1, <1>8, <1>9, RowTypes DEF HandlerInStep, Job
<1> HIDE DEF j, n, d
<1>11. k = i => HandlerInStep(j, sess[i], ann[i])
  BY <1>2, <1>6, <1>8, <1>9, <1>10 DEF HandlerInStep, EditKinds
<1> QED BY <1>2, <1>7, <1>11, AdvanceInStep

\* So does every end of a call.
LEMMA AnsweredInStep ==
  ASSUME IInv, NEW i \in Ids, InStepInv(i), NEW w \in Workers, Answered(w)
  PROVE  InStepInv(i)'
<1> DEFINE k == job[w].id
<1>1. /\ job[w] # None => job[w] \in Job /\ Safe(job[w])
      /\ job[w] # None /\ job[w].at = "call" /\ k = i => HandlerInStep(job[w], sess[i], ann[i])
  BY DEF IInv, TypeOK, HandlersSafe, HandlerSafe, InStepInv, Working
<1>2. ASSUME NEW p \in Pipelines, NEW r \in Replies, StartPipeline(w, p, r)
      PROVE  InStepInv(i)'
  BY <1>2, ReceiveInStep DEF StartPipeline
<1>3. ASSUME NEW r \in Replies, AnswerPipeline(w, r)
      PROVE  InStepInv(i)'
  <2>1. job[w].old.stt \in Pipelines
    BY <1>3, BusyJob DEF AnswerPipeline, IsAnswer, Job, Session, IInv
  <2> QED BY <1>3, <2>1, ReceiveInStep DEF AnswerPipeline
<1>4. ASSUME NEW r \in Replies, AnswerLost(w, r)
      PROVE  InStepInv(i)'
  BY <1>4, AdvanceInStep DEF AnswerLost, Finish, Advance
<1>5. CASE NothingToProcess(w)
  <2> DEFINE j == [job[w] EXCEPT !.at = "flush", !.new.stage = StageWithNothingToProcess(@)]
  <2>1. /\ job[w] # None /\ job[w] \in Job /\ job[w].at = "call" /\ job[w].kind \in TextKinds
    BY <1>1, <1>5 DEF NothingToProcess, Handling
  <2>2. /\ j.id = k /\ j.kind = job[w].kind /\ j.old = job[w].old /\ j.at = "flush"
        /\ j.draft = job[w].draft /\ j.new.slots = job[w].new.slots /\ j.new.stt = job[w].new.stt
        /\ j.new.stage = StageWithNothingToProcess(job[w].new.stage) /\ job[w].new.stage \in Stages
    BY <2>1 DEF Job, Session
  <2>3. j.new.stage = job[w].new.stage
    BY <2>2 DEF StageWithNothingToProcess, Stages
  <2>4. job' = [job EXCEPT ![w] = j] /\ UNCHANGED db
    BY <1>5 DEF NothingToProcess, Advance
  <2>5. job[w].kind \in ChatKinds /\ job[w].kind \notin EditKinds /\ job[w].kind # "images"
    BY <2>1 DEF ChatKinds, TextKinds, EditKinds
  <2> HIDE DEF j
  <2>6. ASSUME k = i
        PROVE  HandlerInStep(j, sess[i], ann[i])
    <3>1. HandlerInStep(job[w], sess[i], ann[i])
      BY <1>1, <2>1, <2>6
    <3>2. job[w].new = sess[i] /\ job[w].old = sess[i] /\ j.draft = None
      BY <2>1, <2>2, <2>5, <3>1 DEF HandlerInStep
    <3>3. sess[i] # None
      BY <2>1, <3>2, RowTypes DEF Job
    <3>4. InStep(j.new, PersistDraft(ann[i], j.draft))
      BY <2>2, <2>3, <3>2, <3>3 DEF InStepInv, RowsInStep, InStep, PersistDraft
    <3> QED BY <2>2, <2>5, <3>2, <3>4 DEF HandlerInStep, EditKinds
  <2> QED BY <2>2, <2>4, <2>6, AdvanceInStep
<1>6. CASE SelectRepresentative(w)
  <2> DEFINE j == [job[w] EXCEPT !.at = "flush", !.new.stage = StageAfterPhotos(@)]
  <2>1. job[w] # None /\ job[w] \in Job /\ job[w].at = "call" /\ job[w].kind = "images"
    BY <1>1, <1>6 DEF SelectRepresentative, Handling
  <2>2. /\ j.id = k /\ j.kind = "images" /\ j.old = job[w].old /\ j.at = "flush"
        /\ j.new.slots = job[w].new.slots /\ j.new.stt = job[w].new.stt /\ j.new.stage = "clarifying"
    BY <2>1 DEF Job, Session, StageAfterPhotos
  <2>3. job' = [job EXCEPT ![w] = j] /\ UNCHANGED db
    BY <1>6 DEF SelectRepresentative, Advance
  <2>4. "images" \in ChatKinds /\ "images" \notin EditKinds /\ "images" \notin TextKinds
    BY DEF ChatKinds, TextKinds, EditKinds
  <2> HIDE DEF j
  <2>5. ASSUME k = i
        PROVE  HandlerInStep(j, sess[i], ann[i])
    <3>1. job[w].new = sess[i] /\ job[w].old = sess[i]
      BY <1>1, <2>1, <2>4, <2>5 DEF HandlerInStep
    <3>2. sess[i] # None
      BY <2>1, <3>1, RowTypes DEF Job
    <3>3. j.new.slots.pipe \in {None, j.new.stt}
      BY <2>2, <3>1, <3>2 DEF InStepInv, RowsInStep, InStep
    <3> QED BY <2>2, <2>4, <3>1, <3>3 DEF HandlerInStep
  <2> QED BY <2>2, <2>3, <2>5, AdvanceInStep
<1>7. ASSUME NEW n \in Notices, GenerateAll(w, n)
      PROVE  InStepInv(i)'
  <2> DEFINE j == [job[w] EXCEPT !.at = "commit", !.edit = AddVariants(job[w].base, n)]
  <2>1. job[w] # None /\ job[w] \in Job /\ job[w].at = "call" /\ job[w].kind = "generate"
    BY <1>1, <1>7 DEF GenerateAll, Handling
  <2>2. /\ j.id = k /\ j.kind = "generate" /\ j.at = "commit"
        /\ j.base = job[w].base /\ j.edit = AddVariants(job[w].base, n)
    BY <2>1 DEF Job
  <2>3. job' = [job EXCEPT ![w] = j] /\ UNCHANGED db
    BY <1>7 DEF GenerateAll, Advance
  <2> HIDE DEF j
  <2>4. ASSUME k = i
        PROVE  HandlerInStep(j, sess[i], ann[i])
    <3>1. job[w].base = ann[i] /\ ann[i] \in Announcement /\ ann[i] # None
      BY <1>1, <2>1, <2>4, RowTypes DEF HandlerInStep, Job
    <3>2. Titled(ann[i]) /\ (sess[i] # None => InStep(sess[i], ann[i]))
      BY <3>1 DEF InStepInv, RowsInStep
    <3>3. Titled(j.edit) /\ (sess[i] # None => InStep(sess[i], j.edit))
      BY <2>2, <3>1, <3>2, EditsInStep
    <3> QED BY <2>2, <3>1, <3>3 DEF HandlerInStep, ChatKinds, TextKinds
  <2> QED BY <2>2, <2>3, <2>4, AdvanceInStep
<1>8. CASE CallFails(w)
  BY <1>8, AdvanceInStep DEF CallFails, Finish, Advance
<1> QED BY <1>2, <1>3, <1>4, <1>5, <1>6, <1>7, <1>8 DEF Answered

\* Saving what the handler has brings the announcement in step with the session.
LEMMA PersistInStep ==
  ASSUME IInv, NEW i \in Ids, InStepInv(i), NEW w \in Workers, Persist(w)
  PROVE  InStepInv(i)'
<1> DEFINE k == job[w].id
<1>1. /\ job[w] # None /\ job[w] \in Job /\ k \in Ids /\ job[w].at = "flush"
      /\ job[w].kind \in ChatKinds
      /\ k = i => HandlerInStep(job[w], sess[i], ann[i])
  BY BusyJob DEF Persist, PersistReply, PersistPhotos, Handling, IInv, InStepInv, Working, ChatKinds
<1>2. UNCHANGED db
  BY DEF Persist, PersistReply, PersistPhotos, Flush
<1>3. sess[k] # None /\ ann[k] # None /\ ann[k] \in Announcement
  BY <1>1 DEF Persist, PersistReply, PersistPhotos, Flush, IInv, ReferencesHold, TypeOK
<1>4. k = i => Titled(ann[k])
  BY <1>3 DEF InStepInv, RowsInStep
<1>5. ASSUME NEW a, k = i => Titled(a) /\ InStep(job[w].new, a),
             job' = [job EXCEPT ![w] = [job[w] EXCEPT !.at = "commit", !.base = ann[k], !.edit = a]]
      PROVE  InStepInv(i)'
  <2> DEFINE j == [job[w] EXCEPT !.at = "commit", !.base = ann[k], !.edit = a]
  <2>1. /\ j.id = k /\ j.kind = job[w].kind /\ j.old = job[w].old /\ j.new = job[w].new
        /\ j.at = "commit" /\ j.base = ann[k] /\ j.edit = a
    BY <1>1 DEF Job
  <2>2. job[w].kind \notin EditKinds
    BY <1>1 DEF ChatKinds, TextKinds, EditKinds
  <2> HIDE DEF j
  <2>3. k = i => HandlerInStep(j, sess[i], ann[i])
    BY <1>1, <1>5, <2>1, <2>2 DEF HandlerInStep
  <2> QED BY <1>2, <1>5, <2>1, <2>3, AdvanceInStep DEF j
<1>6. CASE PersistReply(w)
  <2> DEFINE a == PersistDraft(ann[k], job[w].draft)
  <2>1. k = i => Titled(a)
    BY <1>1, <1>3, <1>4, EditsInStep DEF Job
  <2>2. k = i => InStep(job[w].new, a)
    BY <1>1, <1>6 DEF PersistReply, Handling, HandlerInStep
  <2> QED BY <1>5, <1>6, <2>1, <2>2 DEF PersistReply, Flush, Advance
<1>7. ASSUME NEW c \in Covers, PersistPhotos(w, c)
      PROVE  InStepInv(i)'
  <2> DEFINE a == [ann[k] EXCEPT !.cover = c]
  <2>1. k = i => Titled(a)
    BY <1>3, <1>4, EditsInStep
  <2>2. k = i => InStep(job[w].new, a)
    BY <1>1, <1>7 DEF PersistPhotos, Handling, HandlerInStep, InStep
  <2> QED BY <1>5, <1>7, <2>1, <2>2 DEF PersistPhotos, Flush, Advance
<1> QED BY <1>6, <1>7 DEF Persist

\* A commit of the only request about i stores its objects as they are.
LEMMA CommitInStep ==
  ASSUME IInv, NEW i \in Ids, InStepInv(i), InTurn(i),
         NEW w \in Workers, CommitChat(w) \/ CommitEdit(w)
  PROVE  InStepInv(i)'
<1> DEFINE j == job[w]
           k == job[w].id
<1>1. /\ j # None /\ j \in Job /\ k \in Ids /\ j.at = "commit" /\ Safe(j)
      /\ CommitChat(w) => j.kind \in ChatKinds
      /\ CommitEdit(w) => j.kind \in EditKinds
  BY BusyJob DEF CommitChat, CommitEdit, Handling, IInv, HandlersSafe, HandlerSafe
<1>2. \A v \in Workers \ {w} : job'[v] = job[v]
  BY DEF CommitChat, CommitEdit, Finish, Advance, IInv, TypeOK
<1>3. ~Working(w, i)'
  BY DEF CommitChat, CommitEdit, Finish, Advance, IInv, TypeOK, Working, Request
<1>4. CASE k # i
  <2>1. sess'[i] = sess[i] /\ ann'[i] = ann[i]
    BY <1>4 DEF CommitChat, CommitEdit, IInv, TypeOK
  <2> QED BY <1>2, <1>3, <2>1, QuietInStep
<1>5. CASE k = i
  <2>1. Working(w, i) /\ HandlerInStep(j, sess[i], ann[i])
    BY <1>1, <1>5 DEF Working, InStepInv
  <2>2. \A v \in Workers : ~Working(v, i)'
    BY <1>2, <1>3, <2>1 DEF InTurn, Working
  <2>3. ann[i] # None /\ ann[i] \in Announcement /\ j.base = ann[i] /\ j.edit \in Announcement /\ Titled(j.edit)
    BY <1>1, <2>1, RowTypes DEF HandlerInStep, Job
  <2>4. ann'[i] = j.edit
    <3>1. ann'[i] = Merge(ann[i], j.base, j.edit)
      BY <1>5 DEF CommitChat, CommitEdit, IInv, TypeOK
    <3> QED BY <2>3, <3>1, MergeInTurn
  <2>5. sess'[i] # None => InStep(sess'[i], j.edit)
    <3>1. CASE CommitChat(w)
      <4>1. j.old = sess[i] /\ sess[i] \in Session /\ j.new \in Session /\ InStep(j.new, j.edit)
        BY <1>1, <2>1, <3>1 DEF HandlerInStep, Job
      <4>2. sess'[i] = Merge(sess[i], j.old, j.new)
        BY <1>5, <3>1 DEF CommitChat, IInv, TypeOK
      <4> QED BY <4>1, <4>2, MergeInTurn
    <3>2. CASE CommitEdit(w)
      BY <1>1, <2>1, <3>2 DEF CommitEdit, HandlerInStep
    <3> QED BY <3>1, <3>2
  <2>6. RowsInStep(i)'
    BY <2>3, <2>4, <2>5 DEF RowsInStep, Titled, InStep, RepliesCoherent
  <2> QED BY <2>2, <2>6 DEF InStepInv
<1> QED BY <1>4, <1>5

\* A deletion leaves the rows as they are, or leaves none.
LEMMA DeleteInStep ==
  ASSUME IInv, NEW i \in Ids, InStepInv(i), InTurn(i), NEW w \in Workers, CommitDelete(w)
  PROVE  InStepInv(i)'
<1>1. job[w] # None /\ job[w].id \in Ids /\ job[w].at = "delete"
  BY BusyJob DEF CommitDelete, Handling, IInv
<1>2. job'[w] = None /\ \A v \in Workers \ {w} : job'[v] = job[v]
  BY DEF CommitDelete, Finish, Advance, IInv, TypeOK
<1>3. CASE sess'[i] = sess[i] /\ ann'[i] = ann[i]
  BY <1>2, <1>3, QuietInStep DEF Working
<1>4. CASE job[w].id = i /\ sess'[i] = None /\ ann'[i] = None
  <2>1. \A v \in Workers : ~Working(v, i)'
    BY <1>1, <1>2, <1>4 DEF InTurn, Working
  <2> QED BY <1>4, <2>1 DEF InStepInv, RowsInStep
<1> QED BY <1>3, <1>4 DEF CommitDelete, db, IInv, TypeOK

\* New rows are in step, and no request is about them yet.
LEMMA CreateInStep ==
  ASSUME IInv, NEW i \in Ids, InStepInv(i), NEW l \in Ids, CreateSession(l)
  PROVE  InStepInv(i)'
<1>1. job' = job
  BY DEF CreateSession
<1>2. CASE i # l
  <2>1. sess'[i] = sess[i] /\ ann'[i] = ann[i]
    BY <1>2 DEF CreateSession, IInv, TypeOK
  <2> QED BY <1>1, <2>1, QuietInStep
<1>3. CASE i = l
  <2>1. i \notin used
    BY <1>3 DEF CreateSession
  <2>2. \A w \in Workers : ~Working(w, i)'
    BY <1>1, <2>1 DEF Working, IInv, HandlersSafe, HandlerSafe, Safe
  <2>3. sess'[i] = NewSession /\ ann'[i] = NewAnnouncement
    BY <1>3 DEF CreateSession, IInv, TypeOK
  <2> QED BY <2>2, <2>3
      DEF InStepInv, RowsInStep, InStep, Titled, NewSession, NewAnnouncement, NoSlots, NoDraft
<1> QED BY <1>2, <1>3

\* So is a copy, whatever it is a copy of.
LEMMA DuplicateInStep ==
  ASSUME IInv, NEW i \in Ids, InStepInv(i), NEW w \in Workers, NEW l \in Ids, CommitDuplicate(w, l)
  PROVE  InStepInv(i)'
<1>1. job'[w] = None /\ \A v \in Workers \ {w} : job'[v] = job[v]
  BY DEF CommitDuplicate, Finish, Advance, IInv, TypeOK
<1>2. CASE i # l
  <2>1. sess'[i] = sess[i] /\ ann'[i] = ann[i]
    BY <1>2 DEF CommitDuplicate, IInv, TypeOK
  <2> QED BY <1>1, <2>1, QuietInStep DEF Working
<1>3. CASE i = l
  <2>1. i \notin used /\ sess[i] = None
    BY <1>3 DEF CommitDuplicate, IInv, ReferencesHold
  <2>2. \A v \in Workers : ~Working(v, i)'
    BY <1>1, <2>1 DEF Working, IInv, HandlersSafe, HandlerSafe, Safe
  <2>3. job[w].base \in Announcement
    BY BusyJob DEF CommitDuplicate, Job, IInv
  <2>4. sess'[i] = None /\ ann'[i] = Clone(job[w].base)
    BY <1>3, <2>1 DEF CommitDuplicate, IInv, TypeOK
  <2>5. Titled(Clone(job[w].base))
    BY <2>3 DEF Titled, Clone, Announcement, Drafts
  <2> QED BY <2>2, <2>4, <2>5 DEF InStepInv, RowsInStep, Titled
<1> QED BY <1>2, <1>3

\* Every step keeps the rows of i in step while its requests come one after the other.
LEMMA NextInStep ==
  ASSUME IInv, NEW i \in Ids, InStepInv(i), InTurn(i), [Next]_vars
  PROVE  InStepInv(i)'
<1>1. ASSUME NEW w \in Workers, RowGone(w) \/ EndStream(w)
      PROVE  InStepInv(i)'
  BY <1>1, AdvanceInStep DEF RowGone, EndStream, Finish, Advance
<1>2. CASE Restart
  BY <1>2, QuietInStep DEF Restart, db, Working
<1>3. CASE UNCHANGED vars
  BY <1>3, QuietInStep DEF vars
<1> QED
  BY <1>1, <1>2, <1>3, CreateInStep, DuplicateInStep, ArriveInStep, AnsweredInStep, PersistInStep, CommitInStep, DeleteInStep
  DEF Next, Commit

\* The empty database is in step.
LEMMA InitInStep ==
  ASSUME Init, NEW i \in Ids
  PROVE  InStepInv(i) /\ InTurn(i)
BY DEF Init, InStepInv, RowsInStep, InTurn, Working

\* An announcement whose owner waits for each answer stays in step with its session,
\* whatever is in flight about other announcements.
THEOREM OneInStep ==
  ASSUME NEW i \in Ids
  PROVE  Spec /\ []InTurn(i) => []RowsInStep(i)
<1>1. Init => InStepInv(i)
  BY InitInStep
<1>2. IInv /\ InStepInv(i) /\ InTurn(i) /\ [Next]_vars => InStepInv(i)'
  BY NextInStep
<1>3. InStepInv(i) => RowsInStep(i)
  BY DEF InStepInv
<1> QED BY <1>1, <1>2, <1>3, Invariance, PTL DEF Spec

AllInStep ==
  /\ IInv
  /\ \A i \in Ids : InTurn(i) /\ InStepInv(i)

\* All announcements are in step when every owner waits.
LEMMA InTurnInvariance == InTurnSpec => []AllInStep
<1>1. Init => AllInStep
  BY InitInvariant, InitInStep DEF AllInStep
<1>2. AllInStep /\ [Next /\ \A i \in Ids : InTurn(i)']_vars => AllInStep'
  <2> SUFFICES ASSUME AllInStep, [Next /\ \A i \in Ids : InTurn(i)']_vars
               PROVE  AllInStep'
    OBVIOUS
  <2>1. [Next]_vars
    OBVIOUS
  <2>2. IInv'
    BY <2>1, NextInvariant DEF AllInStep
  <2>3. \A i \in Ids : InTurn(i)'
    <3>1. CASE UNCHANGED vars
      BY <3>1 DEF AllInStep, InTurn, Working, vars
    <3> QED BY <3>1
  <2>4. \A i \in Ids : InStepInv(i)'
    BY <2>1, NextInStep DEF AllInStep
  <2> QED BY <2>2, <2>3, <2>4 DEF AllInStep
<1> QED BY <1>1, <1>2, PTL DEF InTurnSpec

\* A session holds slots of no other pipeline than the one it will answer next, also
\* after replies that bring no slots (_process_user_input, upload_voice).
THEOREM SlotsInTurn == InTurnSpec => []SlotsFollowPipeline
<1>1. AllInStep => SlotsFollowPipeline
  BY DEF AllInStep, InStepInv, RowsInStep, InStep, SlotsFollowPipeline
<1> QED BY <1>1, InTurnInvariance, PTL

\* An announcement and its draft have the same title.
THEOREM TitlesInTurn == InTurnSpec => []TitlesAgree
<1>1. AllInStep => TitlesAgree
  BY DEF AllInStep, InStepInv, RowsInStep, Titled, TitlesAgree
<1> QED BY <1>1, InTurnInvariance, PTL

\* The draft of a session that is draft_ready was made from its slots, which are
\* complete.
THEOREM DraftInTurn ==
  ASSUME RepliesCoherent
  PROVE  InTurnSpec => []DraftFollowsSlots
<1>1. AllInStep => DraftFollowsSlots
  BY DEF AllInStep, InStepInv, RowsInStep, InStep, DraftFollowsSlots
<1> QED BY <1>1, InTurnInvariance, PTL

\* The draft of a session that is draft_ready shows the photo of its announcement.
THEOREM CoverInTurn ==
  ASSUME RepliesCoherent
  PROVE  InTurnSpec => []CoverFollowsPhotos
<1>1. AllInStep => CoverFollowsPhotos
  BY DEF AllInStep, InStepInv, RowsInStep, InStep, CoverFollowsPhotos
<1> QED BY <1>1, InTurnInvariance, PTL

=============================================================================
