---------------------------- MODULE ChatWorkflow ----------------------------
(***************************************************************************)
(* The announcement workflow of the backend: the chat router, the          *)
(* announcements router and the STT service they call, over one PostgreSQL *)
(* database at READ COMMITTED.                                             *)
(*                                                                         *)
(* A request handler is a worker.  It loads rows into ORM objects, may     *)
(* wait a long time for another service, changes the objects and commits.  *)
(* The ORM writes only the columns that the handler changed, over the row  *)
(* as it is by then (Merge); a handler that fails writes nothing.          *)
(* Steps of different workers interleave at every await that matters: the  *)
(* calls to other services, the wait for a row lock, the commit.           *)
(*                                                                         *)
(* The chat session of an announcement has the announcement's identity: a  *)
(* session is created with its announcement and never given to another.    *)
(* The requests are those of the owner; anyone else's are turned away by   *)
(* RequireSession or the user_id filter and change nothing.                *)
(***************************************************************************)
EXTENDS Integers

CONSTANTS
  Workers,    \* request handlers, each with a connection of its own
  Ids,        \* identities of announcements (and of their chat sessions)
  Pipelines,  \* pipelines the STT service may be asked to start (a bound)
  MaxTurns,   \* how many inputs one pipeline takes (a bound)
  Replies,    \* what a pipeline may reply: slots, completed, ready and question
  Titles,     \* titles the owner may type
  CopyTitle,  \* the title of a duplicate
  Covers,     \* representative photos
  Notices,    \* texts of the platform variants of an announcement
  Requests,   \* the kinds of request the owner sends
  None        \* a missing row, or a null column

VARIABLES
  sess,     \* chat_sessions: the row of each session, or None
  ann,      \* announcements: the row of each announcement, or None
  msgs,     \* the sessions that have rows in messages
  used,     \* identities ever given out (a uuid is never given out twice)
  turns,    \* STT service: inputs each pipeline has taken, 0 if not started
  done,     \* STT service: the pipelines that have all their slots
  job,      \* the request each worker is handling, or None
  missed    \* workers deleting a session that got a message they did not see

vars == <<sess, ann, msgs, used, turns, done, job, missed>>
db == <<sess, ann, msgs, used>>
stt == <<turns, done>>

-----------------------------------------------------------------------------
(* Rows and requests. *)

TextKinds == {"text", "stream"}
ChatKinds == TextKinds \cup {"voice", "images"}
EditKinds == {"generate", "patch", "variant"}
Kinds == ChatKinds \cup EditKinds \cup {"create", "duplicate", "delete"}

\* The stages of schemas.Stage that a handler ever writes.
Stages == {"start", "processing", "clarifying", "draft_ready"}

AllTitles == Titles \cup Pipelines \cup {CopyTitle, None}

\* stt_slots: the pipeline they came from, after how many inputs, and whether
\* the pipeline then called them completed.
Slots == [pipe : Pipelines \cup {None}, turn : 0 .. MaxTurns, full : BOOLEAN]

Session == [stage : Stages, stt : Pipelines \cup {None}, slots : Slots]

\* A draft without a pipeline is the null draft.
Drafts == [pipe : Pipelines \cup {None}, title : AllTitles,
           cover : Covers \cup {None}, variants : Notices \cup {None}]

Announcement == [status : {"draft", "in_review"}, title : AllTitles,
                 cover : Covers \cup {None}, draft : Drafts]

\* old and new: the ChatSession as loaded and as assigned; base and edit: the
\* same for the Announcement; draft: the pipeline whose draft is to be saved.
Job == [kind : Kinds, at : {"call", "flush", "commit", "delete", "stream"}, id : Ids,
        old : Session, new : Session, draft : Pipelines \cup {None},
        base : Announcement, edit : Announcement]

NoSlots == [pipe |-> None, turn |-> 0, full |-> FALSE]
NoDraft == [pipe |-> None, title |-> None, cover |-> None, variants |-> None]

NewSession == [stage |-> "start", stt |-> None, slots |-> NoSlots]

NewAnnouncement == [status |-> "draft", title |-> None, cover |-> None, draft |-> NoDraft]

ASSUME BoundAssumption == MaxTurns \in Nat \ {0}

ASSUME ReplyAssumption ==
  Replies \subseteq [slots : BOOLEAN, completed : BOOLEAN, ready : BOOLEAN, question : BOOLEAN]

ASSUME RequestAssumption == Requests \subseteq Kinds

ASSUME NoneAssumption ==
  None \notin Pipelines \cup Titles \cup Covers \cup Notices \cup {CopyTitle} \cup Session \cup Announcement \cup Job

-----------------------------------------------------------------------------
(* What the ORM and the database do for every handler. *)

\* What an UPDATE of every column would do.
MergeEveryColumn(row, old, new) == new

\* The unit of work writes the columns whose value differs from the loaded one.
Merge(row, old, new) == [c \in DOMAIN row |-> IF new[c] = old[c] THEN row[c] ELSE new[c]]

Handling(w, kinds, at) == job[w] # None /\ job[w].kind \in kinds /\ job[w].at = at

\* A session row that a transaction has updated and not yet committed.
Locked(i) == \E v \in Workers :
  Handling(v, ChatKinds, "commit") /\ job[v].id = i /\ job[v].new # job[v].old

\* A session row that cannot be deleted yet: updated by an open transaction, or
\* referenced by a message that one has inserted (the key-share lock of the
\* foreign key).  A text message is inserted before the call to the STT service.
Pinned(i) == \E v \in Workers :
  /\ \/ Handling(v, ChatKinds, "commit")
     \/ Handling(v, TextKinds, "call")
     \/ Handling(v, TextKinds, "flush")
  /\ job[v].id = i

Dirty(j) == j.new # j.old

RequireSession(i) == sess[i] # None /\ ann[i] # None

EnsureSessionWritable(s) == s.stage \notin {"publishing", "published"}

Request(kind, at, i, s, a) ==
  [kind |-> kind, at |-> at, id |-> i, old |-> s, new |-> s, draft |-> None,
   base |-> a, edit |-> a]

Begin(w, kind, j) == kind \in Requests /\ job[w] = None /\ job' = [job EXCEPT ![w] = j]

Advance(w, j) == job' = [job EXCEPT ![w] = j]

Finish(w) == Advance(w, None) /\ missed' = missed \ {w}

-----------------------------------------------------------------------------
(* A handler that one transaction of consecutive statements completes: it only     *)
(* inserts rows, with identities that nobody else has before the commit.           *)

CreateSession(i) ==
  /\ "create" \in Requests
  /\ i \notin used
  /\ used' = used \cup {i}
  /\ ann' = [ann EXCEPT ![i] = NewAnnouncement]
  /\ sess' = [sess EXCEPT ![i] = NewSession]
  /\ UNCHANGED <<msgs, stt, job, missed>>

-----------------------------------------------------------------------------
(* A handler begins: it loads the rows it works on. *)

\* send_message and stream_message, up to the call: the owner's message is
\* inserted and not committed.
SendMessage(w, i, kind) ==
  /\ RequireSession(i) /\ EnsureSessionWritable(sess[i])
  /\ Begin(w, kind, Request(kind, "call", i, sess[i], NewAnnouncement))
  /\ UNCHANGED <<db, stt, missed>>

UploadVoice(w, i) ==
  /\ RequireSession(i) /\ EnsureSessionWritable(sess[i])
  /\ Begin(w, "voice", Request("voice", "call", i, sess[i], NewAnnouncement))
  /\ UNCHANGED <<db, stt, missed>>

UploadImages(w, i) ==
  /\ RequireSession(i) /\ EnsureSessionWritable(sess[i])
  /\ Begin(w, "images", Request("images", "call", i, sess[i], NewAnnouncement))
  /\ UNCHANGED <<db, stt, missed>>

CanGeneratePlatformDrafts(stage, hasDraft) == hasDraft /\ stage \in {"draft_ready", "editing"}

GeneratePlatformDrafts(w, i) ==
  /\ RequireSession(i)
  /\ sess[i].slots.pipe # None
  /\ CanGeneratePlatformDrafts(sess[i].stage, ann[i].draft.pipe # None)
  /\ Begin(w, "generate", Request("generate", "call", i, sess[i], ann[i]))
  /\ UNCHANGED <<db, stt, missed>>

\* An edit that leaves the draft with its old title.
RetitleColumnOnly(a, t) == [a EXCEPT !.title = t]

\* update_announcement: title and draft.  (The titles inside platform variants, which
\* it sets as well, are part of a text that is one value here.)
Retitle(a, t) ==
  [a EXCEPT !.title = t, !.draft.title = IF a.draft.pipe = None THEN @ ELSE t]

UpdateAnnouncement(w, i, t) ==
  /\ ann[i] # None
  /\ Begin(w, "patch", [Request("patch", "commit", i, NewSession, ann[i]) EXCEPT
                          !.edit = Retitle(ann[i], t)])
  /\ UNCHANGED <<db, stt, missed>>

\* The variants are a new value of the draft, whose other entries stay.
AddVariants(a, n) == [a EXCEPT !.status = "in_review", !.draft.variants = n]

UpdatePlatformVariant(w, i, n) ==
  /\ ann[i] # None
  /\ ann[i].draft.pipe # None
  /\ Begin(w, "variant", [Request("variant", "commit", i, NewSession, ann[i]) EXCEPT
                            !.edit = AddVariants(ann[i], n)])
  /\ UNCHANGED <<db, stt, missed>>

DuplicateAnnouncement(w, i) ==
  /\ ann[i] # None
  /\ Begin(w, "duplicate", Request("duplicate", "commit", i, NewSession, ann[i]))
  /\ UNCHANGED <<db, stt, missed>>

\* The handler has deleted the messages it saw; the rest waits for the lock.
DeleteAnnouncement(w, i) ==
  /\ ann[i] # None
  /\ Begin(w, "delete", Request("delete", "delete", i, NewSession, NewAnnouncement))
  /\ UNCHANGED <<db, stt, missed>>

-----------------------------------------------------------------------------
(* The answer of the other service. *)

\* pipeline_messages: a question asks the owner for more.
PipelineStage(r) ==
  IF r.question THEN "clarifying" ELSE IF r.ready THEN "draft_ready" ELSE "processing"

Completes(r) == r.completed /\ r.ready

StageAfterReply(r) == IF Completes(r) THEN "draft_ready" ELSE PipelineStage(r)

\* A handler that takes the pipeline and leaves the slots as they were.
AfterReplyKeepingSlots(s, p, n, r) == [s EXCEPT !.stage = StageAfterReply(r), !.stt = p]

\* One that has the old slots stand in for those that a reply does not bring.
AfterReplyOrOldSlots(s, p, n, r) ==
  [stage |-> StageAfterReply(r), stt |-> p,
   slots |-> IF r.slots THEN [pipe |-> p, turn |-> n, full |-> r.completed] ELSE s.slots]

\* A reply without slots leaves none.
AfterReply(s, p, n, r) ==
  [stage |-> StageAfterReply(r), stt |-> p,
   slots |-> IF r.slots THEN [pipe |-> p, turn |-> n, full |-> r.completed] ELSE NoSlots]

\* The STT service takes an input and replies; it does not forget what it has.
TakeInput(p, r) ==
  /\ turns[p] < MaxTurns
  /\ p \in done /\ r.slots => r.completed
  /\ turns' = [turns EXCEPT ![p] = @ + 1]
  /\ done' = IF r.completed THEN done \cup {p} ELSE done

\* pipeline/start or pipeline/answer, and pipeline/complete when the reply
\* completes the slots: only then there is a draft to save.
Receive(w, p, r) ==
  /\ TakeInput(p, r)
  /\ Advance(w, [job[w] EXCEPT
                   !.at = "flush",
                   !.new = AfterReply(job[w].old, p, turns[p] + 1, r),
                   !.draft = IF Completes(r) THEN p ELSE None])
  /\ UNCHANGED <<db, missed>>

\* _process_user_input: what a text message is for, by the session as loaded.
IsAnswer(s) == s.stt # None /\ s.stage = "clarifying"
IsStart(s) == ~IsAnswer(s) /\ s.stage \in {"start", "uploading", "processing", "clarifying"}

StartPipeline(w, p, r) ==
  /\ \/ Handling(w, {"voice"}, "call")
     \/ Handling(w, TextKinds, "call") /\ IsStart(job[w].old)
  /\ turns[p] = 0
  /\ Receive(w, p, r)

AnswerPipeline(w, r) ==
  /\ Handling(w, TextKinds, "call")
  /\ IsAnswer(job[w].old)
  /\ Receive(w, job[w].old.stt, r)

StageWithNothingToProcess(stage) == IF stage \in {"draft_ready", "editing"} THEN "draft_ready" ELSE stage

NothingToProcess(w) ==
  /\ Handling(w, TextKinds, "call")
  /\ ~IsAnswer(job[w].old) /\ ~IsStart(job[w].old)
  /\ Advance(w, [job[w] EXCEPT !.at = "flush", !.new.stage = StageWithNothingToProcess(@)])
  /\ UNCHANGED <<db, stt, missed>>

\* A handler that would leave the stage alone after new photos,
StageKeptAfterPhotos(stage) == stage
\* and one that would use the stage whose name fits.
UploadingAfterPhotos(stage) == "uploading"

\* process_images: new photos always ask for the story again.
StageAfterPhotos(stage) == "clarifying"

SelectRepresentative(w) ==
  /\ Handling(w, {"images"}, "call")
  /\ Advance(w, [job[w] EXCEPT !.at = "flush", !.new.stage = StageAfterPhotos(@)])
  /\ UNCHANGED <<db, stt, missed>>

GenerateAll(w, n) ==
  /\ Handling(w, {"generate"}, "call")
  /\ Advance(w, [job[w] EXCEPT !.at = "commit", !.edit = AddVariants(job[w].base, n)])
  /\ UNCHANGED <<db, stt, missed>>

\* The service answers with an error, or not before the timeout, or the answer to a
\* start names no session: the handler raises and its transaction is rolled back.
CallFails(w) ==
  /\ Handling(w, Kinds, "call")
  /\ Finish(w)
  /\ UNCHANGED <<db, stt>>

\* The same when the pipeline did take the answer and its reply, or that of
\* pipeline/complete after it, is lost.
AnswerLost(w, r) ==
  /\ Handling(w, TextKinds, "call")
  /\ IsAnswer(job[w].old)
  /\ TakeInput(job[w].old.stt, r)
  /\ Finish(w)
  /\ UNCHANGED db

-----------------------------------------------------------------------------
(* The handler saves what it has. *)

\* A handler that returns before it saves the draft of its own reply.
PersistNoDraft(a, p) == a

\* _persist_draft: the whole draft is replaced, platform variants included; the
\* completion has no representative photo, so the first photo is taken.
PersistDraft(a, p) ==
  IF p = None THEN a
  ELSE [a EXCEPT !.title = p,
                 !.draft = [pipe |-> p, title |-> p, cover |-> a.cover, variants |-> None]]

\* A session changed in memory is written before the next statement; this waits
\* for the row lock.  Only then the announcement is read.
Flush(w, edit) ==
  LET i == job[w].id IN
  /\ sess[i] # None
  /\ Dirty(job[w]) => ~Locked(i)
  /\ Advance(w, [job[w] EXCEPT !.at = "commit", !.base = ann[i], !.edit = edit])
  /\ UNCHANGED <<db, stt, missed>>

PersistReply(w) ==
  /\ Handling(w, TextKinds \cup {"voice"}, "flush")
  /\ Flush(w, PersistDraft(ann[job[w].id], job[w].draft))

\* The new photos replace the old ones; each stored photo has a name of its own.
PersistPhotos(w, c) ==
  /\ Handling(w, {"images"}, "flush")
  /\ ann[job[w].id] # None => c # ann[job[w].id].cover
  /\ Flush(w, [ann[job[w].id] EXCEPT !.cover = c])

\* The UPDATE finds no row, or the message's foreign key no session: a 500.
RowGone(w) ==
  /\ \/ Handling(w, ChatKinds, "flush") /\ sess[job[w].id] = None
     \/ Handling(w, EditKinds, "commit") /\ ann[job[w].id] = None
  /\ Finish(w)
  /\ UNCHANGED <<db, stt>>

CommitChat(w) ==
  LET j == job[w]
      i == job[w].id IN
  /\ Handling(w, ChatKinds, "commit")
  /\ sess' = [sess EXCEPT ![i] = Merge(@, j.old, j.new)]
  /\ ann' = [ann EXCEPT ![i] = Merge(@, j.base, j.edit)]
  /\ msgs' = msgs \cup {i}
  /\ missed' = missed \cup {v \in Workers : Handling(v, {"delete"}, "delete") /\ job[v].id = i}
  /\ IF j.kind = "stream"
       THEN Advance(w, Request("stream", "stream", i, NewSession, NewAnnouncement))
       ELSE Advance(w, None)
  /\ UNCHANGED <<used, stt>>

\* event_generator ends or the client goes away: the connection is given back.
EndStream(w) ==
  /\ Handling(w, {"stream"}, "stream")
  /\ Finish(w)
  /\ UNCHANGED <<db, stt>>

CommitEdit(w) ==
  LET i == job[w].id IN
  /\ Handling(w, EditKinds, "commit")
  /\ ann[i] # None
  /\ ann' = [ann EXCEPT ![i] = Merge(@, job[w].base, job[w].edit)]
  /\ Finish(w)
  /\ UNCHANGED <<sess, msgs, used, stt>>

\* A copy that forgets that platform variants put an announcement in review.
CloneAsDraft(a) ==
  [a EXCEPT !.status = "draft", !.title = CopyTitle,
            !.draft.title = IF a.draft.pipe = None THEN None ELSE CopyTitle]

Clone(a) ==
  [a EXCEPT !.status = IF a.draft.variants # None THEN "in_review" ELSE "draft",
            !.title = CopyTitle,
            !.draft.title = IF a.draft.pipe = None THEN None ELSE CopyTitle]

\* The copy is one of what was loaded, whatever has become of the original since.
CommitDuplicate(w, j) ==
  /\ Handling(w, {"duplicate"}, "commit")
  /\ j \notin used
  /\ used' = used \cup {j}
  /\ ann' = [ann EXCEPT ![j] = Clone(job[w].base)]
  /\ Finish(w)
  /\ UNCHANGED <<sess, msgs, stt>>

\* Nothing would stop the deletion if messages.session_id were not a foreign key.
NeverReferenced(w) == FALSE

\* A message that the DELETE of messages did not see refers to the session.
StillReferenced(w) == w \in missed

\* The session goes, then the announcement; a message that still refers to the
\* session fails the transaction, a 500.
CommitDelete(w) ==
  LET i == job[w].id IN
  /\ Handling(w, {"delete"}, "delete")
  /\ ~Pinned(i)
  /\ IF StillReferenced(w)
       THEN UNCHANGED db
       ELSE /\ sess' = [sess EXCEPT ![i] = None]
            /\ ann' = [ann EXCEPT ![i] = None]
            /\ msgs' = IF w \in missed THEN msgs ELSE msgs \ {i}
            /\ used' = used
  /\ Finish(w)
  /\ UNCHANGED stt

\* The process dies and comes back: every open transaction is rolled back.
Restart ==
  /\ \E w \in Workers : job[w] # None
  /\ job' = [w \in Workers |-> None]
  /\ missed' = {}
  /\ UNCHANGED <<db, stt>>

-----------------------------------------------------------------------------
Init ==
  /\ sess = [i \in Ids |-> None]
  /\ ann = [i \in Ids |-> None]
  /\ msgs = {}
  /\ used = {}
  /\ turns = [p \in Pipelines |-> 0]
  /\ done = {}
  /\ job = [w \in Workers |-> None]
  /\ missed = {}

Arrive(w) == \E i \in Ids :
  \/ \E kind \in TextKinds : SendMessage(w, i, kind)
  \/ UploadVoice(w, i)
  \/ UploadImages(w, i)
  \/ GeneratePlatformDrafts(w, i)
  \/ \E t \in Titles : UpdateAnnouncement(w, i, t)
  \/ \E n \in Notices : UpdatePlatformVariant(w, i, n)
  \/ DuplicateAnnouncement(w, i)
  \/ DeleteAnnouncement(w, i)

Answered(w) ==
  \/ \E p \in Pipelines, r \in Replies : StartPipeline(w, p, r)
  \/ \E r \in Replies : AnswerPipeline(w, r) \/ AnswerLost(w, r)
  \/ NothingToProcess(w)
  \/ SelectRepresentative(w)
  \/ \E n \in Notices : GenerateAll(w, n)
  \/ CallFails(w)

Persist(w) == PersistReply(w) \/ \E c \in Covers : PersistPhotos(w, c)

Commit(w) ==
  \/ CommitChat(w)
  \/ CommitEdit(w)
  \/ \E j \in Ids : CommitDuplicate(w, j)
  \/ RowGone(w)
  \/ EndStream(w)

Next ==
  \/ \E i \in Ids : CreateSession(i)
  \/ \E w \in Workers : Arrive(w) \/ Answered(w) \/ Persist(w) \/ Commit(w) \/ CommitDelete(w)
  \/ Restart

Spec == Init /\ [][Next]_vars

\* A request is at work on an announcement until it has committed.
Working(w, i) == job[w] # None /\ job[w].id = i /\ job[w].at # "stream"

\* The owner waits for an answer before the next request about an announcement.
InTurn(i) == \A v, w \in Workers : Working(v, i) /\ Working(w, i) => v = w

\* The workflow of owners who do; different announcements may be at work together.
InTurnSpec == Init /\ [][Next /\ \A i \in Ids : InTurn(i)']_vars

-----------------------------------------------------------------------------
(* Properties. *)

\* The variables keep their types.  A stored session is only ever in one of the
\* stages in Stages: the guard of EnsureSessionWritable never turns a request
\* away, and "uploading" and "editing" exist in schemas.Stage alone.
TypeOK ==
  /\ sess \in [Ids -> Session \cup {None}]
  /\ ann \in [Ids -> Announcement \cup {None}]
  /\ msgs \in SUBSET Ids
  /\ used \in SUBSET Ids
  /\ turns \in [Pipelines -> 0 .. MaxTurns]
  /\ done \in SUBSET Pipelines
  /\ job \in [Workers -> Job \cup {None}]
  /\ missed \in SUBSET Workers

\* A message always has its session and a session its announcement, although
\* delete_announcement removes the three in separate statements while messages
\* may be on their way (announcements.py, delete_announcement; the foreign keys
\* of models/chat.py).
ReferencesHold == \A i \in Ids :
  /\ i \in msgs => sess[i] # None
  /\ sess[i] # None => ann[i] # None
  /\ ann[i] # None => i \in used

\* What the backend expects of the STT service: it calls slots ready for the
\* notice, without another question, only when it calls them completed, and sends
\* those that it calls completed.
RepliesCoherent == \A r \in Replies :
  /\ r.ready /\ ~r.question => r.completed
  /\ r.completed => r.slots

\* A session that says draft_ready has a draft, with any handlers in flight: the
\* stage and the draft are committed together and no handler takes either back
\* (send_message, upload_voice, _persist_draft).
DraftReadyHasDraft == \A i \in Ids :
  sess[i] # None /\ sess[i].stage = "draft_ready" => ann[i] # None /\ ann[i].draft.pipe # None

\* What an announcement row and its copy in a handler have in common: variants
\* only in review, review only with a draft.
Reviewed(a) ==
  /\ a.draft.variants # None => a.status = "in_review"
  /\ a.status = "in_review" => a.draft.pipe # None

\* An announcement with platform variants is in review, and one in review has a draft,
\* whichever request wrote the variants, copied them or replaced the draft
\* (generate_platform_drafts, update_platform_variant, duplicate_announcement,
\* _persist_draft).
RowsReviewed == \A i \in Ids : ann[i] # None => Reviewed(ann[i])

\* The assignments of a handler neither drop a draft nor leave review, and put an
\* announcement in review only when it was loaded with a draft.
EditKeeps(base, edit) ==
  /\ Reviewed(base) /\ Reviewed(edit)
  /\ edit.draft = base.draft \/ edit.draft.pipe # None
  /\ \/ edit.status = base.status
     \/ edit.status = "in_review" /\ base.draft.pipe # None

\* The row has since only gained what it lacked when it was loaded as a.
Since(row, a) ==
  /\ a.draft.pipe # None => row.draft.pipe # None
  /\ a.status = "in_review" => row.status = "in_review"

\* A handler about to store draft_ready over another stage brings the draft.
BringsDraft(j) ==
  j.new.stage = "draft_ready" /\ j.old.stage # "draft_ready" =>
    \/ j.at = "flush" /\ j.draft # None /\ j.kind # "images"
    \/ j.at = "commit" /\ j.edit.draft.pipe # None

\* The objects a handler holds across an await may be stale, but never ahead of
\* the rows they came from; a session with an uncommitted message stays.
Safe(j) ==
  /\ j.id \in used
  /\ (\/ j.kind \in ChatKinds /\ j.at = "commit"
      \/ j.kind \in TextKinds /\ j.at \in {"call", "flush"}) => sess[j.id] # None
  /\ EditKeeps(j.base, j.edit)
  /\ j.kind = "generate" => j.base.draft.pipe # None
  /\ ann[j.id] # None => Since(ann[j.id], j.base)

\* A handler stores draft_ready with a draft, or over rows that have both.
Ready(j) ==
  /\ BringsDraft(j)
  /\ ann[j.id] # None /\ j.old.stage = "draft_ready" => ann[j.id].draft.pipe # None

\* What stale objects cannot do: whatever the other handlers have committed since
\* they were loaded, a handler about to commit neither leaves an announcement that
\* has a draft without one, nor takes one out of review, nor stores draft_ready
\* without a draft.  They may do worse than nothing to the draft all the same: the
\* one that stays can be the older one, loaded before a newer one was committed
\* (the ORM objects across the awaits of chat.py and announcements.py).
HandlersConsistent == \A w \in Workers : job[w] # None => Safe(job[w]) /\ Ready(job[w])

\* The slots of a session, if it has any, are those of the pipeline it will answer
\* next, whatever the STT service replies: also after a reply without slots, when
\* another pipeline was started over them, or when a request failed half-way
\* (_process_user_input, upload_voice).
SlotsFollowPipeline == \A i \in Ids : sess[i] # None => sess[i].slots.pipe \in {None, sess[i].stt}

\* "Keep the announcement and chat workflow in sync as one transaction"
\* (_persist_draft): the draft of a draft_ready session was made from the
\* completed slots the session holds, which generate_platform_drafts sends on.
DraftFollowsSlots == \A i \in Ids :
  sess[i] # None /\ sess[i].stage = "draft_ready" =>
    /\ sess[i].slots.full
    /\ ann[i].draft.pipe = sess[i].slots.pipe

\* The title of a list entry is the title of the draft behind it.
TitlesAgree == \A i \in Ids :
  ann[i] # None /\ ann[i].draft.pipe # None => ann[i].draft.title = ann[i].title

\* The draft of a draft_ready session shows the representative photo that the
\* announcement leads with.
CoverFollowsPhotos == \A i \in Ids :
  sess[i] # None /\ sess[i].stage = "draft_ready" => ann[i].draft.cover = ann[i].cover

\* Where an announcement is in the lifecycle that a client sees.
Life(i) ==
  CASE ann[i] = None -> IF i \in used THEN "deleted" ELSE "absent"
    [] ann[i] # None /\ ann[i].status = "in_review" -> "in_review"
    [] ann[i] # None /\ ann[i].status = "draft" /\ ann[i].draft.pipe # None -> "drafted"
    [] OTHER -> "empty"

Lifecycle == INSTANCE AnnouncementLifecycle WITH life <- [i \in Ids |-> Life(i)]

\* Interleaved handlers, stale objects included, never take a draft away, never
\* take an announcement out of review or bring a deleted one back: the workflow
\* implements AnnouncementLifecycle.
ImplementsLifecycle == Lifecycle!LifeSpec

=============================================================================
