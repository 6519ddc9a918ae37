# TLA+ models of the AdoptAI backend

The AdoptAI backend (`src/`) is a FastAPI service.  An owner talks to a chat, by
text, voice and photos; an STT service turns that into the draft of an adoption
announcement; the announcement is edited, gets platform variants, and is
duplicated or deleted.  Around this there are accounts, login sessions and files.

The backend runs every request in an `async` handler with a SQLAlchemy session
of its own, over PostgreSQL at the default isolation level READ COMMITTED.
Handlers take no explicit locks (`FOR UPDATE` occurs nowhere) and no version
columns.  They load rows, may wait minutes for another service with the
transaction open, assign to the loaded objects and commit.  What can go wrong is
therefore what happens *between* those steps, and that is what the models are
about.  The unit tests of the repository (`src/tests`) cover two pure functions.

## Inventory

| Component | State | Operations | Module |
|---|---|---|---|
| Chat router (`routers/chat.py`, `domain/chat_workflow.py`) | `chat_sessions` (stage, pipeline, slots), `messages` | create a session; text, streamed, voice, photo messages; platform drafts | `ChatWorkflow` |
| Announcements router (`routers/announcements.py`) | `announcements` (status, title, photos, draft) | edit, edit of a variant, duplicate, delete | `ChatWorkflow` |
| STT client, conversation logic (`services/stt.py`, `services/ai.py`) | pipelines (in the external service) | start, answer, complete, generate-all | `ChatWorkflow` |
| What a client may rely on | life of an announcement; accounts and links; columns of a row; the schema and who serves | each operation as one step | `AnnouncementLifecycle`, `AccountDirectory`, `AtomicColumns`, `SchemaUpgrade` |
| ORM and database (`core/database.py`) | open transactions; the pool and the row locks | load, flush, commit, rollback; take a connection, wait for a lock | in all modules; `Serving` |
| Login sessions, reset links (`routers/auth.py`, `core/session.py`, `domain/auth_policy.py`) | `refresh_tokens`, `token_blacklist`, `password_reset_tokens` | register, login, refresh, forgot, reset, change of the password, logout | `AuthSessions` |
| Social login, registration (`routers/oauth.py`, `services/oauth.py`) | `users`, `oauth_accounts` | callback, register | `Accounts` |
| File storage, uploads (`services/storage.py`, `routers/uploads.py`, `upload_images`) | files on the disk, objects in S3 | save, delete, discard the copy | `ImageStorage` |
| Vision client (`services/vision.py`) | none | choose a photo | outcome only, in `ImageStorage` |
| Profile and notification settings (`routers/users.py`), shelter profile (`routers/shelters.py`) | one row per user each | update, get or create, partial update, upsert | `Settings` |
| Schema bootstrap and migrations (`bootstrap_database.py`, `alembic/`) | the schema, `alembic_version` | look, stamp, upgrade | `Bootstrap` |
| Current user (`dependencies.py`) | none | a check before every handler | as a guard, in `AuthSessions` |
| Slots, schemas, mail, application, seed | none of their own | reads, validation, wiring | see *Not modelled* |

How they interact:

- every handler shares the database and nothing else; two handlers meet in rows,
  in row locks, in unique constraints and in foreign keys;
- the chat handlers call the STT service over HTTP with timeouts of up to 180 s,
  in the middle of a transaction; the photo handler calls the storage and the
  vision service the same way;
- the answer of `pipeline/start` decides whether `pipeline/complete` is called,
  and both together decide stage, slots and draft, which belong to two rows;
- a social login reads the provider's profile before it looks for users;
- the handlers of a chat share fifteen connections and two rows; a request keeps its
  connection while it waits for another service;
- containers that start together share the database before it has its schema;
- a logout lists the access token and deletes refresh tokens; `get_current_user`
  asks that list.

Hard behaviours, and the properties that make each component correct:

- *Chat and announcements.*  Rows loaded before an `await` are stale when they are
  assigned to.  The ORM then writes the columns that changed, so commits **merge**.
  Correct means: nothing dangles when an announcement is deleted under a message
  in flight; `draft_ready` always comes with a draft; variants come with review;
  no announcement is left without the draft it had, or taken out of review; and for an
  owner who waits for each answer the session, its slots, the draft, the title and the
  photo stay in step, whatever other owners do.
- *Connections and locks.*  A request waits for the pool, for rows and for services.
  Correct means: no circle of waits, a silent service holds up as few as possible, and
  every request ends.
- *Login sessions.*  Checks and writes are apart.  Correct means: a used or
  replaced link is dead; a token that was rotated is gone; and while requests come one
  after the other a logout and a reset end all sessions, one link at most is valid, it is
  for one use, and nobody gets a 500.
- *Settings.*  A row is loaded whole and merged later, or created by whoever comes first.
  Correct means: requests about different columns do not disturb each other, no stale
  value comes back, and a request that lost the race finds the row when it is repeated;
  in short, each column behaves as a register of its own.
- *Bootstrap.*  Containers look at the database, stamp and upgrade, together and with
  restarts.  Correct means: none serves on an old schema, the recorded revision is the
  one reached, and all come to serve.
- *Accounts.*  Two first logins, or a login and a registration, race for an address
  or an identity.  Correct means: one account per address, one user per identity
  for ever, no account nobody can enter; in short, each login and each registration
  behaves as one step.
- *Storage.*  A request makes several files, each in up to two places, and any step
  may fail.  Correct means: a URL given out leads to a file, copies are temporary,
  and a rejected upload leaves nothing.

`PROJECT.json` lists the hazards line by line, each with the properties that would
catch it.

## Modules

Four modules are abstract specifications, in which an operation is one step and a failed
one is none: `AnnouncementLifecycle`, which `ChatWorkflow` implements, `AccountDirectory`,
which `Accounts` implements, `AtomicColumns`, which `Settings` implements, and
`SchemaUpgrade`, which `Bootstrap` implements.
`ChatWorkflow`, `Serving`, `AuthSessions`, `Accounts`, `ImageStorage`, `Settings`
and `Bootstrap` model the code; each `MC...` module adds symmetry and values for TLC,
and each `..._proofs` module the theorems.  The theorems of the chat are in two modules: what
holds whatever is in flight is in `ChatWorkflow_proofs`, what concerns stages and drafts
in `ChatDrafts_proofs`.  The components other than the chat share no rows with it, so they
are checked apart.  `AuthSessions`, `Accounts` and `Settings` meet
in `users`: the first is about one user, with the password as a number; the second is
about which users there are; for the third it is a row with columns.  `ChatWorkflow` and
`Serving` are two views of the same handlers: what they do with the rows, and what they
wait for in which order.

Some definitions stand beside the code's own under a comment such as "a handler that
forgets ...": they are the mutants of `PROJECT.json`, the changed form of the
definition after them, with which a property must fail.

### ChatWorkflow

A worker is a handler with a connection.  Its steps are:

1. *arrive* (`SendMessage`, `UploadVoice`, `UploadImages`,
   `GeneratePlatformDrafts`, `UpdateAnnouncement`, `UpdatePlatformVariant`,
   `DuplicateAnnouncement`, `DeleteAnnouncement`): the opening selects and guards, up
   to the first call;
2. the *answer* (`StartPipeline`, `AnswerPipeline`, `NothingToProcess`,
   `SelectRepresentative`, `GenerateAll`) or the failure (`CallFails`,
   `AnswerLost`) of the other service;
3. *flush* (`PersistReply`, `PersistPhotos`): the changed session is written,
   which waits for the row lock, and then the announcement is read afresh;
4. *commit* (`CommitChat`, `CommitEdit`, `CommitDuplicate`, `CommitDelete`), or a 500
   when the row is gone (`RowGone`); a streamed message then holds its connection until
   `EndStream`.

`CreateSession` is a single step: it inserts rows with new identities that nobody else
can touch before the commit, and reads nothing.  A duplicate is one of what was read: by
its commit the source may be edited, drafted anew or gone.

| Model | Code |
|---|---|
| `sess[i]` | row of `chat_sessions`: `stage`, `stt_session_id`, `stt_slots` |
| `ann[i]` | row of `announcements`: `status`, `title`, `photos`, `draft` |
| `msgs` | which sessions have rows in `messages` |
| `job[w].old`, `.new`, `.base`, `.edit` | the ORM objects, as loaded and as assigned |
| `Merge` | the UPDATE of the columns that differ from the loaded ones |
| `Locked`, `Pinned` | the row lock of an UPDATE, the key-share lock of a foreign key |
| `missed` | a deletion whose DELETE of messages did not see a later message |
| `turns`, `done` | the STT service: inputs a pipeline took, whether it has its slots |

Abstractions.  The title stands for title, description and pet_info, which the
handlers assign together.  The list of photos is its first, the representative.
A draft is known by the pipeline it was made from; slots by their pipeline, the
number of inputs and whether they are completed.  The platform variants are one
text or none, so the titles in it, which `update_announcement` sets too, are left out of
`Retitle`.  A new photo has a name that differs from the one it replaces.  The
session is loaded by `_require_session` and held; the announcement is not, so the
later SELECT reads it afresh.  A reply of the STT service has slots or none, which is
stored as `NULL` (`AfterReply`), and a body that is no JSON is one without anything
(`stt.py:25`).  `PROJECT.json` maps each definition to its lines.

`AnnouncementLifecycle` says what an announcement may become: empty, drafted, in review,
deleted, each from those before it.  A copy begins as anything its original is or has been
(`Past`), since what is copied may have changed since it was read.

`Spec` lets any requests run together.  `InTurnSpec` is the same workflow for owners who
wait for an answer before they send the next request about an announcement (`InTurn`);
requests about other announcements, and copies of it, run at the same time.  A request
counts until it has committed: the rest of a streamed answer touches no row.

### Serving

A request is an order of steps: `Text`, `Voice`, `Images`, `Generate`, `Edit` and
`Delete` say which step may follow which, read off the statements of each handler in
the order in which the session flushes them.  A lock is a step of its own, named after
the statement that takes it.

| Model | Code |
|---|---|
| `req[r]` | the handler of a request and its next step |
| `conn`, `others` | connections that the chat's requests, and those of other chats, have taken from the pool (`database.py:14`) |
| `held[r]` | row locks: `"pin"` is the key-share lock of `messages.session_id` |
| `head`, `behind` | PostgreSQL's line for a row: one waits for the holders, the rest for its place |
| `PoolTimeout`, `CallFails` | `pool_timeout`, the HTTP timeouts and errors |
| `Queue`, `TakePlace`, `Wake`, `Member` | who waits in line, who is next or looks at a new version of the row, and that a holder who wants more does not stand in line |
| `Elsewhere` | requests of other chats take and give back connections |

A commit gives the connection back, and `db.refresh` takes one again, which may fail;
a stream, or an answer after a refresh, keeps its connection until it has been sent
(`Respond`).  All kinds are alike before the first query, which is that of
`get_current_user`, and after the commit, so a request has a kind only in between
(`KindsAt`, `AfterCommit`), which keeps the state space small.  `Voice` fixes an order
inside one flush, of the session's UPDATE and the first message, that the code leaves to
the ORM; both are locks of the session row.  The modelled requests are
about one chat, the case in which they meet; those of other chats meet them in the pool
only, as `others`.

### AuthSessions

One account.  A handler is two steps, what it reads and what it writes with its
commit.  That the writes are one step is justified by the locks: a transaction that
waits for a row waits for one that waits for nothing (reset goes users, link, refresh
tokens; forgot goes links, then the foreign key to users), and on waking the
statement looks at the row again.  `era` counts the resets.  `account` is the password:
the number of the reset that set it, or that set the password whose owner changed it,
so that a change by `update_me` keeps the number it verified.  A refresh token carries the
number it was opened under, as does each token rotated from it.  `link[l]` is the row of a
reset link; it may be used from the moment it is stored, whether or not the mail arrives.
An access token comes back until its session expires, which is later than its own end
(24 hours), so a superset of the requests is allowed.  `alone` is a history variable: it
is true until two requests are handled at the same time.  `closed`, the tokens handed
out before the last logout, is another.  The properties of requests that
come one after the other start with it, so the run with two handlers checks both kinds.

### Accounts

A callback is four steps: exchange of the code, look-up of the identity, look-up of
the address, the writes with the commit.  `profile` is the address that the provider
has for an identity; the owner may change or withdraw it at any time.  `OAuthError` is a
failure that leads back to the login page, `BadAnswer` one of shape that the handler does
not catch; `BadAnswers` says whether there are any.  A callback whose
state does not match the cookie changes nothing and is left out.  The placeholder
address of an identity is the identity itself: its reserved domain is not accepted in
a registration.  Users are inserted before links, so writers cannot wait for each
other in a circle.  No code deletes users or links.

`AccountDirectory` has the same tables without the handlers: a sign-up, a first login that
joins an account or opens one, a later login, a new password.  `ImplementsDirectory` hides
`profile`, `failed` and `job`, and a request takes effect when it commits.

### ImageStorage

A request saves its files one by one; `key` is the one being saved, `keys` those it
saved before.  `fate` is a ghost: what became of the request that made the key.
The bucket may lose an answer or refuse a deletion (`refused`).  Files of a request
that fails after the photos are saved are `abandoned`: they stay in storage, the code
promises nothing about them, and no property is stated of them.

### Settings

One row of one table, `notification_settings`, `shelters` or `users`, chosen in the
initial state: no request touches two of them, and every query is restricted to the
user.  A handler is *load* (`UpdateMe`, `GetNotificationSettings`,
`UpdateNotificationSettings`, `UpsertMyShelter`), for the first settings an `Insert`, and
`Commit`.  The `Insert` waits for another one that is not committed, as the unique index
makes it.  A new shelter is inserted with its commit.  `ask` maps the columns that a
request assigns to their values; `Merge` writes those that differ from the loaded ones.
`alone` (columns that no two requests have changed at the same time) and `last` (what
was asked for last) are history variables.  The guard of `update_me`, the current
password, is in `AuthSessions`; here a password is a column like the name.

`AtomicColumns` has a register for each column instead of a row.  A request that succeeds
has, for each value it asks for, found it in its register while it ran (`settled`) or
written it at its end.  The mapping of `ImplementsAtomicColumns` reads the default where
there is no row yet, `settled` is where the request and the row it loaded agree, so it is
`Merge` that decides whether the columns come out right.

### Bootstrap

| Model | Code |
|---|---|
| `fleet`, `found` | containers deployed, and the kind of database they meet |
| `schema` | tables, and columns that a migration adds or changes |
| `version` | rows of `alembic_version` |
| `ReadTables`, `ReadColumns` | `read_state`, two looks at the catalogue |
| `BeginStamp`, `CommitStamp` | `command.stamp`, from reading the heads to its commit |
| `BeginUpgrade`, `CommitUpgrade` | `command.upgrade` with the four migrations |
| `Fail`, `Kill` | `set -e` in the entry point, and `restart: unless-stopped` |

`Adds` is what each migration creates, and `Applies` when PostgreSQL accepts it: an object
that is there is an error, as is one that is missing.  Stamp and upgrade change
`version` the way alembic does, row by row, and fail when a row they change is gone.
Initially the database is empty, or one of the three that `create_all` made, or at any
revision.

`SchemaUpgrade` has only the schema and the containers that serve: one step takes the
database to the current schema, and whoever serves does so from then on.  `Bootstrap`
implements it because the migrations that a container finds pending are never too few,
although others stamp and upgrade meanwhile, and none is applied when there are too many.

## Runs

| Run | Instance | States | What it shows |
|---|---|---|---|
| ChatInTurn | 2 handlers, 2 announcements with one request at a time each, 2 pipelines of 2 inputs, replies with and without slots | 547 000 | slots, draft, title and photo stay in step |
| ChatConcurrent | 2 handlers, 2 announcements (one a duplicate), 2 pipelines, variants | 403 000 | references, draft_ready, stale objects, review; the lifecycle is implemented |
| AuthConcurrent | 2 handlers, 2 tokens, 2 links | 906 000 | rotation, spent and replaced links; in turn: logout, one link, one use, resets, no 500 |
| AccountsConcurrent | 2 handlers, 3 users, 2 identities, 2 addresses | 969 000 | one account, one user, none stranded; `AccountDirectory` is implemented |
| Storage | 2 handlers, 4 files, at most 3 photos, both backends | 26 000 | files given out, copies, rollback |
| Serving | 3 requests of one chat, 3 connections shared with other chats, fairness | 165 000 | no circle of waits, the pool, calls hold up deletions only, every request ends |
| Bootstrap | 1 to 3 containers, every kind of database, 2 kills, fairness | 42 000 | `SchemaUpgrade` is implemented, the stamp fits, all come to serve |
| Settings | 3 handlers, 2 columns, 2 values, each of the tables | 155 000 | first requests, merges; `AtomicColumns` is implemented |
| ChatStale, AuthLinks, AuthReuse, AccountsCallback | 2 handlers | - | the findings below |

Bounds, and why they are enough:

- *Handlers.*  Every property is about one row or a pair of rows, and it is broken by
  one handler that commits between two steps of another.  Two handlers have every such
  interleaving, one after the other as often as the other bounds allow.  What three at once
  could add is covered for the properties with a theorem, which holds for any number.
- *Announcements.*  Announcements meet only in `DuplicateAnnouncement`, which takes two.
  `ChatConcurrent` goes on from two kinds of state (`TalkingOrReviewing`): one announcement
  without variants, with every request of a chat; and up to two announcements whose
  pipelines took one input and that have no photos, with every edit, variant and copy.
  The lifecycle and review do not look at photos, or at what led to a draft.
- *Pipelines and inputs.*  Two pipelines are needed for the slots of one and the draft
  of the other.  Two inputs give a start and an answer, and an answer that completes
  what an earlier one left open.
- *Titles, photos, variants.*  One title that differs from the generated ones and from
  that of a copy; one photo and one text of variants, which differ from having none.  The
  messages are streamed ones, which do what the others do and end later; `ChatInTurn` leaves
  out the variants, which touch none of the columns that its properties are about.
- *Tokens and links.*  A session and its rotation are two tokens; two links are one and
  its replacement.  What a third would add is covered by the theorems, which hold for any
  number of both.
- *Requests and connections.*  Three requests are a holder, the head of a line and one
  behind it, or two messages and a deletion.  Such a line takes three connections, which
  the requests of other chats exhaust at any moment; 15 are out of reach, and
  `NoDeadlock` and `TypeCorrect` are proved for any number.
- *Containers and kills.*  Three are one that stamps, one that upgrades and one that
  comes late; two kills hit two starts, or one container twice.
- *Columns and values.*  Two columns, one that a request changes and one that it does not;
  two values, the default and another.
- *Accounts.*  Two identities of two addresses collide in every way; three users are one
  more than can come of them besides a registration.
- *Photos.*  Three give a first, a middle and a last one; four files are one more than
  one request can hold.

`CHECK_DEADLOCK FALSE` appears where identities are bounded: when all are given out and
deleted the model has nothing left to do, and the program would go on with new ones; in
`Bootstrap` nothing is left to do once the deployed containers serve; in `Serving`
requests always go on arriving.  `Settings` checks for deadlock.  Symmetry is
used for safety only, never with liveness.

Some properties hold only of requests that do not meet: `DraftFollowsSlots`,
`SlotsFollowPipeline`, `TitlesAgree` and `CoverFollowsPhotos` are checked under
`InTurnSpec` (`ChatInTurn`), and the first of them fails without it (`ChatStale`);
`OneLinkInTurn`, `LinkForOneUseInTurn`, `SessionsEndWithLogout`, `SessionsEndWithReset` and
`OnlyRacesFail` say so themselves, with `alone`; `StampMatchesSchema` and
`EveryContainerServes` speak of one container where the database is a legacy one
(`OneAtATime`).  Where the code or its documentation states one of them without such a
condition, and requests in flight together break it, there is a finding or a remark below.

### Fairness

`Serving` assumes of each request:

- weak fairness of going on or standing in line (`GoOn`, `Queue`): the pool serves or
  times out, the HTTP client has a timeout, so a call ends although the service is silent
  (no answer of a service is assumed); the event loop runs a coroutine that can go on; a
  stream ends or its client goes away; PostgreSQL puts a transaction that has to wait for
  a row in line;
- strong fairness of being served (`Served`): who stands behind comes to be the next
  (`TakePlace`), and the next takes its lock when it is free or finds the row gone;
- but not of the lock that a deletion takes of the session: key-share
  locks of new messages need not wait in line, so they may overtake a waiting DELETE for
  ever.  That is why `RequestsFinish` assumes that no deletion waits for ever.

`Bootstrap` assumes weak fairness of a container's steps: the restart policy starts it
again, and a script that can go on does.  The number of kills is bounded.

## Findings

Four runs end in a violation, each of something a comment or docstring says.

- `ChatStale` - `_persist_draft` (`chat.py:109`) keeps announcement and chat "in sync as
  one transaction".  A text answer and a voice memo in flight together leave the slots of
  one pipeline next to the draft of the other.
- `AuthLinks` - `auth.py:173` says there is at most one valid link.  Two requests for a
  mail at the same time leave two.
- `AuthReuse` - `auth.py:234` says that a reset link is for one use.  Two resets with one
  link at the same time both find it unused (`auth.py:239`), and both change the password.
- `AccountsCallback` - `oauth.py:155` says that any failure goes back to the login page.
  A callback that races a registration of its address, or another first callback, gets a
  500 from the unique constraint (`oauth.py:94`, `oauth.py:96`).  So does one whose provider
  answers with something else than a JSON object (`services/oauth.py:113`, `:158`), which
  that run leaves out.

Other things the models show, which no comment excludes and for which there is no run:

- of two logouts at the same time with one token the second meets the unique `jti` and
  gets a 500 (`auth.py:292`);
- of two rotations of one refresh token at the same time both succeed, and two tokens
  replace it (`auth.py:136`; the DELETE of a row that is gone is no error);
- a rotation that has read its token (`auth.py:121`) before a logout and commits
  (`auth.py:138`) after the DELETE of the logout (`auth.py:298`) goes on under the new token;
- a change or a generation of variants in flight may bring back the draft it has read, over
  one written since (`chat.py:325`);
- a login or a rotation that has read before a reset and commits after it keeps its session
  (`auth.py:258`), and a change of the password in flight overwrites the password that the
  reset has set (`users.py:44`);
- access tokens are not listed by a reset, so they stay valid up to 24 hours after it;
- two first requests for the notification settings at the same time: one gets a 500
  (`users.py:67`);
- two containers that start together on a legacy database: one may stamp after the other
  has upgraded, and later upgrades fail until the version is repaired
  (`bootstrap_database.py:79`).  The containers that serve do so on the current schema.

## Proofs

`tlapm` checks the eight proof modules to the last leaf.

| Module | Theorems |
|---|---|
| `ChatWorkflow_proofs` | `TypeCorrect`, `References`, `Variants`, `Implements` |
| `ChatDrafts_proofs` | `DraftReady`, `StaleObjects`; in turn: `OneInStep`, `SlotsInTurn`, `TitlesInTurn`, `DraftInTurn`, `CoverInTurn` |
| `AuthSessions_proofs` | `TypeCorrect`, `SpentLinksStaySpent`, `ReplacedLinks`, `Rotation`; in turn: `OneLink`, `OneUse`, `ResetEndsSessions`, `LogoutEndsSessions`, `RacesAlone` |
| `Accounts_proofs` | `TypeCorrect`, `OneAccount`, `SameUser`, `NoneStranded`, `JoinsAccount`, `Implements` |
| `ImageStorage_proofs` | `TypeCorrect`, `Given`, `Copies`, `Rejected` |
| `Serving_proofs` | `TypeCorrect`, `NoDeadlock`, `CallsHoldUpFew` |
| `Bootstrap_proofs` | `TypeCorrect`, `Serves`, `StampFits`, `Implements` |
| `Settings_proofs` | `TypeCorrect`, `ChangesStand`, `RetryWorks`, `NothingElseChanges`, `Implements` |

Each rests on an inductive invariant `IInv` (theorem `Invariance`), with a lemma for
each action or group of actions.

- *ChatWorkflow.*  Three layers.  The first, `IInv`, needs no assumption about the STT
  service.  `RowsReviewed` is not inductive: it says nothing of the objects that handlers
  hold.  `HandlersSafe` does: an object may be behind its row but never ahead of it
  (`Since`), and the assignments take nothing away (`EditKeeps`), so a merge preserves rows
  that are `Reviewed`.  This says nothing of *which* draft a row has: a stale one may return.
  The references hold because a session with an uncommitted message
  is pinned, and a deletion that missed a message fails.  `Implements` maps each step to a
  step of the lifecycle or to none.  The second, `ReadyInv`, is about `draft_ready`: a
  handler about to store it brings the draft (`BringsDraft`), or the row has one already,
  and no draft goes away (`Grows`).  The third, `InStepInv(i)`, is about one announcement
  while its own requests come in turn: what the one handler at work has loaded is what is
  stored, so its merge stores what it assigned (`MergeInTurn`), and what it assigned is in
  step.  `OneInStep` needs no more than `InTurn` of that announcement; the four properties
  follow for all of them together.
- *AuthSessions.*  `RowsIssued`, `JobsIssued` and `Opened`: a token is handed out before
  it is stored, listed or sent in.  A replacement is
  newer than what it replaces, which is therefore never handed out again (`Rotation`).  The
  properties of requests in turn rest on a second invariant, `TurnInv`: as long as `alone`
  holds there is at most one job, what it has read is what is stored, and the sessions that are
  open are of this `era` and not `closed`.
- *Accounts.*  `JobsHold`: what a callback found is still so when it writes, since neither
  users nor links go away and no address of a user changes; what it did *not* find is
  decided by the unique constraints.  So a commit that succeeds is a step of
  `AccountDirectory`, and every other step changes nothing there (`DirectorySteps`).
- *ImageStorage.*  `HeldFiles`: an open request holds its files alone, so what it deletes
  is nobody else's; `JobsConsistent`: what it saved is stored.
- *Serving.*  `LocksFit` says which locks a handler may hold at each step, `Compatible`
  that locks held together do not conflict, `LineFits` who may stand in line.  Then each
  request has a rank, by the row it wants and by whether it holds a lock of it already or
  stands in line, and it waits only for requests of a higher rank (`RankGrows`), so the
  highest of a set waits for none of it.
- *Bootstrap.*  The schema is always that of a revision (`Reached`) and no earlier than
  the recorded ones (`Recorded`), and what a container saw is still there (`BootHolds`),
  since nothing is ever dropped.  Where one container meets a legacy database, what it
  saw is moreover exact (`Solo`), which gives `StampFits`.  For `Implements`, the pending
  migrations complete the schema (`PendingCompletes`), whoever has recorded what.
- *Settings.*  `JobsFit`: a row that was loaded stays; `OneCreator`: one INSERT at a
  time is open; `OneByOne`: a column that one request at a time changes has not moved
  since that request loaded it, so the merge drops no change.  For `Implements`, a `Load`
  or an `Insert` settles what agrees with the row, and a commit writes the rest
  (`CommitWrites`).

Assumptions.  `None` differs from every value, `BadAnswers` is a Boolean, bounds are
positive, placeholders are not
addresses, defaults are values.  Four theorems of `ChatDrafts_proofs`, those that speak of
`draft_ready` (`DraftReady`, `StaleObjects`, `DraftInTurn`, `CoverInTurn`), also assume
`RepliesCoherent`: the STT service calls slots ready for the notice, without another
question, only when it calls them completed, and sends the slots it calls completed.
The backend relies on that without checking
it (`chat.py:160`, `ai.py:79`); a service that did otherwise could leave `draft_ready`
without a draft, or without slots.

`JoinsAccount`, `Serves` and `NothingElseChanges` state single properties that the abstract
specifications imply; no run checks those separately.

Only model-checked: liveness under fairness (`RequestsFinish`, `EveryContainerServes`),
which the prover does not reach.

## Not modelled

- What a client is told after the commit: a failed `db.refresh` is an end of a request
  in `Serving`, no more.
- `publish`, which answers 501 and changes nothing, and all reads.
- JWT signatures, bcrypt, cookies; pydantic schemas and the slots router, which keep no
  state; the mail; the development seed; downgrades and the offline mode of alembic.
- `pool_recycle`; of requests outside the chat, all but the connections they use.
- External parts, modelled only from their use: the STT service, S3, the providers,
  PostgreSQL, SQLAlchemy and alembic, time, and the end of the process.

## Plan

The order was: the chat workflow and its lifecycle, which is what the program is for;
then sessions, accounts and storage; then what requests wait for, the settings and the
bootstrap.  Next:

1. An abstract specification of a login session (open, rotated, ended) that
   `AuthSessions` implements, and one of the fate of files for `ImageStorage`.
2. A refinement from the handlers of `ChatWorkflow` to the orders of `Serving`.
3. The order of the messages in a session (`created_at`), which a client restores from.
