---------------------------- MODULE AuthSessions ----------------------------
(***************************************************************************)
(* The password, the login sessions and the password reset links of one    *)
(* account: the auth router, and the change of the password in the users   *)
(* router, over PostgreSQL at READ COMMITTED.  Every query is restricted   *)
(* to one user, so accounts do not meet.                                   *)
(*                                                                         *)
(* A handler reads, and writes what it decided in one transaction; other   *)
(* handlers may commit in between.  The second step of a handler is its    *)
(* writes and its commit: a row lock that a write waits for is held by a   *)
(* transaction that waits for nothing more, and the statements meet again  *)
(* the row they waited for, so the commits happen one after the other.     *)
(*                                                                         *)
(* A token stands for what one login hands out: the refresh token, a row,  *)
(* and the access token of the same response, whose jti it is.  A password *)
(* is a number: that of the reset that set it, or that set the password    *)
(* whose owner changed it.                                                 *)
(***************************************************************************)
EXTENDS Integers

CONSTANTS
  Workers,  \* request handlers
  Tokens,   \* identities of tokens (uuids)
  Links,    \* password reset links (random, stored as their hashes)
  None      \* a missing row

VARIABLES
  account,  \* users: the password, None without a user
  era,      \* how often the password was reset
  refresh,  \* refresh_tokens: the row of each token, or None
  issued,   \* tokens ever handed out
  listed,   \* token_blacklist: tokens whose jti it holds
  closed,   \* history: the tokens handed out before the last logout
  link,     \* password_reset_tokens: the row of each link
  resets,   \* how many password changes each link has made
  expired,  \* tokens and links whose time has passed
  failed,   \* kinds of requests that ended with a 500
  alone,    \* history: no two requests were ever handled at the same time
  job       \* the request each worker is handling, or None

vars == <<account, era, refresh, issued, listed, closed, link, resets, expired, failed, alone, job>>
rows == <<account, era, refresh, issued, listed, closed, link, resets>>

-----------------------------------------------------------------------------
Kinds == {"register", "login", "refresh", "forgot", "reset", "change", "logout"}

\* A row of refresh_tokens: the password it was opened under, and the token it
\* replaced.
Row == [under : Nat, from : Tokens \cup {None}]

\* A link never sent, in the table unused or used, or deleted from the table.
LinkStates == {"unsent", "unused", "used", "deleted"}

\* What a handler has read: the password of the user, or a token and its row,
\* the links to delete, the link, or the token and whether it is listed.
Job ==
  [kind : {"register"}]
  \cup [kind : {"login", "change"}, under : Nat]
  \cup [kind : {"refresh"}, token : Tokens, row : Row]
  \cup [kind : {"forgot"}, seen : SUBSET Links]
  \cup [kind : {"reset"}, link : Links]
  \cup [kind : {"logout"}, token : Tokens, found : BOOLEAN]

ASSUME NoneAssumption == None \notin Row \cup Job \cup Nat \cup Tokens

Live == {l \in Links : link[l] = "unused"}

Handling(w, kind) == job[w] # None /\ job[w].kind = kind

Begin(w, j) ==
  /\ job[w] = None
  /\ job' = [job EXCEPT ![w] = j]
  /\ alone' = (alone /\ \A v \in Workers : job[v] = None)
  /\ UNCHANGED <<rows, expired, failed>>

Finish(w) == job' = [job EXCEPT ![w] = None] /\ UNCHANGED <<expired, failed, alone>>

\* An exception the handler does not expect: nothing is written, the client
\* gets a 500.
Crash(w) ==
  /\ job' = [job EXCEPT ![w] = None]
  /\ failed' = failed \cup {job[w].kind}
  /\ UNCHANGED <<rows, expired, alone>>

-----------------------------------------------------------------------------
(* Handlers read. *)

\* The e-mail address is free.
Register(w) == account = None /\ Begin(w, [kind |-> "register"])

\* The owner knows the password; the handler verifies it against the row.
Login(w) == account # None /\ Begin(w, [kind |-> "login", under |-> account])

Refresh(w, t) ==
  /\ refresh[t] # None
  /\ t \notin expired
  /\ Begin(w, [kind |-> "refresh", token |-> t, row |-> refresh[t]])

\* A refresh token that has expired is deleted, and the client gets a 401.
RefreshExpired(t) ==
  /\ refresh[t] # None
  /\ t \in expired
  /\ refresh' = [refresh EXCEPT ![t] = None]
  /\ UNCHANGED <<account, era, issued, listed, closed, link, resets, expired, failed, alone, job>>

\* The DELETE of the earlier links reaches those that are committed.
ForgotPassword(w) ==
  /\ account # None
  /\ Begin(w, [kind |-> "forgot", seen |-> {l \in Links : link[l] \in {"unused", "used"}}])

\* A handler that looks the link up and asks no more of it.
UsableWhileStored(l) == link[l] \in {"unused", "used"}

IsPasswordResetTokenUsable(l) == link[l] = "unused" /\ l \notin expired

ResetPassword(w, l) ==
  /\ IsPasswordResetTokenUsable(l)
  /\ Begin(w, [kind |-> "reset", link |-> l])

\* decode_token: any access token handed out may come back, again and again, until
\* it expires, which it does long before the refresh token.
DecodeToken(t) == t \in issued /\ t \notin expired

GetCurrentUser(t) == DecodeToken(t) /\ t \notin listed

\* update_me with a new password: the handler verifies the current one against the
\* row that get_current_user has loaded.
ChangePassword(w, t) ==
  /\ GetCurrentUser(t)
  /\ Begin(w, [kind |-> "change", under |-> account])

Logout(w, t) ==
  /\ DecodeToken(t)
  /\ Begin(w, [kind |-> "logout", token |-> t, found |-> t \in listed])

-----------------------------------------------------------------------------
(* Handlers write and commit. *)

\* A handler that leaves the sessions of the account open.
KeepSessions == refresh

\* All refresh tokens of the user go.
DeleteSessions == [t \in Tokens |-> None]

\* issue_tokens: a row for a new token.
IssueTokens(t, row, others) ==
  /\ t \notin issued
  /\ issued' = issued \cup {t}
  /\ refresh' = [others EXCEPT ![t] = row]

\* The address was taken meanwhile: users.email is unique.
CommitRegister(w) ==
  /\ Handling(w, "register")
  /\ IF account # None
       THEN Crash(w)
       ELSE /\ account' = 0
            /\ \E t \in Tokens : IssueTokens(t, [under |-> 0, from |-> None], refresh)
            /\ UNCHANGED <<era, listed, closed, link, resets>>
            /\ Finish(w)

CommitLogin(w, t) ==
  /\ Handling(w, "login")
  /\ IssueTokens(t, [under |-> job[w].under, from |-> None], refresh)
  /\ UNCHANGED <<account, era, listed, closed, link, resets>>
  /\ Finish(w)

\* A rotation that forgets to delete the token it replaces.
KeepOldToken(t) == refresh

\* The ORM deletes the row by its key; a row that is gone already is no error.
DeleteOldToken(t) == [refresh EXCEPT ![t] = None]

CommitRefresh(w, t) ==
  /\ Handling(w, "refresh")
  /\ IssueTokens(t, [under |-> job[w].row.under, from |-> job[w].token],
                 DeleteOldToken(job[w].token))
  /\ UNCHANGED <<account, era, listed, closed, link, resets>>
  /\ Finish(w)

\* A handler that adds a link and leaves the earlier ones alone.
KeepLinks(l, seen) == [link EXCEPT ![l] = "unused"]

\* One that marks the earlier links, with a mark that nobody looks at.
MarkLinks(l, seen) ==
  [k \in Links |-> IF k = l THEN "unused" ELSE IF k \in seen THEN "replaced" ELSE link[k]]

ReplaceLinks(l, seen) ==
  [k \in Links |-> IF k = l THEN "unused" ELSE IF k \in seen THEN "deleted" ELSE link[k]]

CommitForgot(w, l) ==
  /\ Handling(w, "forgot")
  /\ link[l] = "unsent"
  /\ link' = ReplaceLinks(l, job[w].seen)
  /\ UNCHANGED <<account, era, refresh, issued, listed, closed, resets>>
  /\ Finish(w)

\* An UPDATE of used_at that does not mind finding no row, as one written in SQL
\* would not.
NeverGone(l) == FALSE

\* The UPDATE of used_at finds no row: the ORM raises StaleDataError.
LinkGone(l) == link[l] = "deleted"

\* A reset that forgets used_at.
LeaveUnused(l) == link

MarkUsed(l) == [link EXCEPT ![l] = "used"]

CommitReset(w) ==
  /\ Handling(w, "reset")
  /\ IF LinkGone(job[w].link)
       THEN Crash(w)
       ELSE /\ account' = era + 1 /\ era' = era + 1
            /\ link' = MarkUsed(job[w].link)
            /\ resets' = [resets EXCEPT ![job[w].link] = @ + 1]
            /\ refresh' = DeleteSessions
            /\ UNCHANGED <<issued, listed, closed>>
            /\ Finish(w)

\* The UPDATE sets the password whatever it has become: one set by a reset since is
\* overwritten.  The sessions stay.
CommitChange(w) ==
  /\ Handling(w, "change")
  /\ account' = job[w].under
  /\ UNCHANGED <<era, refresh, issued, listed, closed, link, resets>>
  /\ Finish(w)

\* A logout that lists a jti without looking whether it is listed.
InsertAnyway(j) == TRUE

\* The jti was not found when the handler looked.
InsertsEntry(j) == ~j.found

\* The INSERT meets the entry of another logout: token_blacklist.jti is unique.
CommitLogout(w) ==
  /\ Handling(w, "logout")
  /\ IF InsertsEntry(job[w]) /\ job[w].token \in listed
       THEN Crash(w)
       ELSE /\ listed' = listed \cup {job[w].token}
            /\ closed' = issued
            /\ refresh' = DeleteSessions
            /\ UNCHANGED <<account, era, issued, link, resets>>
            /\ Finish(w)

\* The process dies and comes back: open transactions are rolled back.
Restart ==
  /\ \E w \in Workers : job[w] # None
  /\ job' = [w \in Workers |-> None]
  /\ UNCHANGED <<rows, expired, failed, alone>>

\* Time passes.
Expire(x) ==
  /\ x \notin expired
  /\ x \in issued \cup {l \in Links : link[l] # "unsent"}
  /\ expired' = expired \cup {x}
  /\ UNCHANGED <<rows, failed, alone, job>>

-----------------------------------------------------------------------------
Init ==
  /\ account = None
  /\ era = 0
  /\ refresh = [t \in Tokens |-> None]
  /\ issued = {}
  /\ listed = {}
  /\ closed = {}
  /\ link = [l \in Links |-> "unsent"]
  /\ resets = [l \in Links |-> 0]
  /\ expired = {}
  /\ failed = {}
  /\ alone = TRUE
  /\ job = [w \in Workers |-> None]

Read(w) ==
  \/ Register(w)
  \/ Login(w)
  \/ \E t \in Tokens : Refresh(w, t)
  \/ ForgotPassword(w)
  \/ \E l \in Links : ResetPassword(w, l)
  \/ \E t \in Tokens : ChangePassword(w, t) \/ Logout(w, t)

Write(w) ==
  \/ CommitRegister(w)
  \/ \E t \in Tokens : CommitLogin(w, t)
  \/ \E t \in Tokens : CommitRefresh(w, t)
  \/ \E l \in Links : CommitForgot(w, l)
  \/ CommitReset(w)
  \/ CommitChange(w)
  \/ CommitLogout(w)

Next ==
  \/ \E w \in Workers : Read(w) \/ Write(w)
  \/ \E t \in Tokens : RefreshExpired(t)
  \/ \E x \in Tokens \cup Links : Expire(x)
  \/ Restart

Spec == Init /\ [][Next]_vars

-----------------------------------------------------------------------------
(* Properties. *)

\* The variables keep their types.  A token has one row for as long as it is a
\* refresh token, and a link that was sent is unused, used or deleted, whatever
\* the order of commits (models RefreshToken, PasswordResetToken).
TypeOK ==
  /\ account \in Nat \cup {None}
  /\ era \in Nat
  /\ refresh \in [Tokens -> Row \cup {None}]
  /\ issued \in SUBSET Tokens
  /\ listed \in SUBSET Tokens
  /\ closed \in SUBSET Tokens
  /\ link \in [Links -> LinkStates]
  /\ resets \in [Links -> Nat]
  /\ expired \in SUBSET (Tokens \cup Links)
  /\ failed \in SUBSET Kinds
  /\ alone \in BOOLEAN
  /\ job \in [Workers -> Job \cup {None}]

\* "There is always at most one valid link" (forgot_password): a new link ends
\* the earlier ones.
OneValidLink == \A k, l \in Live \ expired : k = l

\* ... which it does while requests come one after the other.
OneLinkInTurn == alone => OneValidLink

\* "The token is for one use" (reset_password): a link changes the password once.
LinkForOneUse == \A l \in Links : resets[l] =< 1

\* ... which holds while requests come one after the other, whatever else happens to
\* the link.
LinkForOneUseInTurn == alone => LinkForOneUse

\* "All refresh tokens of the user are deleted to end the existing sessions", since
\* the account may have been taken over (reset_password): while requests come one
\* after the other nobody is in, or comes in, with a password from before a reset,
\* not by an open session, its rotation or a change of the password either.
SessionsEndWithReset == alone =>
  /\ account \in {era, None}
  /\ \A t \in Tokens : refresh[t] # None => refresh[t].under = era

\* "Token rotation: delete the old one, then issue a new one" (refresh): a token that
\* was replaced is gone for as long as its replacement is there, also when it was
\* replaced twice at once, or deleted while it was being replaced.
ReplacedTokensAreGone == \A t \in Tokens :
  refresh[t] # None /\ refresh[t].from # None => refresh[refresh[t].from] = None

\* Only races fail: while requests come one after the other none ends with a 500,
\* however often a logout or a link is repeated.  "204 also when there is no token or
\* it is no longer valid" (logout).
OnlyRacesFail == alone => failed = {}

\* "All refresh tokens of the user are deleted" (logout): while requests come one
\* after the other no session from before a logout is open after it, whichever of its
\* access tokens, a replaced one too, the logout came with, and none goes on under a
\* token that replaced one of theirs.
SessionsEndWithLogout == alone => \A t \in Tokens :
  refresh[t] # None => t \notin closed /\ refresh[t].from \notin closed

\* A link that has changed the password cannot begin another change, also when
\* two changes with it were under way at once.
SpentLinks == \A l \in Links : resets[l] > 0 => link[l] \in {"used", "deleted"}

\* A link that a newer one has replaced is gone for good and changes nothing any
\* more, although a reset may have found it usable before it was replaced.
ReplacedLinksAreDead ==
  [][\A l \in Links : link[l] = "deleted" => link'[l] = "deleted" /\ resets'[l] = resets[l]]_vars

=============================================================================
