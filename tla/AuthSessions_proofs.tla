------------------------- MODULE AuthSessions_proofs -------------------------
(***************************************************************************)
(* Theorems about AuthSessions, for any number of handlers, tokens and     *)
(* links.                                                                  *)
(***************************************************************************)
EXTENDS AuthSessions, TLAPS

\* Before there is a user there are no tokens and no links, and nothing but
\* registrations is being handled.
Opened ==
  account = None =>
    /\ era = 0
    /\ issued = {}
    /\ \A l \in Links : link[l] = "unsent"
    /\ \A w \in Workers : job[w] # None => job[w].kind = "register"

\* Tokens are handed out before they are stored, replaced, listed or sent in.
RowsIssued == \A t \in Tokens :
  refresh[t] # None => t \in issued /\ refresh[t].from \in issued \cup {None}

JobsIssued == \A w \in Workers :
  Handling(w, "refresh") \/ Handling(w, "logout") => job[w].token \in issued

IInv ==
  /\ TypeOK
  /\ Opened
  /\ RowsIssued
  /\ JobsIssued
  /\ listed \subseteq issued
  /\ closed \subseteq issued
  /\ SpentLinks
  /\ ReplacedTokensAreGone

-----------------------------------------------------------------------------
\* A handler that begins changes its own job alone.
LEMMA BeginKeeps ==
  ASSUME IInv, NEW w \in Workers, NEW j \in Job, Begin(w, j),
         account = None => j.kind = "register",
         j.kind \in {"refresh", "logout"} => j.token \in issued
  PROVE  IInv'
<1>1. /\ job' = [job EXCEPT ![w] = j]
      /\ UNCHANGED <<account, era, refresh, issued, listed, closed, link, resets, expired, failed>>
      /\ alone' = (alone /\ \A v \in Workers : job[v] = None)
  BY DEF Begin, rows
<1>2. TypeOK'
  <2>1. alone' \in BOOLEAN
    BY <1>1
  <2> QED BY <1>1, <2>1 DEF IInv, TypeOK
<1>3. Opened'
  BY <1>1 DEF IInv, TypeOK, Opened
<1>4. RowsIssued' /\ JobsIssued'
  BY <1>1 DEF IInv, TypeOK, RowsIssued, JobsIssued, Handling
<1> QED BY <1>1, <1>2, <1>3, <1>4 DEF IInv, SpentLinks, ReplacedTokensAreGone

\* So does a handler that fails.
LEMMA CrashKeeps ==
  ASSUME IInv, NEW w \in Workers, job[w] # None, Crash(w)
  PROVE  IInv'
<1>1. /\ job' = [job EXCEPT ![w] = None] /\ failed' = failed \cup {job[w].kind}
      /\ UNCHANGED <<account, era, refresh, issued, listed, closed, link, resets, expired, alone>>
  BY DEF Crash, rows
<1>2. job[w].kind \in Kinds
  BY DEF IInv, TypeOK, Job, Kinds
<1>3. TypeOK'
  BY <1>1, <1>2 DEF IInv, TypeOK
<1>4. Opened'
  BY <1>1 DEF IInv, TypeOK, Opened
<1>5. RowsIssued' /\ JobsIssued'
  BY <1>1 DEF IInv, TypeOK, RowsIssued, JobsIssued, Handling
<1> QED BY <1>1, <1>3, <1>4, <1>5 DEF IInv, SpentLinks, ReplacedTokensAreGone

\* A new token takes a row that nobody had before, and replaces a token whose row
\* is gone.
LEMMA IssueKeeps ==
  ASSUME IInv, NEW t \in Tokens, NEW row \in Row, NEW others \in [Tokens -> Row \cup {None}],
         \A s \in Tokens : others[s] = None \/ others[s] = refresh[s],
         row.from # None => row.from \in issued /\ others[row.from] = None,
         IssueTokens(t, row, others), listed' = listed, closed' = closed
  PROVE  /\ refresh' \in [Tokens -> Row \cup {None}]
         /\ issued' \in SUBSET Tokens
         /\ RowsIssued'
         /\ listed' \subseteq issued' /\ closed' \subseteq issued'
         /\ ReplacedTokensAreGone'
<1>1. /\ t \notin issued /\ issued' = issued \cup {t} /\ refresh' = [others EXCEPT ![t] = row]
      /\ refresh \in [Tokens -> Row \cup {None}] /\ issued \in SUBSET Tokens
      /\ listed \subseteq issued /\ closed \subseteq issued
  BY DEF IssueTokens, IInv, TypeOK
<1>2. /\ refresh' \in [Tokens -> Row \cup {None}] /\ issued' \in SUBSET Tokens
      /\ listed' \subseteq issued' /\ closed' \subseteq issued' /\ RowsIssued'
  BY <1>1 DEF IInv, RowsIssued
<1>3. \A s \in Tokens : refresh'[s] # None /\ refresh'[s].from # None =>
        refresh'[s].from \in issued /\ others[refresh'[s].from] = None
  BY <1>1 DEF IInv, RowsIssued, ReplacedTokensAreGone
<1>4. ReplacedTokensAreGone'
  BY <1>1, <1>3 DEF ReplacedTokensAreGone
<1> QED BY <1>2, <1>4

\* What is left to show when a handler has finished: rows that keep their types and
\* their relations.
LEMMA FinishKeeps ==
  ASSUME IInv, NEW w \in Workers, Finish(w),
         account' \in Nat, era' \in Nat,
         refresh' \in [Tokens -> Row \cup {None}],
         issued' \in SUBSET Tokens, issued \subseteq issued',
         listed' \in SUBSET issued', closed' \in SUBSET issued',
         link' \in [Links -> LinkStates],
         resets' \in [Links -> Nat],
         RowsIssued', SpentLinks', ReplacedTokensAreGone'
  PROVE  IInv'
<1>1. job' = [job EXCEPT ![w] = None] /\ UNCHANGED <<expired, failed, alone>>
  BY DEF Finish
<1>2. TypeOK'
  BY <1>1 DEF IInv, TypeOK
<1>3. Opened'
  BY NoneAssumption DEF Opened
<1>4. JobsIssued'
  BY <1>1 DEF IInv, TypeOK, JobsIssued, Handling
<1> QED BY <1>2, <1>3, <1>4 DEF IInv

-----------------------------------------------------------------------------
\* Every handler that reads keeps the invariant.
LEMMA ReadKeeps ==
  ASSUME IInv, NEW w \in Workers, Read(w)
  PROVE  IInv'
<1>1. CASE Register(w)
  <2>1. [kind |-> "register"] \in Job
    BY DEF Job
  <2> QED BY <1>1, <2>1, BeginKeeps DEF Register
<1>2. CASE Login(w)
  <2>1. account \in Nat /\ [kind |-> "login", under |-> account] \in Job
    BY <1>2 DEF Login, IInv, TypeOK, Job
  <2> QED BY <1>2, <2>1, NoneAssumption, BeginKeeps DEF Login
<1>3. ASSUME NEW t \in Tokens, Refresh(w, t)
      PROVE  IInv'
  <2>1. [kind |-> "refresh", token |-> t, row |-> refresh[t]] \in Job
    BY <1>3 DEF Refresh, IInv, TypeOK, Job
  <2> QED BY <1>3, <2>1, BeginKeeps DEF Refresh, IInv, Opened, RowsIssued
<1>4. CASE ForgotPassword(w)
  <2>1. [kind |-> "forgot", seen |-> {l \in Links : link[l] \in {"unused", "used"}}] \in Job
    BY DEF Job
  <2> QED BY <1>4, <2>1, BeginKeeps DEF ForgotPassword
<1>5. ASSUME NEW l \in Links, ResetPassword(w, l)
      PROVE  IInv'
  <2>1. [kind |-> "reset", link |-> l] \in Job /\ account # None
    BY <1>5 DEF ResetPassword, IsPasswordResetTokenUsable, IInv, Opened, Job
  <2> QED BY <1>5, <2>1, BeginKeeps DEF ResetPassword
<1>6. ASSUME NEW t \in Tokens, Logout(w, t)
      PROVE  IInv'
  <2>1. [kind |-> "logout", token |-> t, found |-> t \in listed] \in Job
    BY DEF Job
  <2> QED BY <1>6, <2>1, BeginKeeps DEF Logout, DecodeToken, IInv, Opened
<1>7. ASSUME NEW t \in Tokens, ChangePassword(w, t)
      PROVE  IInv'
  <2>1. account \in Nat
    BY <1>7 DEF ChangePassword, GetCurrentUser, DecodeToken, IInv, TypeOK, Opened
  <2>2. [kind |-> "change", under |-> account] \in Job
    BY <2>1 DEF Job
  <2> QED BY <1>7, <2>1, <2>2, NoneAssumption, BeginKeeps DEF ChangePassword
<1> QED BY <1>1, <1>2, <1>3, <1>4, <1>5, <1>6, <1>7 DEF Read

\* Every handler that writes keeps the invariant.
LEMMA WriteKeeps ==
  ASSUME IInv, NEW w \in Workers, Write(w)
  PROVE  IInv'
<1>1. job[w] # None /\ job[w] \in Job
  BY DEF Write, CommitRegister, CommitLogin, CommitRefresh, CommitForgot, CommitReset, CommitChange,
     CommitLogout, Handling, IInv, TypeOK
<1>2. account # None \/ job[w].kind = "register"
  BY <1>1 DEF IInv, Opened
<1>3. refresh \in [Tokens -> Row \cup {None}] /\ issued \in SUBSET Tokens
      /\ listed \subseteq issued /\ closed \subseteq issued
  BY DEF IInv, TypeOK
<1>4. RowsIssued /\ ReplacedTokensAreGone
  BY DEF IInv
<1>5. /\ link \in [Links -> LinkStates] /\ resets \in [Links -> Nat] /\ account \in Nat \cup {None}
      /\ era \in Nat /\ SpentLinks
  BY DEF IInv, TypeOK
<1>6. CASE CommitRegister(w)
  <2>1. CASE account # None
    BY <1>1, <1>6, <2>1, CrashKeeps DEF CommitRegister
  <2>2. CASE account = None
    <3>1. PICK t \in Tokens : IssueTokens(t, [under |-> 0, from |-> None], refresh)
      BY <1>6, <2>2 DEF CommitRegister
    <3>2. [under |-> 0, from |-> None] \in Row
      BY DEF Row
    <3>3. /\ refresh' \in [Tokens -> Row \cup {None}]
          /\ issued' \in SUBSET Tokens
          /\ RowsIssued' /\ ReplacedTokensAreGone'
          /\ listed' \subseteq issued' /\ closed' \subseteq issued'
      BY <1>3, <1>6, <2>2, <3>1, <3>2, IssueKeeps DEF CommitRegister
    <3>4. account' = 0 /\ UNCHANGED <<era, listed, closed, link, resets>> /\ Finish(w) /\ issued \subseteq issued'
      BY <1>6, <2>2, <3>1 DEF CommitRegister, IssueTokens
    <3> QED BY <1>5, <3>3, <3>4, FinishKeeps DEF SpentLinks
  <2> QED BY <2>1, <2>2
<1>7. ASSUME NEW t \in Tokens, CommitLogin(w, t)
      PROVE  IInv'
  <2>1. [under |-> job[w].under, from |-> None] \in Row
    BY <1>1, <1>7 DEF CommitLogin, Handling, Job, Row
  <2>2. /\ refresh' \in [Tokens -> Row \cup {None}]
        /\ issued' \in SUBSET Tokens
        /\ RowsIssued' /\ ReplacedTokensAreGone'
        /\ listed' \subseteq issued' /\ closed' \subseteq issued'
    BY <1>3, <1>7, <2>1, IssueKeeps DEF CommitLogin
  <2>3. UNCHANGED <<account, era, listed, closed, link, resets>> /\ Finish(w) /\ issued \subseteq issued'
    BY <1>7 DEF CommitLogin, IssueTokens
  <2>4. account \in Nat
    BY <1>2, <1>5, <1>7 DEF CommitLogin, Handling
  <2> QED BY <1>5, <2>2, <2>3, <2>4, FinishKeeps DEF SpentLinks
<1>8. ASSUME NEW t \in Tokens, CommitRefresh(w, t)
      PROVE  IInv'
  <2>1. job[w].token \in Tokens /\ [under |-> job[w].row.under, from |-> job[w].token] \in Row
    BY <1>1, <1>8 DEF CommitRefresh, Handling, Job, Row
  <2>2. /\ DeleteOldToken(job[w].token) \in [Tokens -> Row \cup {None}]
        /\ \A s \in Tokens : \/ DeleteOldToken(job[w].token)[s] = None
                             \/ DeleteOldToken(job[w].token)[s] = refresh[s]
        /\ DeleteOldToken(job[w].token)[job[w].token] = None
        /\ job[w].token \in issued
    BY <1>3, <1>8, <2>1 DEF DeleteOldToken, CommitRefresh, IInv, JobsIssued
  <2>3. /\ refresh' \in [Tokens -> Row \cup {None}]
        /\ issued' \in SUBSET Tokens
        /\ RowsIssued' /\ ReplacedTokensAreGone'
        /\ listed' \subseteq issued' /\ closed' \subseteq issued'
    BY <1>8, <2>1, <2>2, IssueKeeps DEF CommitRefresh
  <2>4. UNCHANGED <<account, era, listed, closed, link, resets>> /\ Finish(w) /\ issued \subseteq issued'
    BY <1>8 DEF CommitRefresh, IssueTokens
  <2>5. account \in Nat
    BY <1>2, <1>5, <1>8 DEF CommitRefresh, Handling
  <2> QED BY <1>5, <2>3, <2>4, <2>5, FinishKeeps DEF SpentLinks
<1>9. ASSUME NEW l \in Links, CommitForgot(w, l)
      PROVE  IInv'
  <2>1. /\ link' = ReplaceLinks(l, job[w].seen) /\ link[l] = "unsent"
        /\ UNCHANGED <<account, era, refresh, issued, listed, closed, resets>> /\ Finish(w)
    BY <1>9 DEF CommitForgot
  <2>2. link' \in [Links -> LinkStates]
    BY <1>5, <2>1 DEF ReplaceLinks, LinkStates
  <2>3. SpentLinks'
    BY <1>5, <2>1 DEF ReplaceLinks, SpentLinks
  <2>4. account \in Nat
    BY <1>2, <1>5, <1>9 DEF CommitForgot, Handling
  <2> QED BY <1>3, <1>4, <1>5, <2>1, <2>2, <2>3, <2>4, FinishKeeps DEF RowsIssued,
          ReplacedTokensAreGone
<1>10. CASE CommitReset(w)
  <2>1. CASE LinkGone(job[w].link)
    BY <1>1, <1>10, <2>1, CrashKeeps DEF CommitReset
  <2>2. CASE ~LinkGone(job[w].link)
    <3>1. PICK l \in Links : l = job[w].link
      BY <1>1, <1>10 DEF CommitReset, Handling, Job
    <3>2. /\ account' = era + 1 /\ era' = era + 1 /\ link' = [link EXCEPT ![l] = "used"]
          /\ resets' = [resets EXCEPT ![l] = @ + 1] /\ refresh' = [t \in Tokens |-> None]
          /\ UNCHANGED <<issued, listed, closed>> /\ Finish(w)
      BY <1>10, <2>2, <3>1 DEF CommitReset, MarkUsed, DeleteSessions
    <3>3. account \in Nat
      BY <1>2, <1>5, <1>10 DEF CommitReset, Handling
    <3>4. link' \in [Links -> LinkStates] /\ resets' \in [Links -> Nat] /\ SpentLinks'
      BY <1>5, <3>2 DEF LinkStates, SpentLinks
    <3>5. /\ refresh' \in [Tokens -> Row \cup {None}]
          /\ RowsIssued' /\ ReplacedTokensAreGone'
      BY <1>3, <3>2 DEF RowsIssued, ReplacedTokensAreGone
    <3> QED BY <1>3, <1>5, <3>2, <3>3, <3>4, <3>5, FinishKeeps
  <2> QED BY <2>1, <2>2
<1>11. CASE CommitLogout(w)
  <2>1. CASE InsertsEntry(job[w]) /\ job[w].token \in listed
    BY <1>1, <1>11, <2>1, CrashKeeps DEF CommitLogout
  <2>2. CASE ~(InsertsEntry(job[w]) /\ job[w].token \in listed)
    <3>1. job[w].token \in issued
      BY <1>11 DEF CommitLogout, IInv, JobsIssued
    <3>2. /\ listed' = listed \cup {job[w].token} /\ closed' = issued /\ refresh' = [t \in Tokens |-> None]
          /\ UNCHANGED <<account, era, issued, link, resets>> /\ Finish(w)
      BY <1>11, <2>2 DEF CommitLogout, DeleteSessions
    <3>3. account \in Nat
      BY <1>2, <1>5, <1>11 DEF CommitLogout, Handling
    <3>4. /\ refresh' \in [Tokens -> Row \cup {None}] /\ listed' \subseteq issued' /\ closed' \subseteq issued'
          /\ RowsIssued' /\ ReplacedTokensAreGone'
      BY <1>3, <3>1, <3>2 DEF RowsIssued, ReplacedTokensAreGone
    <3> QED BY <1>3, <1>5, <3>2, <3>3, <3>4, FinishKeeps DEF SpentLinks
  <2> QED BY <2>1, <2>2
<1>12. CASE CommitChange(w)
  <2>1. /\ account' = job[w].under /\ UNCHANGED <<era, refresh, issued, listed, closed, link, resets>>
        /\ Finish(w) /\ job[w].under \in Nat
    BY <1>1, <1>12 DEF CommitChange, Handling, Job
  <2> QED BY <1>3, <1>4, <1>5, <2>1, FinishKeeps DEF SpentLinks, RowsIssued,
          ReplacedTokensAreGone
<1> QED BY <1>6, <1>7, <1>8, <1>9, <1>10, <1>11, <1>12 DEF Write

\* Every step keeps the invariant.
LEMMA NextKeeps ==
  ASSUME IInv, [Next]_vars
  PROVE  IInv'
<1>1. ASSUME NEW t \in Tokens, RefreshExpired(t)
      PROVE  IInv'
  <2>1. /\ refresh' = [refresh EXCEPT ![t] = None]
        /\ UNCHANGED <<account, era, issued, listed, closed, link, resets, expired, failed, alone, job>>
    BY <1>1 DEF RefreshExpired
  <2>2. TypeOK'
    BY <2>1 DEF IInv, TypeOK
  <2> QED BY <2>1, <2>2 DEF IInv, TypeOK, Opened, RowsIssued, JobsIssued, SpentLinks,
     ReplacedTokensAreGone, Handling
<1>2. ASSUME NEW x \in Tokens \cup Links, Expire(x)
      PROVE  IInv'
  BY <1>2 DEF Expire, rows, IInv, TypeOK, Opened, RowsIssued, JobsIssued, SpentLinks,
     ReplacedTokensAreGone, Handling
<1>3. CASE Restart
  BY <1>3 DEF Restart, rows, IInv, TypeOK, Opened, RowsIssued, JobsIssued, SpentLinks,
     ReplacedTokensAreGone, Handling
<1>4. CASE UNCHANGED vars
  BY <1>4 DEF vars, IInv, TypeOK, Opened, RowsIssued, JobsIssued, SpentLinks,
     ReplacedTokensAreGone, Handling
<1> QED BY <1>1, <1>2, <1>3, <1>4, ReadKeeps, WriteKeeps DEF Next

-----------------------------------------------------------------------------
(* While requests come one after the other, what a handler has read is still so    *)
(* when it writes.                                                                 *)

OneJob == \A v, w \in Workers : job[v] # None /\ job[w] # None => v = w

UpToDate(j) ==
  /\ j.kind = "register" => account = None
  /\ j.kind \in {"login", "change"} => j.under = era
  /\ j.kind = "refresh" => j.row.under = era /\ j.token \notin closed
  /\ j.kind = "reset" => link[j.link] = "unused"
  /\ j.kind = "forgot" => Live \subseteq j.seen
  /\ j.kind = "logout" => (j.found <=> j.token \in listed)

\* A session from after the last reset and the last logout.
Open(t) ==
  refresh[t].under = era /\ t \notin closed /\ refresh[t].from \notin closed

Undisturbed ==
  /\ OneJob
  /\ \A w \in Workers : job[w] # None => UpToDate(job[w])
  /\ account \in {era, None}
  /\ \A t \in Tokens : refresh[t] # None => Open(t)
  /\ \A k, l \in Live : k = l
  /\ \A l \in Links : resets[l] =< 1 /\ (link[l] \in {"unsent", "unused"} => resets[l] = 0)
  /\ failed = {}

TurnInv == alone => Undisturbed

LEMMA BeginInTurn ==
  ASSUME IInv, TurnInv, NEW w \in Workers, NEW j \in Job, Begin(w, j),
         Undisturbed => UpToDate(j)
  PROVE  TurnInv'
<1> SUFFICES ASSUME alone' PROVE Undisturbed'
  BY DEF TurnInv
<1>1. /\ job' = [job EXCEPT ![w] = j] /\ \A v \in Workers : job[v] = None
      /\ UNCHANGED <<account, era, refresh, issued, listed, closed, link, resets, expired, failed>>
      /\ Undisturbed
  BY DEF Begin, rows, TurnInv
<1>2. OneJob'
  BY <1>1 DEF IInv, TypeOK, OneJob
<1>3. \A v \in Workers : job'[v] # None => job'[v] = j
  BY <1>1 DEF IInv, TypeOK
<1>4. Live' = Live
  BY <1>1 DEF Live
<1>5. (\A v \in Workers : job[v] # None => UpToDate(job[v]))'
  BY <1>1, <1>3, <1>4 DEF UpToDate
<1> QED BY <1>1, <1>2, <1>4, <1>5 DEF Undisturbed, Open

LEMMA ReadInTurn ==
  ASSUME IInv, TurnInv, NEW w \in Workers, Read(w)
  PROVE  TurnInv'
<1>1. CASE Register(w)
  <2>1. [kind |-> "register"] \in Job /\ UpToDate([kind |-> "register"])
    BY <1>1 DEF Job, UpToDate, Register
  <2> QED BY <1>1, <2>1, BeginInTurn DEF Register
<1>2. CASE Login(w)
  <2> DEFINE j == [kind |-> "login", under |-> account]
  <2>1. account \in Nat /\ j \in Job
    BY <1>2 DEF Login, IInv, TypeOK, Job
  <2>2. Undisturbed => UpToDate(j)
    BY <1>2 DEF Undisturbed, UpToDate, Login
  <2> QED BY <1>2, <2>1, <2>2, BeginInTurn DEF Login
<1>3. ASSUME NEW t \in Tokens, Refresh(w, t)
      PROVE  TurnInv'
  <2> DEFINE j == [kind |-> "refresh", token |-> t, row |-> refresh[t]]
  <2>1. j \in Job
    BY <1>3 DEF Refresh, IInv, TypeOK, Job
  <2>2. Undisturbed => UpToDate(j)
    BY <1>3 DEF Undisturbed, UpToDate, Refresh, Open
  <2> QED BY <1>3, <2>1, <2>2, BeginInTurn DEF Refresh
<1>4. CASE ForgotPassword(w)
  <2> DEFINE j == [kind |-> "forgot", seen |-> {l \in Links : link[l] \in {"unused", "used"}}]
  <2>1. j \in Job
    BY DEF Job
  <2>2. UpToDate(j)
    BY DEF UpToDate, Live
  <2> QED BY <1>4, <2>1, <2>2, BeginInTurn DEF ForgotPassword
<1>5. ASSUME NEW l \in Links, ResetPassword(w, l)
      PROVE  TurnInv'
  <2> DEFINE j == [kind |-> "reset", link |-> l]
  <2>1. j \in Job /\ UpToDate(j)
    BY <1>5 DEF ResetPassword, IsPasswordResetTokenUsable, Job, UpToDate
  <2> QED BY <1>5, <2>1, BeginInTurn DEF ResetPassword
<1>6. ASSUME NEW t \in Tokens, ChangePassword(w, t)
      PROVE  TurnInv'
  <2> DEFINE j == [kind |-> "change", under |-> account]
  <2>1. account # None
    BY <1>6 DEF ChangePassword, GetCurrentUser, DecodeToken, IInv, Opened
  <2>2. j \in Job
    BY <2>1 DEF IInv, TypeOK, Job
  <2>3. Undisturbed => UpToDate(j)
    BY <2>1 DEF Undisturbed, UpToDate
  <2> QED BY <1>6, <2>2, <2>3, BeginInTurn DEF ChangePassword
<1>7. ASSUME NEW t \in Tokens, Logout(w, t)
      PROVE  TurnInv'
  <2> DEFINE j == [kind |-> "logout", token |-> t, found |-> t \in listed]
  <2>1. j \in Job
    BY DEF Job
  <2>2. j.kind = "logout" /\ j.token = t /\ (j.found <=> t \in listed)
    BY Zenon
  <2>3. UpToDate(j)
    <3> HIDE DEF j
    <3> QED BY <2>2 DEF UpToDate
  <2> QED BY <1>7, <2>1, <2>3, BeginInTurn DEF Logout
<1> QED BY <1>1, <1>2, <1>3, <1>4, <1>5, <1>6, <1>7 DEF Read

\* The only handler there is has finished: what it read no longer matters.
LEMMA EndInTurn ==
  ASSUME IInv, Undisturbed, NEW w \in Workers, job[w] # None, job' = [job EXCEPT ![w] = None],
         account' \in {era', None},
         \A t \in Tokens : refresh'[t] # None => Open(t)',
         \A k, l \in Links : link'[k] = "unused" /\ link'[l] = "unused" => k = l,
         \A l \in Links : /\ resets'[l] =< 1
                          /\ link'[l] \in {"unsent", "unused"} => resets'[l] = 0,
         failed' = {}
  PROVE  TurnInv'
<1>1. \A v \in Workers : job'[v] = None
  BY DEF IInv, TypeOK, Undisturbed, OneJob
<1> QED BY <1>1 DEF TurnInv, Undisturbed, OneJob, Live

LEMMA WriteInTurn ==
  ASSUME IInv, TurnInv, NEW w \in Workers, Write(w)
  PROVE  TurnInv'
<1>1. /\ job[w] # None /\ job[w] \in Job /\ alone' = alone
      /\ job' = [job EXCEPT ![w] = None]
  BY DEF Write, CommitRegister, CommitLogin, CommitRefresh, CommitForgot, CommitReset, CommitChange,
     CommitLogout, Handling, Finish, Crash, IInv, TypeOK
<1> SUFFICES ASSUME Undisturbed PROVE TurnInv'
  BY <1>1 DEF TurnInv
<1>2. /\ UpToDate(job[w]) /\ OneJob
      /\ account \in {era, None} /\ failed = {}
      /\ \A t \in Tokens : refresh[t] # None => Open(t)
      /\ \A k, l \in Links : link[k] = "unused" /\ link[l] = "unused" => k = l
      /\ \A l \in Links : resets[l] =< 1 /\ (link[l] \in {"unsent", "unused"} => resets[l] = 0)
  BY <1>1 DEF Undisturbed, Live
<1>3. /\ refresh \in [Tokens -> Row \cup {None}] /\ era \in Nat
      /\ link \in [Links -> LinkStates] /\ resets \in [Links -> Nat]
      /\ closed \subseteq issued /\ issued \subseteq Tokens /\ None \notin closed
  BY NoneAssumption DEF IInv, TypeOK
<1>4. CASE CommitRegister(w)
  <2>1. account = None
    BY <1>2, <1>4 DEF CommitRegister, UpToDate, Handling
  <2>2. era = 0
    BY <2>1 DEF IInv, Opened
  <2>3. PICK t \in Tokens : IssueTokens(t, [under |-> 0, from |-> None], refresh)
    BY <1>4, <2>1 DEF CommitRegister
  <2>4. \A s \in Tokens : refresh'[s] # None => Open(s)'
    BY <1>2, <1>3, <1>4, <2>1, <2>2, <2>3 DEF CommitRegister, IssueTokens, Open
  <2> QED BY <1>1, <1>2, <1>4, <2>1, <2>2, <2>4, EndInTurn DEF CommitRegister, Finish
<1>5. ASSUME NEW t \in Tokens, CommitLogin(w, t)
      PROVE  TurnInv'
  <2>1. \A s \in Tokens : refresh'[s] # None => Open(s)'
    BY <1>2, <1>3, <1>5 DEF CommitLogin, IssueTokens, UpToDate, Handling, Open
  <2> QED BY <1>1, <1>2, <1>5, <2>1, EndInTurn DEF CommitLogin, Finish
<1>6. ASSUME NEW t \in Tokens, CommitRefresh(w, t)
      PROVE  TurnInv'
  <2>1. \A s \in Tokens : refresh'[s] # None => Open(s)'
    BY <1>2, <1>3, <1>6 DEF CommitRefresh, IssueTokens, DeleteOldToken, UpToDate, Handling, Open
  <2> QED BY <1>1, <1>2, <1>6, <2>1, EndInTurn DEF CommitRefresh, Finish
<1>7. ASSUME NEW l \in Links, CommitForgot(w, l)
      PROVE  TurnInv'
  <2>1. /\ link' = ReplaceLinks(l, job[w].seen) /\ link[l] = "unsent"
        /\ UNCHANGED <<account, era, refresh, issued, listed, closed, resets>> /\ Finish(w)
        /\ Live \subseteq job[w].seen
    BY <1>2, <1>7 DEF CommitForgot, UpToDate, Handling
  <2>2. \A k \in Links : link'[k] = "unused" => k = l
    BY <1>3, <2>1 DEF ReplaceLinks, Live
  <2>3. \A k \in Links : resets'[k] =< 1 /\ (link'[k] \in {"unsent", "unused"} => resets'[k] = 0)
    BY <1>2, <1>3, <2>1 DEF ReplaceLinks
  <2> QED BY <1>1, <1>2, <2>1, <2>2, <2>3, EndInTurn DEF Finish, Open
<1>8. CASE CommitReset(w)
  <2>1. PICK l \in Links : l = job[w].link /\ link[l] = "unused"
    BY <1>1, <1>2, <1>8 DEF CommitReset, Handling, Job, UpToDate
  <2>2. /\ account' = era + 1 /\ era' = era + 1 /\ link' = [link EXCEPT ![l] = "used"]
        /\ resets' = [resets EXCEPT ![l] = @ + 1] /\ refresh' = [t \in Tokens |-> None]
        /\ Finish(w)
    BY <1>8, <2>1 DEF CommitReset, LinkGone, MarkUsed, DeleteSessions
  <2>3. resets[l] = 0
    BY <1>2, <2>1
  <2>4. \A k \in Links : resets'[k] =< 1 /\ (link'[k] \in {"unsent", "unused"} => resets'[k] = 0)
    BY <1>2, <1>3, <2>2, <2>3
  <2>5. \A k \in Links : link'[k] = "unused" => link[k] = "unused"
    BY <1>3, <2>2
  <2> QED BY <1>1, <1>2, <2>2, <2>4, <2>5, EndInTurn DEF Finish
<1>9. CASE CommitChange(w)
  BY <1>1, <1>2, <1>9, EndInTurn DEF CommitChange, Finish, UpToDate, Handling, Open
<1>10. CASE CommitLogout(w)
  <2>1. ~(InsertsEntry(job[w]) /\ job[w].token \in listed)
    BY <1>2, <1>10 DEF CommitLogout, InsertsEntry, UpToDate, Handling
  <2>2. /\ refresh' = [t \in Tokens |-> None] /\ UNCHANGED <<account, era, issued, link, resets>>
        /\ Finish(w)
    BY <1>10, <2>1 DEF CommitLogout, DeleteSessions
  <2> QED BY <1>1, <1>2, <2>2, EndInTurn DEF Finish
<1> QED BY <1>4, <1>5, <1>6, <1>7, <1>8, <1>9, <1>10 DEF Write

\* Every step keeps what holds of requests in turn.
LEMMA NextInTurn ==
  ASSUME IInv, TurnInv, [Next]_vars
  PROVE  TurnInv'
<1>1. ASSUME NEW t \in Tokens, RefreshExpired(t)
      PROVE  TurnInv'
  BY <1>1 DEF RefreshExpired, IInv, TypeOK, TurnInv, Undisturbed, OneJob, UpToDate, Open, Live
<1>2. ASSUME NEW x \in Tokens \cup Links, Expire(x)
      PROVE  TurnInv'
  BY <1>2 DEF Expire, rows, TurnInv, Undisturbed, OneJob, UpToDate, Open, Live
<1>3. CASE Restart
  BY <1>3 DEF Restart, rows, TurnInv, Undisturbed, OneJob, UpToDate, Open, Live
<1>4. CASE UNCHANGED vars
  BY <1>4 DEF vars, TurnInv, Undisturbed, OneJob, UpToDate, Open, Live
<1> QED BY <1>1, <1>2, <1>3, <1>4, ReadInTurn, WriteInTurn DEF Next

-----------------------------------------------------------------------------
(* The theorems. *)

\* The inductive invariant holds in every run.
THEOREM Invariance == Spec => []IInv
<1>1. Init => IInv
  BY DEF Init, IInv, TypeOK, Opened, RowsIssued, JobsIssued, SpentLinks,
     ReplacedTokensAreGone, LinkStates, Handling
<1>2. IInv /\ [Next]_vars => IInv'
  BY NextKeeps
<1> QED BY <1>1, <1>2, PTL DEF Spec

\* The variables keep their types.
THEOREM TypeCorrect == Spec => []TypeOK
<1>1. IInv => TypeOK
  BY DEF IInv
<1> QED BY <1>1, Invariance, PTL

\* A link that has changed the password is not usable again.
THEOREM SpentLinksStaySpent == Spec => []SpentLinks
<1>1. IInv => SpentLinks
  BY DEF IInv
<1> QED BY <1>1, Invariance, PTL

\* A replaced link stays deleted and changes no password, although a reset that
\* found it usable may still be under way.
THEOREM ReplacedLinks == Spec => ReplacedLinksAreDead
<1>1. ASSUME IInv, [Next]_vars, NEW l \in Links, link[l] = "deleted"
      PROVE  link'[l] = "deleted" /\ resets'[l] = resets[l]
  <2>1. link \in [Links -> LinkStates] /\ resets \in [Links -> Nat]
    BY <1>1 DEF IInv, TypeOK
  <2>2. ASSUME NEW w \in Workers, Read(w)
        PROVE  link' = link /\ resets' = resets
    BY <2>2 DEF Read, Register, Login, Refresh, ForgotPassword, ResetPassword, ChangePassword, Logout,
       Begin, rows
  <2>3. ASSUME NEW w \in Workers, CommitReset(w)
        PROVE  link'[l] = "deleted" /\ resets'[l] = resets[l]
    BY <1>1, <2>1, <2>3 DEF CommitReset, LinkGone, MarkUsed, Crash, rows
  <2>4. ASSUME NEW w \in Workers, NEW k \in Links, CommitForgot(w, k)
        PROVE  link'[l] = "deleted" /\ resets'[l] = resets[l]
    BY <1>1, <2>1, <2>4 DEF CommitForgot, ReplaceLinks
  <2>5. ASSUME NEW w \in Workers, Write(w)
        PROVE  link'[l] = "deleted" /\ resets'[l] = resets[l]
    <3>1. CommitRegister(w) => link' = link /\ resets' = resets
      BY DEF CommitRegister, Crash, rows
    <3>2. CommitLogout(w) => link' = link /\ resets' = resets
      BY DEF CommitLogout, Crash, rows
    <3>3. \A t \in Tokens : CommitLogin(w, t) \/ CommitRefresh(w, t) => link' = link /\ resets' = resets
      BY DEF CommitLogin, CommitRefresh
    <3>4. CommitChange(w) => link' = link /\ resets' = resets
      BY DEF CommitChange
    <3> QED BY <1>1, <2>3, <2>4, <2>5, <3>1, <3>2, <3>3, <3>4 DEF Write
  <2>6. /\ \A t \in Tokens : RefreshExpired(t) => link' = link /\ resets' = resets
        /\ \A x \in Tokens \cup Links : Expire(x) => link' = link /\ resets' = resets
        /\ Restart \/ UNCHANGED vars => link' = link /\ resets' = resets
    BY DEF RefreshExpired, Expire, Restart, vars, rows
  <2> QED BY <1>1, <2>2, <2>5, <2>6 DEF Next
<1>2. IInv /\ [Next]_vars => [\A l \in Links : link[l] = "deleted" =>
                                link'[l] = "deleted" /\ resets'[l] = resets[l]]_vars
  BY <1>1
<1> QED BY <1>2, Invariance, PTL DEF Spec, ReplacedLinksAreDead

\* A token that was replaced is gone, however many rotations of it are under way.
THEOREM Rotation == Spec => []ReplacedTokensAreGone
<1>1. IInv => ReplacedTokensAreGone
  BY DEF IInv
<1> QED BY <1>1, Invariance, PTL

\* What handlers rely on when requests come one after the other.
THEOREM InTurn == Spec => []TurnInv
<1>1. Init => TurnInv
  BY DEF Init, TurnInv, Undisturbed, OneJob, Live
<1>2. IInv /\ TurnInv /\ [Next]_vars => TurnInv'
  BY NextInTurn
<1> QED BY <1>1, <1>2, Invariance, PTL DEF Spec

\* The promises of the auth router for requests that come one after the other, of any
\* number and in any order: one valid link at a time.
THEOREM OneLink == Spec => []OneLinkInTurn
<1>1. TurnInv => OneLinkInTurn
  BY DEF TurnInv, Undisturbed, OneLinkInTurn, OneValidLink
<1> QED BY <1>1, InTurn, PTL

\* A link changes the password once.
THEOREM OneUse == Spec => []LinkForOneUseInTurn
<1>1. TurnInv => LinkForOneUseInTurn
  BY DEF TurnInv, Undisturbed, LinkForOneUseInTurn, LinkForOneUse
<1> QED BY <1>1, InTurn, PTL

\* A reset shuts out whoever knows an earlier password.
THEOREM ResetEndsSessions == Spec => []SessionsEndWithReset
<1>1. TurnInv => SessionsEndWithReset
  BY DEF TurnInv, Undisturbed, Open, SessionsEndWithReset
<1> QED BY <1>1, InTurn, PTL

\* A logout ends every session there was, also those that go on under a newer token
\* than the one it came with (logout).
THEOREM LogoutEndsSessions == Spec => []SessionsEndWithLogout
<1>1. TurnInv => SessionsEndWithLogout
  BY DEF TurnInv, Undisturbed, Open, SessionsEndWithLogout
<1> QED BY <1>1, InTurn, PTL

\* No request ends with a 500.
THEOREM RacesAlone == Spec => []OnlyRacesFail
<1>1. TurnInv => OnlyRacesFail
  BY DEF TurnInv, Undisturbed, OnlyRacesFail
<1> QED BY <1>1, InTurn, PTL

=============================================================================
