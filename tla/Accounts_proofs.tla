-------------------------- MODULE Accounts_proofs --------------------------
(***************************************************************************)
(* Theorems about Accounts, for any number of handlers, users, identities  *)
(* and addresses.                                                          *)
(***************************************************************************)
EXTENDS Accounts, TLAPS

\* Links lead to users, and whoever was logged in by an identity is the user it is
\* linked to.
LinksHold ==
  /\ \A i \in Identities : links[i] # None => users[links[i].user] # None
  /\ \A s \in sessions : links[s.identity] # None /\ links[s.identity].user = s.user

\* What a handler found is still so when it writes: no link and no user goes away,
\* and neither the user of a link nor the address of a user changes.
JobHolds(j) ==
  /\ j.at = "update" => links[j.identity] # None /\ links[j.identity].user = j.seen.user
  /\ j.at = "insert" /\ j.user # None =>
       j.email # None /\ users[j.user] # None /\ users[j.user].email = j.email

JobsHold == \A w \in Workers : job[w] # None => JobHolds(job[w])

IInv == TypeOK /\ LinksHold /\ JobsHold /\ OneAccountPerAddress /\ NoStrandedAccount

\* The action of JoinsByAddress.
Joins == \A i \in Identities :
  links[i] = None /\ links'[i] # None =>
    users'[links'[i].user].email = IF links'[i].email # None THEN links'[i].email ELSE i

-----------------------------------------------------------------------------
\* A step that touches no row.
LEMMA RowsKeep ==
  ASSUME IInv, UNCHANGED <<users, links, sessions>>,
         profile' \in [Identities -> Addresses \cup {None}], failed' \in BOOLEAN,
         job' \in [Workers -> Job \cup {None}],
         \A w \in Workers : job'[w] = None \/ job'[w] = job[w] \/ JobHolds(job'[w])
  PROVE  IInv' /\ Joins
<1>1. TypeOK'
  BY DEF IInv, TypeOK
<1>2. JobsHold'
  BY DEF IInv, JobsHold, JobHolds
<1> QED BY <1>1, <1>2 DEF IInv, LinksHold, OneAccountPerAddress, NoStrandedAccount, Joins

LEMMA ContinueKeeps ==
  ASSUME IInv, NEW w \in Workers, NEW j \in Job \cup {None}, Continue(w, j),
         j # None => JobHolds(j)
  PROVE  IInv' /\ Joins
<1>1. /\ job' = [job EXCEPT ![w] = j] /\ UNCHANGED <<users, links, profile, sessions, failed>>
  BY DEF Continue
<1>2. /\ job' \in [Workers -> Job \cup {None}]
      /\ \A v \in Workers : job'[v] = None \/ job'[v] = job[v] \/ JobHolds(job'[v])
  BY <1>1 DEF IInv, TypeOK
<1>3. profile' \in [Identities -> Addresses \cup {None}] /\ failed' \in BOOLEAN
  BY <1>1 DEF IInv, TypeOK
<1> QED BY <1>1, <1>2, <1>3, RowsKeep

LEMMA CrashKeeps ==
  ASSUME IInv, NEW w \in Workers, Crash(w)
  PROVE  IInv' /\ Joins
<1>1. /\ job' = [job EXCEPT ![w] = None] /\ UNCHANGED <<users, links, profile, sessions>>
      /\ failed' = (failed \/ job[w].at # "register")
  BY DEF Crash
<1>2. /\ job' \in [Workers -> Job \cup {None}]
      /\ \A v \in Workers : job'[v] = None \/ job'[v] = job[v]
  BY <1>1 DEF IInv, TypeOK
<1>3. failed' \in BOOLEAN
  BY <1>1
<1>4. profile' \in [Identities -> Addresses \cup {None}]
  BY <1>1 DEF IInv, TypeOK
<1> QED BY <1>1, <1>2, <1>3, <1>4, RowsKeep

\* A step that keeps the rows there are, up to what the handlers rely on, and ends
\* at most one job.
LEMMA JobsKeep ==
  ASSUME IInv,
         \A i \in Identities : links[i] # None => links'[i] # None /\ links'[i].user = links[i].user,
         \A u \in Users : users[u] # None => users'[u] # None /\ users'[u].email = users[u].email,
         \A w \in Workers : job'[w] = None \/ job'[w] = job[w]
  PROVE  JobsHold'
<1> SUFFICES ASSUME NEW w \in Workers, job'[w] # None
             PROVE  JobHolds(job[w])'
  BY DEF JobsHold
<1>1. job'[w] = job[w] /\ JobHolds(job[w]) /\ job[w] \in Job
  BY DEF IInv, TypeOK, JobsHold
<1>2. CASE job[w].at = "update"
  <2>1. job[w].identity \in Identities
    BY <1>1, <1>2 DEF Job
  <2> QED BY <1>1, <1>2, <2>1 DEF JobHolds
<1>3. CASE job[w].at = "insert" /\ job[w].user # None
  <2>1. job[w].user \in Users
    BY <1>1, <1>3 DEF Job
  <2> QED BY <1>1, <1>3, <2>1 DEF JobHolds
<1> QED BY <1>1, <1>2, <1>3 DEF JobHolds

-----------------------------------------------------------------------------
\* A handler that looks something up.
LEMMA LookUpKeeps ==
  ASSUME IInv, NEW w \in Workers,
         \/ \E i \in Identities : Callback(w, i)
         \/ FetchProfile(w) \/ OAuthError(w) \/ BadAnswer(w) \/ FindIdentity(w) \/ FindAddress(w)
         \/ \E a \in Addresses : Register(w, a)
  PROVE  IInv' /\ Joins
<1>0. job[w] # None => job[w] \in Job
  BY DEF IInv, TypeOK
<1>1. ASSUME NEW i \in Identities, Callback(w, i)
      PROVE  IInv' /\ Joins
  <2> DEFINE j == [at |-> "exchange", identity |-> i]
  <2>1. j \in Job /\ JobHolds(j)
    BY DEF Job, JobHolds
  <2> QED BY <1>1, <2>1, ContinueKeeps DEF Callback
<1>2. CASE FetchProfile(w)
  <2>1. job[w].identity \in Identities
    BY <1>0, <1>2 DEF FetchProfile, At, Job
  <2> DEFINE j == [at |-> "identity", identity |-> job[w].identity,
                   email |-> profile[job[w].identity]]
  <2>2. profile[job[w].identity] \in Addresses \cup {None}
    BY <2>1 DEF IInv, TypeOK
  <2>3. j \in Job /\ JobHolds(j)
    BY <2>1, <2>2 DEF Job, JobHolds
  <2> QED BY <1>2, <2>3, ContinueKeeps DEF FetchProfile
<1>3. CASE OAuthError(w)
  BY <1>3, ContinueKeeps DEF OAuthError
<1>4. CASE FindIdentity(w)
  <2> DEFINE i == job[w].identity
             e == job[w].email
             ju == [at |-> "update", identity |-> i, email |-> e, seen |-> links[i]]
             ja == [at |-> "address", identity |-> i, email |-> e]
  <2>1. i \in Identities /\ e \in Addresses \cup {None}
    BY <1>0, <1>4 DEF FindIdentity, At, Job
  <2>2. CASE links[i] # None
    <3>1. links[i] \in Link
      BY <2>1, <2>2 DEF IInv, TypeOK
    <3>2. ju \in Job /\ JobHolds(ju)
      BY <2>1, <2>2, <3>1 DEF Job, JobHolds
    <3>3. Continue(w, ju)
      BY <1>4, <2>2 DEF FindIdentity
    <3> QED BY <3>2, <3>3, ContinueKeeps
  <2>3. CASE links[i] = None
    <3>1. ja \in Job /\ JobHolds(ja)
      BY <2>1 DEF Job, JobHolds
    <3>2. Continue(w, ja)
      BY <1>4, <2>3 DEF FindIdentity
    <3> QED BY <3>1, <3>2, ContinueKeeps
  <2> QED BY <2>2, <2>3
<1>5. CASE FindAddress(w)
  <2> DEFINE i == job[w].identity
             e == job[w].email
             j(u) == [at |-> "insert", identity |-> i, email |-> e, user |-> u]
             found == IF e = None THEN {} ELSE WithAddress(e)
  <2>1. i \in Identities /\ e \in Addresses \cup {None}
    BY <1>0, <1>5 DEF FindAddress, At, Job
  <2>2. PICK u \in IF found = {} THEN {None} ELSE found : Continue(w, j(u))
    BY <1>5 DEF FindAddress
  <2>3. u # None => u \in Users /\ e # None /\ users[u] # None /\ users[u].email = e
    BY DEF WithAddress
  <2>4. u \in Users \cup {None}
    BY <2>3
  <2>5. j(u) \in Job /\ JobHolds(j(u))
    BY <2>1, <2>3, <2>4 DEF Job, JobHolds
  <2> QED BY <2>2, <2>5, ContinueKeeps
<1>6. ASSUME NEW a \in Addresses, Register(w, a)
      PROVE  IInv' /\ Joins
  <2> DEFINE j == [at |-> "register", email |-> a]
  <2>1. j \in Job /\ JobHolds(j)
    BY DEF Job, JobHolds
  <2> QED BY <1>6, <2>1, ContinueKeeps DEF Register
<1>7. CASE BadAnswer(w)
  BY <1>7, CrashKeeps DEF BadAnswer, At
<1> QED BY <1>1, <1>2, <1>3, <1>4, <1>5, <1>6, <1>7

-----------------------------------------------------------------------------
\* A handler that commits.

LEMMA LinkedKeeps ==
  ASSUME IInv, NEW w \in Workers, CommitLinked(w)
  PROVE  IInv' /\ Joins
<1> DEFINE j == job[w]
           i == job[w].identity
<1>1. /\ j \in Job /\ i \in Identities /\ j.email \in Addresses \cup {None}
      /\ j.seen \in Link /\ JobHolds(j) /\ j.at = "update"
  BY DEF CommitLinked, At, IInv, TypeOK, JobsHold, Job
<1>2. links[i] \in Link /\ links[i].user = j.seen.user /\ j.seen.user \in Users
  BY <1>1, NoneAssumption DEF IInv, TypeOK, JobHolds, Link
<1>3. /\ links' = IF j.email # j.seen.email THEN [links EXCEPT ![i].email = j.email] ELSE links
      /\ sessions' = sessions \cup {[identity |-> i, user |-> j.seen.user]}
      /\ job' = [job EXCEPT ![w] = None] /\ UNCHANGED <<users, profile, failed>>
  BY DEF CommitLinked, Done
<1>4. [links[i] EXCEPT !.email = j.email] \in Link
      /\ [links[i] EXCEPT !.email = j.email].user = links[i].user
  BY <1>1, <1>2 DEF Link
<1>5. /\ links' \in [Identities -> Link \cup {None}]
      /\ \A k \in Identities : (links'[k] = None <=> links[k] = None)
      /\ \A k \in Identities : links[k] # None => links'[k].user = links[k].user
  <2>1. CASE j.email # j.seen.email
    <3>1. links' = [links EXCEPT ![i] = [links[i] EXCEPT !.email = j.email]]
      BY <1>3, <2>1
    <3>2. links[i] # None /\ [links[i] EXCEPT !.email = j.email] # None
      BY <1>2, <1>4, NoneAssumption
    <3> HIDE DEF j, i
    <3> QED BY <1>1, <1>4, <3>1, <3>2 DEF IInv, TypeOK
  <2>2. CASE j.email = j.seen.email
    BY <1>3, <2>2 DEF IInv, TypeOK
  <2> QED BY <2>1, <2>2
<1>6. TypeOK'
  BY <1>1, <1>2, <1>3, <1>5 DEF IInv, TypeOK
<1>7. LinksHold'
  <2>1. \A k \in Identities : links'[k] # None => users'[links'[k].user] # None
    BY <1>3, <1>5 DEF IInv, LinksHold
  <2>2. \A s \in sessions : s.identity \in Identities
    BY DEF IInv, TypeOK
  <2>3. \A s \in sessions' : links'[s.identity] # None /\ links'[s.identity].user = s.user
    BY <1>1, <1>2, <1>3, <1>5, <2>2, NoneAssumption DEF IInv, LinksHold
  <2> QED BY <2>1, <2>3 DEF LinksHold
<1>8. JobsHold'
  BY <1>3, <1>5, JobsKeep DEF IInv, TypeOK
<1>9. OneAccountPerAddress' /\ NoStrandedAccount'
  BY <1>3, <1>5 DEF IInv, OneAccountPerAddress, NoStrandedAccount
<1>10. Joins
  BY <1>5 DEF Joins
<1> QED BY <1>6, <1>7, <1>8, <1>9, <1>10 DEF IInv

\* A new link of an identity that had none, to a user who is or was just added.
LEMMA InsertKeeps ==
  ASSUME IInv, NEW w \in Workers, At(w, "insert"), NEW u \in Users,
         ~IdentityTaken(job[w].identity), InsertLink(job[w], u), Done(w),
         users' \in [Users -> User \cup {None}],
         \A v \in Users : users[v] # None => users'[v] = users[v],
         \A v \in Users : v # u => users'[v] = users[v],
         users'[u] # None, users'[u].email = NewAddress(job[w]),
         OneAccountPerAddress'
  PROVE  IInv' /\ Joins
<1> DEFINE j == job[w]
           i == job[w].identity
           row == [user |-> u, email |-> job[w].email]
<1>1. /\ j \in Job /\ i \in Identities /\ j.email \in Addresses \cup {None}
      /\ links[i] = None
  BY DEF At, IInv, TypeOK, Job, IdentityTaken
<1>2. /\ links' = [links EXCEPT ![i] = row]
      /\ sessions' = sessions \cup {[identity |-> i, user |-> u]}
      /\ job' = [job EXCEPT ![w] = None] /\ UNCHANGED <<profile, failed>>
  BY DEF InsertLink, Done
<1>3. row \in Link /\ row # None
  BY <1>1, NoneAssumption DEF Link
<1>4. /\ links' \in [Identities -> Link \cup {None}] /\ links'[i] = row
      /\ \A k \in Identities : k # i => links'[k] = links[k]
  BY <1>1, <1>2, <1>3 DEF IInv, TypeOK
<1>5. TypeOK'
  BY <1>1, <1>2, <1>4 DEF IInv, TypeOK
<1>6. LinksHold'
  <2>1. \A k \in Identities : links[k] # None => links[k].user \in Users
    BY DEF IInv, TypeOK, Link
  <2>2. \A k \in Identities : links'[k] # None => users'[links'[k].user] # None
    BY <1>1, <1>4, <2>1 DEF IInv, LinksHold
  <2>3. \A s \in sessions : s.identity \in Identities
    BY DEF IInv, TypeOK
  <2>4. \A s \in sessions' : links'[s.identity] # None /\ links'[s.identity].user = s.user
    BY <1>1, <1>2, <1>3, <1>4, <2>3 DEF IInv, LinksHold
  <2> QED BY <2>2, <2>4 DEF LinksHold
<1>7. JobsHold'
  <2>1. \A k \in Identities : links[k] # None => links'[k] = links[k]
    BY <1>1, <1>4
  <2>2. \A v \in Workers : job'[v] = None \/ job'[v] = job[v]
    BY <1>2 DEF IInv, TypeOK
  <2> QED BY <2>1, <2>2, JobsKeep
<1>8. NoStrandedAccount'
  <2> SUFFICES ASSUME NEW v \in Users, users'[v] # None, ~users'[v].password
               PROVE  \E k \in Identities : links'[k] # None /\ links'[k].user = v
    BY DEF NoStrandedAccount
  <2>1. CASE v = u
    BY <1>1, <1>3, <1>4, <2>1
  <2>2. CASE v # u
    <3>1. users'[v] = users[v]
      BY <2>2
    <3>2. PICK k \in Identities : links[k] # None /\ links[k].user = v
      BY <3>1 DEF IInv, NoStrandedAccount
    <3> QED BY <1>1, <1>4, <3>2
  <2> QED BY <2>1, <2>2
<1>9. Joins
  BY <1>1, <1>3, <1>4 DEF Joins, NewAddress
<1> QED BY <1>5, <1>6, <1>7, <1>8, <1>9 DEF IInv

LEMMA LinkKeeps ==
  ASSUME IInv, NEW w \in Workers, CommitLink(w)
  PROVE  IInv' /\ Joins
<1>1. CASE IdentityTaken(job[w].identity)
  BY <1>1, CrashKeeps DEF CommitLink
<1>2. CASE ~IdentityTaken(job[w].identity)
  <2>1. /\ At(w, "insert") /\ job[w].user # None /\ users' = users /\ Done(w)
        /\ InsertLink(job[w], job[w].user)
    BY <1>2 DEF CommitLink
  <2>2. job[w].user \in Users /\ JobHolds(job[w])
    BY <2>1 DEF At, IInv, TypeOK, JobsHold, Job
  <2>3. users[job[w].user] # None /\ users[job[w].user].email = NewAddress(job[w])
    BY <2>1, <2>2 DEF JobHolds, At, NewAddress
  <2>4. users' \in [Users -> User \cup {None}] /\ OneAccountPerAddress'
    BY <2>1 DEF IInv, TypeOK, OneAccountPerAddress
  <2> QED BY <1>2, <2>1, <2>2, <2>3, <2>4, InsertKeeps
<1> QED BY <1>1, <1>2

\* A new user with an address that nobody has.
LEMMA NewUserKeeps ==
  ASSUME IInv, NEW u \in Users, users[u] = None, NEW row \in User,
         ~AddressTaken(row.email), users' = [users EXCEPT ![u] = row]
  PROVE  /\ users' \in [Users -> User \cup {None}]
         /\ \A v \in Users : users[v] # None => users'[v] = users[v]
         /\ \A v \in Users : v # u => users'[v] = users[v]
         /\ users'[u] = row /\ users'[u] # None
         /\ OneAccountPerAddress'
<1>1. row # None
  BY NoneAssumption
<1>2. \A v \in Users : users[v] # None => users[v].email # row.email
  BY DEF AddressTaken, WithAddress
<1> QED BY <1>1, <1>2 DEF IInv, TypeOK, OneAccountPerAddress

LEMMA UserAndLinkKeeps ==
  ASSUME IInv, NEW w \in Workers, NEW u \in Users, CommitUserAndLink(w, u)
  PROVE  IInv' /\ Joins
<1> DEFINE row == [email |-> NewAddress(job[w]), password |-> FALSE]
<1>1. CASE AddressTaken(NewAddress(job[w])) \/ IdentityTaken(job[w].identity)
  BY <1>1, CrashKeeps DEF CommitUserAndLink
<1>2. CASE ~(AddressTaken(NewAddress(job[w])) \/ IdentityTaken(job[w].identity))
  <2>1. /\ At(w, "insert") /\ users[u] = None /\ users' = [users EXCEPT ![u] = row]
        /\ InsertLink(job[w], u) /\ Done(w)
    BY <1>2 DEF CommitUserAndLink
  <2>2. row \in User /\ row.email = NewAddress(job[w])
    BY <2>1 DEF At, IInv, TypeOK, Job, User, NewAddress
  <2> HIDE DEF row
  <2>3. ~AddressTaken(row.email)
    BY <1>2, <2>2
  <2>4. /\ users' \in [Users -> User \cup {None}]
        /\ \A v \in Users : users[v] # None => users'[v] = users[v]
        /\ \A v \in Users : v # u => users'[v] = users[v]
        /\ users'[u] = row /\ users'[u] # None
        /\ OneAccountPerAddress'
    BY <2>1, <2>2, <2>3, NewUserKeeps
  <2> QED BY <1>2, <2>1, <2>2, <2>4, InsertKeeps
<1> QED BY <1>1, <1>2

\* Rows of users change or are added, and no link does.
LEMMA UsersKeep ==
  ASSUME IInv, users' \in [Users -> User \cup {None}],
         \A v \in Users : users[v] # None =>
           /\ users'[v] # None /\ users'[v].email = users[v].email
           /\ users[v].password => users'[v].password,
         \A v \in Users : users[v] = None => users'[v] = None \/ users'[v].password,
         OneAccountPerAddress', UNCHANGED <<links, profile, sessions, failed>>,
         job' \in [Workers -> Job \cup {None}],
         \A w \in Workers : job'[w] = None \/ job'[w] = job[w]
  PROVE  IInv' /\ Joins
<1>1. TypeOK'
  BY DEF IInv, TypeOK
<1>2. JobsHold'
  BY JobsKeep
<1>3. LinksHold'
  <2>1. \A k \in Identities : links[k] # None => links[k].user \in Users
    BY DEF IInv, TypeOK, Link
  <2> QED BY <2>1 DEF IInv, LinksHold
<1>4. NoStrandedAccount'
  BY DEF IInv, NoStrandedAccount
<1> QED BY <1>1, <1>2, <1>3, <1>4 DEF IInv, Joins

LEMMA RegisterKeeps ==
  ASSUME IInv, NEW w \in Workers, NEW u \in Users, CommitRegister(w, u)
  PROVE  IInv' /\ Joins
<1> DEFINE row == [email |-> job[w].email, password |-> TRUE]
<1>1. CASE AddressTaken(job[w].email)
  BY <1>1, CrashKeeps DEF CommitRegister
<1>2. CASE ~AddressTaken(job[w].email)
  <2>1. /\ At(w, "register") /\ users[u] = None /\ users' = [users EXCEPT ![u] = row]
        /\ job' = [job EXCEPT ![w] = None] /\ UNCHANGED <<links, profile, sessions, failed>>
    BY <1>2 DEF CommitRegister, Done
  <2>2. row \in User /\ row.email = job[w].email /\ row.password
    BY <2>1 DEF At, IInv, TypeOK, Job, User
  <2> HIDE DEF row
  <2>3. /\ users' \in [Users -> User \cup {None}]
        /\ \A v \in Users : users[v] # None => users'[v] = users[v]
        /\ \A v \in Users : v # u => users'[v] = users[v]
        /\ users'[u] = row
        /\ OneAccountPerAddress'
    BY <1>2, <2>1, <2>2, NewUserKeeps
  <2>4. /\ job' \in [Workers -> Job \cup {None}]
        /\ \A v \in Workers : job'[v] = None \/ job'[v] = job[v]
    BY <2>1 DEF IInv, TypeOK
  <2> QED BY <2>1, <2>2, <2>3, <2>4, UsersKeep
<1> QED BY <1>1, <1>2

LEMMA ResetKeeps ==
  ASSUME IInv, NEW u \in Users, ResetPassword(u)
  PROVE  IInv' /\ Joins
<1> DEFINE row == [users[u] EXCEPT !.password = TRUE]
<1>1. /\ users[u] # None /\ users' = [users EXCEPT ![u] = row]
      /\ UNCHANGED <<links, profile, sessions, failed, job>>
  BY DEF ResetPassword
<1>2. users[u] \in User
  BY <1>1 DEF IInv, TypeOK
<1>3. row \in User /\ row.email = users[u].email /\ row.password
  BY <1>2 DEF User
<1>4. row # None
  BY <1>3, NoneAssumption
<1> HIDE DEF row
<1>5. /\ users' \in [Users -> User \cup {None}] /\ users'[u] = row
      /\ \A v \in Users : v # u => users'[v] = users[v]
  BY <1>1, <1>3 DEF IInv, TypeOK
<1>6. OneAccountPerAddress'
  BY <1>1, <1>3, <1>5 DEF IInv, OneAccountPerAddress
<1>7. job' \in [Workers -> Job \cup {None}]
  BY <1>1 DEF IInv, TypeOK
<1> QED BY <1>1, <1>3, <1>4, <1>5, <1>6, <1>7, UsersKeep

-----------------------------------------------------------------------------
LEMMA InitInv == Init => IInv
BY DEF Init, IInv, TypeOK, LinksHold, JobsHold, OneAccountPerAddress, NoStrandedAccount

LEMMA NextInv == IInv /\ [Next]_vars => IInv' /\ Joins
<1> SUFFICES ASSUME IInv, [Next]_vars PROVE IInv' /\ Joins
  OBVIOUS
<1>1. ASSUME NEW i \in Identities, NEW a \in Addresses \cup {None}, ChangeProfile(i, a)
      PROVE  IInv' /\ Joins
  <2>1. UNCHANGED <<users, links, sessions, failed, job>>
        /\ profile' \in [Identities -> Addresses \cup {None}]
    BY <1>1 DEF ChangeProfile, IInv, TypeOK
  <2>2. failed' \in BOOLEAN /\ job' \in [Workers -> Job \cup {None}]
    BY <2>1 DEF IInv, TypeOK
  <2> QED BY <2>1, <2>2, RowsKeep
<1>2. CASE Restart
  <2>1. UNCHANGED <<users, links, profile, sessions, failed>> /\ job' = [w \in Workers |-> None]
    BY <1>2 DEF Restart
  <2>2. failed' \in BOOLEAN /\ profile' \in [Identities -> Addresses \cup {None}]
    BY <2>1 DEF IInv, TypeOK
  <2> QED BY <2>1, <2>2, RowsKeep
<1>3. CASE UNCHANGED vars
  <2>1. UNCHANGED <<users, links, profile, sessions, failed, job>>
    BY <1>3 DEF vars
  <2>2. /\ failed' \in BOOLEAN /\ profile' \in [Identities -> Addresses \cup {None}]
        /\ job' \in [Workers -> Job \cup {None}]
    BY <2>1 DEF IInv, TypeOK
  <2> QED BY <2>1, <2>2, RowsKeep
<1>4. ASSUME NEW w \in Workers, CallbackStep(w) \/ RegisterStep(w)
      PROVE  IInv' /\ Joins
  BY <1>4, LookUpKeeps, LinkedKeeps, LinkKeeps, UserAndLinkKeeps, RegisterKeeps
     DEF CallbackStep, RegisterStep
<1> QED BY <1>1, <1>2, <1>3, <1>4, ResetKeeps DEF Next

\* The inductive invariant: what a handler found before it waited is still so when
\* it writes.
THEOREM Invariance == Spec => []IInv
<1>1. IInv /\ [Next]_vars => IInv'
  BY NextInv
<1> QED BY <1>1, InitInv, PTL DEF Spec

\* The variables keep their types: whoever commits first, a stored address is an e-mail
\* address or a placeholder, and a link has a user.
THEOREM TypeCorrect == Spec => []TypeOK
<1>1. IInv => TypeOK
  BY DEF IInv
<1> QED BY <1>1, Invariance, PTL

\* One address, one account, for every interleaving of registrations and callbacks.
THEOREM OneAccount == Spec => []OneAccountPerAddress
<1>1. IInv => OneAccountPerAddress
  BY DEF IInv
<1> QED BY <1>1, Invariance, PTL

\* An identity always logs the same user in (_find_or_create_user).
THEOREM SameUser == Spec => []SameUserEveryTime
<1>1. IInv => SameUserEveryTime
  BY DEF IInv, LinksHold, SameUserEveryTime
<1> QED BY <1>1, Invariance, PTL

\* No failed callback leaves an account that nobody can enter.
THEOREM NoneStranded == Spec => []NoStrandedAccount
<1>1. IInv => NoStrandedAccount
  BY DEF IInv
<1> QED BY <1>1, Invariance, PTL

\* A new identity joins the account that has its address.
THEOREM JoinsAccount == Spec => JoinsByAddress
<1>1. IInv /\ [Next]_vars =>
        [\A i \in Identities : links[i] = None /\ links'[i] # None =>
           users'[links'[i].user].email = IF links'[i].email # None THEN links'[i].email ELSE i]_vars
  BY NextInv DEF Joins
<1> QED BY <1>1, Invariance, PTL DEF Spec, JoinsByAddress

-----------------------------------------------------------------------------
(* Accounts implements AccountDirectory: a request takes effect when it commits. *)

LEMMA CrashUnseen ==
  ASSUME NEW w \in Workers, Crash(w)
  PROVE  UNCHANGED <<users, links, sessions>>
BY DEF Crash

\* The user of the link that the handler read is still its user.
LEMMA LinkedLogsIn ==
  ASSUME IInv, NEW w \in Workers, CommitLinked(w)
  PROVE  Directory!DirectoryNext
<1> DEFINE i == job[w].identity
           e == job[w].email
           seen == job[w].seen
<1>1. job[w] # None /\ job[w].at = "update" /\ job[w] \in Job /\ JobHolds(job[w])
  BY DEF CommitLinked, At, IInv, TypeOK, JobsHold
<1>2. i \in Identities /\ e \in Addresses \cup {None}
  BY <1>1 DEF Job
<1>3. links[i] # None /\ links[i].user = seen.user
  BY <1>1 DEF JobHolds
<1>4. /\ links' = IF e # seen.email THEN [links EXCEPT ![i].email = e] ELSE links
      /\ sessions' = sessions \cup {[identity |-> i, user |-> seen.user]}
      /\ UNCHANGED users
  BY DEF CommitLinked
<1> HIDE DEF i, e, seen
<1>5. Directory!LogIn(i, links[i].user)
  BY <1>3, <1>4 DEF Directory!LogIn
<1>6. UNCHANGED links \/ links' = [links EXCEPT ![i].email = e]
  BY <1>4
<1>7. Directory!LoginAgain(i)
  BY <1>2, <1>3, <1>4, <1>5, <1>6 DEF Directory!LoginAgain
<1> QED BY <1>2, <1>7 DEF Directory!DirectoryNext

\* What a handler inserts for an identity without a link is its first login.
LEMMA InsertLogsIn ==
  ASSUME IInv, NEW w \in Workers, At(w, "insert"), NEW u \in Users,
         ~IdentityTaken(job[w].identity), InsertLink(job[w], u),
         \/ job[w].email # None /\ Directory!Join(u, job[w].email)
         \/ Directory!Open(u, NewAddress(job[w]), FALSE)
  PROVE  Directory!DirectoryNext
<1> DEFINE i == job[w].identity
           e == job[w].email
<1>1. i \in Identities /\ e \in Addresses \cup {None}
  BY DEF At, IInv, TypeOK, Job
<1>2. /\ links[i] = None
      /\ links' = [links EXCEPT ![i] = [user |-> u, email |-> e]]
      /\ Directory!LogIn(i, u)
  BY DEF IdentityTaken, InsertLink, Directory!LogIn
<1>3. NewAddress(job[w]) = IF e = None THEN i ELSE e
  BY DEF NewAddress
<1>4. \/ e # None /\ Directory!Join(u, e)
      \/ Directory!Open(u, IF e = None THEN i ELSE e, FALSE)
  BY <1>3
<1> HIDE DEF i, e
<1>5. Directory!FirstLogin(i, u)
  BY <1>1, <1>2, <1>4 DEF Directory!FirstLogin
<1> QED BY <1>1, <1>5 DEF Directory!DirectoryNext

\* The account that the handler found has its address still.
LEMMA LinkJoins ==
  ASSUME IInv, NEW w \in Workers, CommitLink(w)
  PROVE  Directory!DirectoryNext \/ UNCHANGED <<users, links, sessions>>
<1>1. CASE IdentityTaken(job[w].identity)
  BY <1>1, CrashUnseen DEF CommitLink
<1>2. CASE ~IdentityTaken(job[w].identity)
  <2>1. /\ At(w, "insert") /\ job[w].user # None /\ UNCHANGED users
        /\ InsertLink(job[w], job[w].user)
    BY <1>2 DEF CommitLink
  <2>2. job[w].user \in Users /\ JobHolds(job[w])
    BY <2>1 DEF At, IInv, TypeOK, JobsHold, Job
  <2>3. job[w].email # None /\ Directory!Join(job[w].user, job[w].email)
    BY <2>1, <2>2 DEF JobHolds, At, Directory!Join
  <2> QED BY <1>2, <2>1, <2>2, <2>3, InsertLogsIn
<1> QED BY <1>1, <1>2

\* A new user gets an address that nobody has, or none is added.
LEMMA NewUserOpens ==
  ASSUME NEW u \in Users, users[u] = None, NEW a, ~AddressTaken(a), NEW password,
         users' = [users EXCEPT ![u] = [email |-> a, password |-> password]]
  PROVE  Directory!Open(u, a, password)
BY DEF AddressTaken, WithAddress, Directory!Open, Directory!Free

LEMMA UserAndLinkOpens ==
  ASSUME IInv, NEW w \in Workers, NEW u \in Users, CommitUserAndLink(w, u)
  PROVE  Directory!DirectoryNext \/ UNCHANGED <<users, links, sessions>>
<1>1. CASE AddressTaken(NewAddress(job[w])) \/ IdentityTaken(job[w].identity)
  BY <1>1, CrashUnseen DEF CommitUserAndLink
<1>2. CASE ~(AddressTaken(NewAddress(job[w])) \/ IdentityTaken(job[w].identity))
  <2>1. /\ At(w, "insert") /\ users[u] = None /\ InsertLink(job[w], u)
        /\ users' = [users EXCEPT ![u] = [email |-> NewAddress(job[w]), password |-> FALSE]]
    BY <1>2 DEF CommitUserAndLink
  <2>2. Directory!Open(u, NewAddress(job[w]), FALSE)
    BY <1>2, <2>1, NewUserOpens
  <2> QED BY <1>2, <2>1, <2>2, InsertLogsIn
<1> QED BY <1>1, <1>2

LEMMA RegisterOpens ==
  ASSUME IInv, NEW w \in Workers, NEW u \in Users, CommitRegister(w, u)
  PROVE  Directory!DirectoryNext \/ UNCHANGED <<users, links, sessions>>
<1>1. CASE AddressTaken(job[w].email)
  BY <1>1, CrashUnseen DEF CommitRegister
<1>2. CASE ~AddressTaken(job[w].email)
  <2>1. /\ At(w, "register") /\ users[u] = None /\ UNCHANGED <<links, sessions>>
        /\ users' = [users EXCEPT ![u] = [email |-> job[w].email, password |-> TRUE]]
    BY <1>2 DEF CommitRegister
  <2>2. job[w].email \in Addresses
    BY <2>1 DEF At, IInv, TypeOK, Job
  <2>3. Directory!Open(u, job[w].email, TRUE)
    BY <1>2, <2>1, NewUserOpens
  <2>4. Directory!SignUp(u)
    BY <2>1, <2>2, <2>3 DEF Directory!SignUp
  <2> QED BY <2>4 DEF Directory!DirectoryNext
<1> QED BY <1>1, <1>2

\* Every step is a step of the directory, or one that it does not see.
LEMMA DirectorySteps ==
  ASSUME IInv, [Next]_vars
  PROVE  Directory!DirectoryNext \/ UNCHANGED <<users, links, sessions>>
<1>1. ASSUME NEW w \in Workers, CallbackStep(w) \/ RegisterStep(w)
      PROVE  Directory!DirectoryNext \/ UNCHANGED <<users, links, sessions>>
  <2>1. CASE \/ \E i \in Identities : Callback(w, i)
             \/ FetchProfile(w) \/ OAuthError(w) \/ BadAnswer(w) \/ FindIdentity(w) \/ FindAddress(w)
             \/ \E a \in Addresses : Register(w, a)
    BY <2>1, CrashUnseen DEF Callback, FetchProfile, OAuthError, BadAnswer, FindIdentity, FindAddress, Register, Continue
  <2> QED BY <1>1, <2>1, LinkedLogsIn, LinkJoins, UserAndLinkOpens, RegisterOpens
          DEF CallbackStep, RegisterStep
<1>2. ASSUME NEW u \in Users, ResetPassword(u)
      PROVE  Directory!DirectoryNext
  <2>1. Directory!SetPassword(u)
    BY <1>2 DEF ResetPassword, Directory!SetPassword
  <2> QED BY <2>1 DEF Directory!DirectoryNext
<1>3. CASE UNCHANGED vars
  BY <1>3 DEF vars
<1> QED BY <1>1, <1>2, <1>3 DEF Next, ChangeProfile, Restart

\* Logins and registrations are atomic to whoever looks at accounts and links,
\* whichever callbacks and registrations run at the same time (register, callback).
THEOREM Implements == Spec => ImplementsDirectory
<1>1. Init => Directory!DirectoryInit
  BY DEF Init, Directory!DirectoryInit
<1>2. IInv /\ [Next]_vars => [Directory!DirectoryNext]_(Directory!directory)
  BY DirectorySteps DEF Directory!directory
<1> QED BY <1>1, <1>2, Invariance, PTL DEF Spec, ImplementsDirectory, Directory!DirectorySpec

=============================================================================
