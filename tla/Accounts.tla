------------------------------ MODULE Accounts ------------------------------
(***************************************************************************)
(* Accounts and their social logins: the callback of the oauth router and  *)
(* the registration of the auth router, over the tables users and          *)
(* oauth_accounts at READ COMMITTED.                                       *)
(*                                                                         *)
(* A callback exchanges the code for a profile, looks the identity up,     *)
(* then the e-mail address, and then writes; each of these is a step of    *)
(* its own, and other handlers may commit in between.  The writes and the  *)
(* commit are one step: an INSERT that meets the same key of an open       *)
(* transaction waits until that one ends, and users are always inserted    *)
(* before links.                                                           *)
(*                                                                         *)
(* An address is an e-mail address; the placeholder that the code builds   *)
(* for an identity without one is the identity itself, because no          *)
(* registration accepts an address in the reserved domain.                 *)
(***************************************************************************)
EXTENDS Integers

CONSTANTS
  Workers,     \* request handlers
  Users,       \* keys of users (uuids)
  Identities,  \* (provider, provider_user_id)
  Addresses,   \* e-mail addresses
  BadAnswers,  \* whether a provider may answer with something else than JSON objects
  None         \* a missing row or value

ASSUME AnswerAssumption == BadAnswers \in BOOLEAN

ASSUME PlaceholderAssumption == Addresses \cap Identities = {}

VARIABLES
  users,     \* users: the row of each key, or None
  links,     \* oauth_accounts: the row of each identity, or None
  profile,   \* external: the address the provider has for each identity, or None
  sessions,  \* who was logged in by which identity
  failed,    \* whether a callback ended with a 500
  job        \* the request each worker is handling, or None

vars == <<users, links, profile, sessions, failed, job>>

-----------------------------------------------------------------------------
User == [email : Addresses \cup Identities, password : BOOLEAN]

Link == [user : Users, email : Addresses \cup {None}]

\* What a handler knows when it is about to exchange the code, look the identity
\* up, look the address up, update the link, insert it, or insert a new user.
Job ==
  [at : {"exchange"}, identity : Identities]
  \cup [at : {"identity", "address"}, identity : Identities, email : Addresses \cup {None}]
  \cup [at : {"update"}, identity : Identities, email : Addresses \cup {None}, seen : Link]
  \cup [at : {"insert"}, identity : Identities, email : Addresses \cup {None},
        user : Users \cup {None}]
  \cup [at : {"register"}, email : Addresses]

ASSUME NoneAssumption ==
  None \notin Users \cup Addresses \cup Identities \cup User \cup Link \cup Job

Idle(w) == job[w] = None

At(w, step) == job[w] # None /\ job[w].at = step

Continue(w, j) ==
  /\ job' = [job EXCEPT ![w] = j]
  /\ UNCHANGED <<users, links, profile, sessions, failed>>

Done(w) == job' = [job EXCEPT ![w] = None] /\ UNCHANGED <<profile, failed>>

WithAddress(a) == {u \in Users : users[u] # None /\ users[u].email = a}

\* A handler that takes the placeholder whatever the profile says, and one that
\* knows no placeholder.
PlaceholderAlways(j) == j.identity
ProfileAddress(j) == j.email

\* The address or the placeholder of a new user.
NewAddress(j) == IF j.email # None THEN j.email ELSE j.identity

\* A conflict that nothing detects, as without the unique constraint.
NoConflict(x) == FALSE

\* users.email is unique.
AddressTaken(a) == WithAddress(a) # {}

\* (provider, provider_user_id) is unique.
IdentityTaken(i) == links[i] # None

\* A handler that commits the new user before it inserts the link.
CrashAfterUser(w) ==
  /\ job' = [job EXCEPT ![w] = None]
  /\ failed' = (failed \/ job[w].at # "register")
  /\ \E u \in Users :
       /\ users[u] = None
       /\ users' = IF At(w, "insert") /\ job[w].user = None /\ ~AddressTaken(NewAddress(job[w]))
                     THEN [users EXCEPT ![u] = [email |-> NewAddress(job[w]), password |-> FALSE]]
                     ELSE users
  /\ UNCHANGED <<links, profile, sessions>>

\* An exception that the handler does not catch: the whole transaction is rolled
\* back and the client gets a 500.
Crash(w) ==
  /\ job' = [job EXCEPT ![w] = None]
  /\ failed' = (failed \/ job[w].at # "register")
  /\ UNCHANGED <<users, links, profile, sessions>>

-----------------------------------------------------------------------------
(* The callback. *)

\* The provider is supported, there is a code, and the state is that of the
\* cookie; otherwise the client is redirected and nothing happens.
Callback(w, i) ==
  /\ Idle(w)
  /\ Continue(w, [at |-> "exchange", identity |-> i])

FetchProfile(w) ==
  /\ At(w, "exchange")
  /\ Continue(w, [at |-> "identity", identity |-> job[w].identity,
                  email |-> profile[job[w].identity]])

\* The provider is not configured, refuses, does not answer in time, or answers
\* without a token or an identity: the client is redirected to the login page.
OAuthError(w) == At(w, "exchange") /\ Continue(w, None)

\* The answer is no JSON, or JSON of another shape: only OAuthError and HTTPError are
\* caught.
BadAnswer(w) == BadAnswers /\ At(w, "exchange") /\ Crash(w)

FindIdentity(w) ==
  /\ At(w, "identity")
  /\ LET j == job[w]
         row == links[j.identity]
     IN Continue(w, IF row # None
                      THEN [at |-> "update", identity |-> j.identity, email |-> j.email, seen |-> row]
                      ELSE [at |-> "address", identity |-> j.identity, email |-> j.email])

\* A profile without an address belongs to nobody yet.
FindAddress(w) ==
  /\ At(w, "address")
  /\ LET j == job[w]
         found == IF j.email = None THEN {} ELSE WithAddress(j.email)
     IN \E user \in IF found = {} THEN {None} ELSE found :
          Continue(w, [at |-> "insert", identity |-> j.identity, email |-> j.email, user |-> user])

\* The ORM writes the address when it differs from the one it read.
CommitLinked(w) ==
  /\ At(w, "update")
  /\ LET j == job[w]
     IN /\ links' = IF j.email # j.seen.email
                      THEN [links EXCEPT ![j.identity].email = j.email]
                      ELSE links
        /\ sessions' = sessions \cup {[identity |-> j.identity, user |-> j.seen.user]}
  /\ UNCHANGED users
  /\ Done(w)

InsertLink(j, u) ==
  /\ links' = [links EXCEPT ![j.identity] = [user |-> u, email |-> j.email]]
  /\ sessions' = sessions \cup {[identity |-> j.identity, user |-> u]}

CommitLink(w) ==
  /\ At(w, "insert")
  /\ job[w].user # None
  /\ IF IdentityTaken(job[w].identity)
       THEN Crash(w)
       ELSE InsertLink(job[w], job[w].user) /\ UNCHANGED users /\ Done(w)

CommitUserAndLink(w, u) ==
  /\ At(w, "insert")
  /\ job[w].user = None
  /\ users[u] = None
  /\ IF AddressTaken(NewAddress(job[w])) \/ IdentityTaken(job[w].identity)
       THEN Crash(w)
       ELSE /\ users' = [users EXCEPT ![u] = [email |-> NewAddress(job[w]), password |-> FALSE]]
            /\ InsertLink(job[w], u)
            /\ Done(w)

-----------------------------------------------------------------------------
(* Registration, a password reset, and the world outside. *)

Register(w, a) ==
  /\ Idle(w)
  /\ ~AddressTaken(a)
  /\ Continue(w, [at |-> "register", email |-> a])

CommitRegister(w, u) ==
  /\ At(w, "register")
  /\ users[u] = None
  /\ IF AddressTaken(job[w].email)
       THEN Crash(w)
       ELSE /\ users' = [users EXCEPT ![u] = [email |-> job[w].email, password |-> TRUE]]
            /\ UNCHANGED <<links, sessions>>
            /\ Done(w)

\* The mail with the link reaches only a real address; the account of a social
\* login has a password from then on.
ResetPassword(u) ==
  /\ users[u] # None
  /\ users[u].email \in Addresses
  /\ ~users[u].password
  /\ users' = [users EXCEPT ![u].password = TRUE]
  /\ UNCHANGED <<links, profile, sessions, failed, job>>

\* The owner changes the address at the provider, or withdraws it.
ChangeProfile(i, a) ==
  /\ profile[i] # a
  /\ profile' = [profile EXCEPT ![i] = a]
  /\ UNCHANGED <<users, links, sessions, failed, job>>

\* The process dies and comes back: open transactions are rolled back.
Restart ==
  /\ \E w \in Workers : ~Idle(w)
  /\ job' = [w \in Workers |-> None]
  /\ UNCHANGED <<users, links, profile, sessions, failed>>

-----------------------------------------------------------------------------
Init ==
  /\ users = [u \in Users |-> None]
  /\ links = [i \in Identities |-> None]
  /\ profile \in [Identities -> Addresses \cup {None}]
  /\ sessions = {}
  /\ failed = FALSE
  /\ job = [w \in Workers |-> None]

CallbackStep(w) ==
  \/ \E i \in Identities : Callback(w, i)
  \/ FetchProfile(w)
  \/ OAuthError(w)
  \/ BadAnswer(w)
  \/ FindIdentity(w)
  \/ FindAddress(w)
  \/ CommitLinked(w)
  \/ CommitLink(w)
  \/ \E u \in Users : CommitUserAndLink(w, u)

RegisterStep(w) ==
  \/ \E a \in Addresses : Register(w, a)
  \/ \E u \in Users : CommitRegister(w, u)

Next ==
  \/ \E w \in Workers : CallbackStep(w) \/ RegisterStep(w)
  \/ \E u \in Users : ResetPassword(u)
  \/ \E i \in Identities, a \in Addresses \cup {None} : ChangeProfile(i, a)
  \/ Restart

Spec == Init /\ [][Next]_vars

-----------------------------------------------------------------------------
(* Properties. *)

\* The variables keep their types: a stored address is an e-mail address or the
\* placeholder of an identity, never a missing one (NewAddress, User.email).
TypeOK ==
  /\ users \in [Users -> User \cup {None}]
  /\ links \in [Identities -> Link \cup {None}]
  /\ profile \in [Identities -> Addresses \cup {None}]
  /\ sessions \in SUBSET [identity : Identities, user : Users]
  /\ failed \in BOOLEAN
  /\ job \in [Workers -> Job \cup {None}]

\* One address, one account, also when registrations and callbacks that saw it
\* free commit one after the other (register, _find_or_create_user).
OneAccountPerAddress == \A u, v \in Users :
  users[u] # None /\ users[v] # None /\ users[u].email = users[v].email => u = v

\* "(provider, provider_user_id) is the identity, and the address may change"
\* (OAuthAccount): whoever logs in with an identity is always the same user,
\* whatever first logins were under way together.
SameUserEveryTime == \A s, t \in sessions : s.identity = t.identity => s.user = t.user

\* No account is left that nobody can enter: a callback that fails while it adds
\* the link takes the account it added back (callback, one commit).
NoStrandedAccount == \A u \in Users : users[u] # None =>
  users[u].password \/ \E i \in Identities : links[i] # None /\ links[i].user = u

\* An identity whose address somebody has joins that account (_find_or_create_user),
\* and only one without an address has a placeholder account.
JoinsByAddress ==
  [][\A i \in Identities : links[i] = None /\ links'[i] # None =>
       users'[links'[i].user].email = IF links'[i].email # None THEN links'[i].email ELSE i]_vars

\* Registrations, first and later logins and password resets behave as if each were one
\* step, and those that fail as if they had never been sent, although a callback waits
\* for the provider and others commit between its look-ups and its commit (register,
\* callback, _find_or_create_user).
Directory == INSTANCE AccountDirectory

ImplementsDirectory == Directory!DirectorySpec

\* "Whatever fails, the client returns to the login page" (callback).
CallbackRedirects == ~failed

=============================================================================
