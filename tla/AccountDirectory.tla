--------------------------- MODULE AccountDirectory ---------------------------
(***************************************************************************)
(* What a user may rely on about accounts and social logins, whatever      *)
(* requests are in flight: every login and every registration that         *)
(* succeeds happens at one moment, and one that fails does not happen.     *)
(* An account is opened with an address that nobody has.  The first login  *)
(* of an identity joins the account that has its address or else opens     *)
(* one, every later login enters the account of the first, and no account  *)
(* and no link goes away.  Accounts implements this specification.         *)
(***************************************************************************)
CONSTANTS
  Users, Identities, Addresses,
  None  \* a missing row or address

VARIABLES
  users,    \* the address of each account and whether it has a password, or None
  links,    \* the account of each identity and its address at the provider, or None
  sessions  \* who was logged in by which identity

directory == <<users, links, sessions>>

DirectoryInit ==
  /\ users = [u \in Users |-> None]
  /\ links = [i \in Identities |-> None]
  /\ sessions = {}

Free(a) == \A u \in Users : users[u] # None => users[u].email # a

Open(u, a, password) ==
  /\ users[u] = None
  /\ users' = [users EXCEPT ![u] = [email |-> a, password |-> password]]
  /\ Free(a)

LogIn(i, u) == sessions' = sessions \cup {[identity |-> i, user |-> u]}

SignUp(u) ==
  /\ \E a \in Addresses : Open(u, a, TRUE)
  /\ UNCHANGED <<links, sessions>>

Join(u, a) == users[u] # None /\ users[u].email = a /\ UNCHANGED users

FirstLogin(i, u) ==
  /\ links[i] = None
  /\ LogIn(i, u)
  /\ \E a \in Addresses \cup {None} :
       /\ links' = [links EXCEPT ![i] = [user |-> u, email |-> a]]
       /\ \/ a # None /\ Join(u, a)
          \/ Open(u, IF a = None THEN i ELSE a, FALSE)

LoginAgain(i) ==
  /\ links[i] # None
  /\ LogIn(i, links[i].user)
  /\ \/ UNCHANGED links
     \/ \E a \in Addresses \cup {None} : links' = [links EXCEPT ![i].email = a]
  /\ UNCHANGED users

\* Only somebody who reads the mail of the address can do so.
SetPassword(u) ==
  /\ users[u] # None
  /\ users[u].email \in Addresses
  /\ users' = [users EXCEPT ![u].password = TRUE]
  /\ UNCHANGED <<links, sessions>>

DirectoryNext ==
  \/ \E i \in Identities : LoginAgain(i) \/ \E u \in Users : FirstLogin(i, u)
  \/ \E u \in Users : SignUp(u) \/ SetPassword(u)

DirectorySpec == DirectoryInit /\ [][DirectoryNext]_directory

=============================================================================
