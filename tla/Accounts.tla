------------------------------ MODULE Accounts ------------------------------
(***************************************************************************)
(* What registered users may rely on (the abstract specification of Auth): *)
(* an account is opened once and kept, its e-mail address is its own, it   *)
(* takes a name of its own at most once, and whatever a token says of it   *)
(* was true of it when it was said.                                        *)
(***************************************************************************)
CONSTANTS Users, Emails, Names, Secrets,
          NoAccount, NoName

VARIABLES
  account,  \* user -> its account
  claims    \* <<user, name>> of every token issued to a registered user

registry == <<account, claims>>

Account == [email : Emails, hash : Secrets, name : Names \cup {NoName}]

Opened(u) == account[u] # NoAccount

AccountsType ==
  /\ account \in [Users -> Account \cup {NoAccount}]
  /\ claims \subseteq Users \X (Names \cup {NoName})

\* Accounts opened before the server started have no name yet.
AccountsInit ==
  /\ account \in [Users -> Account \cup {NoAccount}]
  /\ \A u \in Users : Opened(u) => account[u].name = NoName
  /\ \A u, v \in Users : Opened(u) /\ Opened(v) /\ account[u].email = account[v].email => u = v
  /\ claims \subseteq {u \in Users : Opened(u)} \X {NoName}

\* The answer with the first tokens may be lost.
Open(u, e, s) ==
  /\ ~Opened(u)
  /\ \A v \in Users : Opened(v) => account[v].email # e
  /\ account' = [account EXCEPT ![u] = [email |-> e, hash |-> s, name |-> NoName]]
  /\ claims' \in {claims, claims \cup {<<u, NoName>>}}

TakeName(u, n) ==
  /\ Opened(u)
  /\ account[u].name = NoName
  /\ \A v \in Users : Opened(v) => account[v].name # n
  /\ account' = [account EXCEPT ![u].name = n]
  /\ UNCHANGED claims

ChangeSecret(u, s) ==
  /\ Opened(u)
  /\ account' = [account EXCEPT ![u].hash = s]
  /\ UNCHANGED claims

\* A token may be issued from a row read before the account got its name.
Tell(u) ==
  /\ Opened(u)
  /\ \E n \in {NoName, account[u].name} : claims' = claims \cup {<<u, n>>}
  /\ UNCHANGED account

AccountsNext ==
  \E u \in Users :
    \/ \E e \in Emails, s \in Secrets : Open(u, e, s)
    \/ \E n \in Names : TakeName(u, n)
    \/ \E s \in Secrets : ChangeSecret(u, s)
    \/ Tell(u)

AccountsSpec == AccountsInit /\ [][AccountsNext]_registry
-----------------------------------------------------------------------------
\* No two accounts have one e-mail address or one name.
OwnersAreUnique ==
  \A u, v \in Users :
    Opened(u) /\ Opened(v) /\ u # v =>
      /\ account[u].email # account[v].email
      /\ account[u].name # NoName => account[u].name # account[v].name

\* A claim about an account names nobody, or the name the account has for good.
ClaimsAreTrue ==
  \A c \in claims : Opened(c[1]) /\ c[2] \in {NoName, account[c[1]].name}
=============================================================================
