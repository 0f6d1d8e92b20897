-------------------------------- MODULE Auth --------------------------------
(***************************************************************************)
(* Authentication: the handlers of internal/auth/handlers.go and the       *)
(* service behind them (service.go, oauth.go), whose state is the table    *)
(* users in Postgres and two kinds of keys in Redis.                       *)
(*                                                                         *)
(* Every request is a call taken apart at each database or Redis command,  *)
(* so that checks and writes of several requests interleave.  A command    *)
(* may fail, before or after it took effect; a call whose goroutine dies   *)
(* takes no further step.  A request that ends without having changed or   *)
(* told anything is not a step, unless it had a step before.  A hash is    *)
(* the password it was made of; a token is what its claims say, and does   *)
(* not expire.                                                             *)
(***************************************************************************)
EXTENDS Naturals, FiniteSets

CONSTANTS
  Seeds, SeedEmail, SeedPassword,  \* accounts from before, still without a name
  Calls,                           \* bound: requests of more than one step
  Emails, NoEmail,                 \* NoEmail: the empty string
  Passwords, Short, NoPassword,    \* Short: of less than minPasswordLength
  Typed, Names, Canonical, Length, \* names as typed (of admitted characters), and in
                                   \* lower case and trimmed
  GuestNames,                      \* what generateGuestUsername may draw
  MaxAttempts,                     \* draws of a guest name (50 in the code)
  BindsUUID,                       \* pgtype.UUID.Scan takes a uuid.UUID
  NoUser, NoRow, NoName

Users == Seeds \cup Calls
Row == [email : Emails, hash : Passwords \cup {NoPassword}, name : Names \cup {NoName}]

\* A guest name is "guest_" and 6 to 8 characters.
ASSUME AuthAssumption ==
  /\ Seeds \cap Calls = {}
  /\ SeedEmail \in [Seeds -> Emails]
  /\ \A u, v \in Seeds : SeedEmail[u] = SeedEmail[v] => u = v
  /\ SeedPassword \in Passwords
  /\ NoEmail \in Emails
  /\ Short \subseteq Passwords /\ NoPassword \notin Passwords
  /\ Canonical \in [Typed -> Names] /\ Length \in [Names -> Nat]
  /\ GuestNames \subseteq Names /\ \A n \in GuestNames : Length[n] \in 12..14
  /\ MaxAttempts \in Nat \ {0}
  /\ BindsUUID \in BOOLEAN
  /\ NoUser \notin Users /\ NoRow \notin Row /\ NoName \notin Names

VARIABLES
  row,       \* the table users: user_id -> row
  guestKey,  \* Redis: names with a key guest:username:<name>
  resetKey,  \* Redis: password_reset:<token> -> user; a token is its request
  mailed,    \* reset tokens that were sent to their user
  tokens,    \* every JWT that was answered to a client
  call,      \* the requests
  deleted,   \* history: reset tokens whose DEL was answered
  contested  \* history: guest names that lost their key, or never had one, or were
             \* given while another request had already found them free

vars == <<row, guestKey, resetKey, mailed, tokens, call, deleted, contested>>

Pair == {"access", "refresh"}
Token == [kind : Pair, id : Users, name : Names \cup {NoName}, guest : BOOLEAN]

Call == [step : {"idle", "insert", "login", "draw", "lookup", "reserve", "reserved", "update",
                 "store", "mail", "password", "delete", "done"},
         email : Emails, password : Passwords \cup {NoPassword}, id : Users \cup {NoUser},
         name : Names \cup {NoName}, reset : Calls \cup {NoUser}, tries : 0..(MaxAttempts - 1)]

TypeOK ==
  /\ row \in [Users -> Row \cup {NoRow}]
  /\ guestKey \subseteq GuestNames
  /\ resetKey \in [Calls -> Users \cup {NoUser}]
  /\ mailed \subseteq Calls
  /\ tokens \subseteq Token
  /\ call \in [Calls -> Call]
  /\ deleted \subseteq Calls
  /\ contested \subseteq GuestNames

At(step) == [step |-> step, email |-> NoEmail, password |-> NoPassword, id |-> NoUser,
             name |-> NoName, reset |-> NoUser, tries |-> 0]

\* The owners of the seeds are logged in.
Init ==
  /\ row = [u \in Users |-> IF u \in Seeds
                            THEN [email |-> SeedEmail[u], hash |-> SeedPassword, name |-> NoName]
                            ELSE NoRow]
  /\ guestKey = {}
  /\ resetKey = [r \in Calls |-> NoUser]
  /\ mailed = {}
  /\ tokens = [kind : Pair, id : Seeds, name : {NoName}, guest : {FALSE}]
  /\ call = [c \in Calls |-> At("idle")]
  /\ deleted = {}
  /\ contested = {}

-----------------------------------------------------------------------------
(* Database rows, tokens, calls *)

Rows == {u \in Users : row[u] # NoRow}

\* What GetUserByEmail and GetUserByUsername may return.  NoUser is an error:
\* there is no such row, or the command failed.
GetByEmail(e) == {u \in Rows : row[u].email = e} \cup {NoUser}
GetByUsername(n) == {u \in Rows : row[u].name = n} \cup {NoUser}

\* The row a statement with WHERE user_id = $1 reaches: none if the id was not bound.
ById(u) == {v \in Rows : v = u /\ BindsUUID}

\* generateTokenPair, and which of its tokens the handler sends.
Issue(kinds, u, n, g) ==
  tokens' = tokens \cup [kind : kinds, id : {u}, name : {n}, guest : {g}]

In(c, step) == call[c].step = step
Goto(c, step) == call' = [call EXCEPT ![c].step = step]
Enter(c, local) == call' = [call EXCEPT ![c] = local]
End(c) == Enter(c, At("done"))

-----------------------------------------------------------------------------
(* Accounts: Register, ConvertGuest, OAuth, Login *)

\* The check of Register and ConvertGuest before the password is hashed.
FindFree(c, e, p) ==
  /\ In(c, "idle")
  /\ p \notin Short
  /\ NoUser \in GetByEmail(e)
  /\ Enter(c, [At("insert") EXCEPT !.email = e, !.password = p])
  /\ UNCHANGED <<row, guestKey, resetKey, mailed, tokens, deleted, contested>>

Register(c, e, p) == e # NoEmail /\ FindFree(c, e, p)

\* No test of the e-mail; the guest id of the request is not used.
ConvertGuest(c, e, p) == FindFree(c, e, p)

CreateOrGetOAuthUser(c, e) ==
  /\ In(c, "idle")
  /\ e # NoEmail
  /\ \E u \in GetByEmail(e) :
       IF u = NoUser
       THEN Enter(c, [At("insert") EXCEPT !.email = e]) /\ UNCHANGED tokens
       ELSE End(c) /\ Issue(Pair, u, row[u].name, FALSE)
  /\ UNCHANGED <<row, guestKey, resetKey, mailed, deleted, contested>>

\* Mutant: the table has no unique index on email.
AnyEmail(e) == TRUE

\* The UNIQUE constraint on users.email.
EmailIsFree(e) == \A u \in Rows : row[u].email # e

NewRow(c) == [email |-> call[c].email, hash |-> call[c].password, name |-> NoName]

\* INSERT, and the tokens of the new account unless its answer was lost.
CreateUser(c) ==
  /\ In(c, "insert")
  /\ \/ /\ EmailIsFree(call[c].email)
        /\ row' = [row EXCEPT ![c] = NewRow(c)]
        /\ Issue(Pair, c, NoName, FALSE) \/ UNCHANGED tokens
     \/ UNCHANGED <<row, tokens>>
  /\ End(c)
  /\ UNCHANGED <<guestKey, resetKey, mailed, deleted, contested>>

Verified(u, p) == u # NoUser /\ row[u].hash = p

Login(c, e, p) ==
  /\ In(c, "idle")
  /\ \E u \in GetByEmail(e) :
       /\ Verified(u, p)
       /\ Enter(c, [At("login") EXCEPT !.id = u, !.name = row[u].name])
  /\ UNCHANGED <<row, guestKey, resetKey, mailed, tokens, deleted, contested>>

\* The error of UpdateLogin is dropped.  The name is the one read before it.
UpdateLogin(c) ==
  /\ In(c, "login")
  /\ Issue(Pair, call[c].id, call[c].name, FALSE)
  /\ End(c)
  /\ UNCHANGED <<row, guestKey, resetKey, mailed, deleted, contested>>

-----------------------------------------------------------------------------
(* Guests *)

\* Mutant: i <= maxAttempts.
OneDrawMore(c) == IF call[c].tries < MaxAttempts
                  THEN Enter(c, [At("draw") EXCEPT !.tries = call[c].tries + 1])
                  ELSE End(c)

NextDraw(c) == IF call[c].tries + 1 < MaxAttempts
               THEN Enter(c, [At("draw") EXCEPT !.tries = call[c].tries + 1])
               ELSE End(c)

\* Mutant: an error of EXISTS counts as free.
FreeOnError(n) == TRUE

\* What EXISTS may find free; an error counts as taken.
Free(n) == n \notin guestKey

DrawGuestName(c, n) ==
  /\ In(c, "idle") \/ In(c, "draw")
  /\ \/ Free(n) /\ Enter(c, [call[c] EXCEPT !.step = "lookup", !.name = n])
     \/ NextDraw(c)
  /\ UNCHANGED <<row, guestKey, resetKey, mailed, tokens, deleted, contested>>

LookupGuestName(c) ==
  /\ In(c, "lookup")
  /\ \E u \in GetByUsername(call[c].name) :
       IF u = NoUser THEN Goto(c, "reserve") ELSE NextDraw(c)
  /\ UNCHANGED <<row, guestKey, resetKey, mailed, tokens, deleted, contested>>

\* A request that found the name free and has not taken it yet.
Drawing(c, n) == call[c].name = n /\ (In(c, "lookup") \/ In(c, "reserve"))

\* A plain SET; its error is only logged.  A guest has no row.
CreateGuest(c) ==
  LET n == call[c].name
      lost == n \notin guestKey' \/ \E d \in Calls \ {c} : Drawing(d, n)
  IN  /\ In(c, "reserve")
      /\ guestKey' \in {guestKey, guestKey \cup {n}}
      /\ contested' = IF lost THEN contested \cup {n} ELSE contested
      /\ Issue(Pair, c, n, TRUE)
      /\ End(c)
      /\ UNCHANGED <<row, resetKey, mailed, deleted>>

\* After 24 hours.
GuestKeyExpires(n) ==
  /\ n \in guestKey
  /\ guestKey' = guestKey \ {n}
  /\ contested' = contested \cup {n}
  /\ UNCHANGED <<row, resetKey, mailed, tokens, call, deleted>>

\* The handler sends only the access token of the new pair.
RefreshToken(t) ==
  /\ t \in tokens /\ t.kind = "refresh"
  /\ \/ t.guest /\ Issue({"access"}, t.id, t.name, TRUE)
     \/ \E u \in ById(t.id) : ~t.guest /\ Issue({"access"}, u, row[u].name, FALSE)
  /\ UNCHANGED <<row, guestKey, resetKey, mailed, call, deleted, contested>>

-----------------------------------------------------------------------------
(* User names *)

ValidateUsername(n) == Length[n] \in 3..10

\* AuthMiddleware and RequireAuth: the bearer token is one signed as an access token.
Authenticated(t) == t \in tokens /\ t.kind = "access"

SetUsername(c, t, w) ==
  /\ In(c, "idle")
  /\ Authenticated(t)
  /\ ValidateUsername(Canonical[w])
  /\ NoUser \in GetByUsername(Canonical[w])
  /\ Enter(c, [At("reserved") EXCEPT !.id = t.id, !.name = Canonical[w]])
  /\ UNCHANGED <<row, guestKey, resetKey, mailed, tokens, deleted, contested>>

\* EXISTS; an error counts as free.
CheckGuestName(c) ==
  /\ In(c, "reserved")
  /\ \E taken \in {call[c].name \in guestKey, FALSE} :
       IF taken THEN End(c) ELSE Goto(c, "update")
  /\ UNCHANGED <<row, guestKey, resetKey, mailed, tokens, deleted, contested>>

\* The UNIQUE constraint on users.username.
NameIsFree(n) == \A u \in Rows : row[u].name # n

\* Mutant: UPDATE without AND username IS NULL.
UnnamedOrNot(u) == ById(u)

Unnamed(u) == {v \in ById(u) : row[v].name = NoName}

\* A row may be changed even if its answer was lost.  A guest has none.
UpdateUsername(c) ==
  /\ In(c, "update")
  /\ \/ \E u \in Unnamed(call[c].id) :
          /\ NameIsFree(call[c].name)
          /\ row' = [row EXCEPT ![u].name = call[c].name]
     \/ UNCHANGED row
  /\ End(c)
  /\ UNCHANGED <<guestKey, resetKey, mailed, tokens, deleted, contested>>

-----------------------------------------------------------------------------
(* Passwords *)

RequestPasswordReset(c, e) ==
  /\ In(c, "idle")
  /\ \E u \in GetByEmail(e) \ {NoUser} : Enter(c, [At("store") EXCEPT !.id = u])
  /\ UNCHANGED <<row, guestKey, resetKey, mailed, tokens, deleted, contested>>

ForgotPassword(c, e) == e # NoEmail /\ RequestPasswordReset(c, e)

StoreResetToken(c) ==
  /\ In(c, "store")
  /\ \/ resetKey' = [resetKey EXCEPT ![c] = call[c].id] /\ Goto(c, "mail")
     \/ UNCHANGED resetKey /\ End(c)
  /\ UNCHANGED <<row, guestKey, mailed, tokens, deleted, contested>>

SendPasswordResetEmail(c) ==
  /\ In(c, "mail")
  /\ mailed' \in {mailed, mailed \cup {c}}
  /\ End(c)
  /\ UNCHANGED <<row, guestKey, resetKey, tokens, deleted, contested>>

\* After an hour.
ResetKeyExpires(r) ==
  /\ resetKey[r] # NoUser
  /\ resetKey' = [resetKey EXCEPT ![r] = NoUser]
  /\ UNCHANGED <<row, guestKey, mailed, tokens, call, deleted, contested>>

\* ResetPassword up to the GET.
ResetPassword(c, r, p) ==
  /\ In(c, "idle")
  /\ r \in mailed
  /\ p \notin Short
  /\ resetKey[r] # NoUser
  /\ Enter(c, [At("password") EXCEPT !.id = resetKey[r], !.password = p, !.reset = r])
  /\ UNCHANGED <<row, guestKey, resetKey, mailed, tokens, deleted, contested>>

Rehash(u, p) == [v \in Users |-> IF v \in ById(u) THEN [row[v] EXCEPT !.hash = p] ELSE row[v]]

UpdatePassword(c) ==
  /\ In(c, "password")
  /\ \/ row' = Rehash(call[c].id, call[c].password) /\ (Goto(c, "delete") \/ End(c))
     \/ UNCHANGED row /\ End(c)
  /\ UNCHANGED <<guestKey, resetKey, mailed, tokens, deleted, contested>>

\* Mutant: the token is left to expire.
Keep(r) == UNCHANGED resetKey

Del(r) == resetKey' = [resetKey EXCEPT ![r] = NoUser]

\* DEL; its error is only logged.
DeleteToken(c) ==
  /\ In(c, "delete")
  /\ \/ Del(call[c].reset) /\ deleted' = deleted \cup {call[c].reset}
     \/ UNCHANGED <<resetKey, deleted>>
  /\ End(c)
  /\ UNCHANGED <<row, guestKey, mailed, tokens, contested>>

-----------------------------------------------------------------------------
CallStep(c) ==
  \/ CreateUser(c) \/ UpdateLogin(c)
  \/ LookupGuestName(c) \/ CreateGuest(c)
  \/ CheckGuestName(c) \/ UpdateUsername(c)
  \/ StoreResetToken(c) \/ SendPasswordResetEmail(c)
  \/ UpdatePassword(c) \/ DeleteToken(c)

Next ==
  \/ \E c \in Calls :
       \/ \E e \in Emails, p \in Passwords : Register(c, e, p) \/ ConvertGuest(c, e, p) \/ Login(c, e, p)
       \/ \E e \in Emails : CreateOrGetOAuthUser(c, e) \/ ForgotPassword(c, e)
       \/ \E n \in GuestNames : DrawGuestName(c, n)
       \/ \E t \in tokens, w \in Typed : SetUsername(c, t, w)
       \/ \E r \in mailed, p \in Passwords : ResetPassword(c, r, p)
       \/ CallStep(c)
  \/ \E t \in tokens : RefreshToken(t)
  \/ \E n \in GuestNames : GuestKeyExpires(n)
  \/ \E r \in Calls : ResetKeyExpires(r)

Spec == Init /\ [][Next]_vars
-----------------------------------------------------------------------------
\* What a token says of a registered account stays true: the row is there and,
\* if the token names its user, that is the row's name for good, although Login
\* reads the name one command before it issues the token (service.go:127-163) and
\* SetUsername checks its name two commands before it writes it (service.go:372-391).
ClaimsHold ==
  \A t \in tokens : ~t.guest => t.id \in Rows /\ t.name \in {NoName, row[t.id].name}

\* Who may share a name.  Accounts never do, in spite of racing checks, and no
\* account takes a guest's name: the check that should prevent it treats an error as
\* free, but a name it could take is too short for a guest's.  Two guests share one
\* only if its key expired or was never written (service.go:228), or if both found it
\* free before either took it: EXISTS and SET are two commands, so the username is not
\* the "unique" one service.go:173 speaks of, but a key that is there protects it.
NamesAreKeptApart ==
  /\ \A u, v \in Rows : row[u].name = row[v].name /\ row[u].name # NoName => u = v
  /\ \A u \in Rows, t \in tokens : t.guest => t.name # row[u].name
  /\ \A s, t \in tokens : s.guest /\ t.guest /\ s.name = t.name =>
       s.id = t.id \/ s.name \in contested

\* A reset token is "single-use" (service.go:523) as far as the code ensures it:
\* once the DEL of a reset was answered no other reset begins with its token.  A
\* reset that began before, or after a DEL that failed, still goes through.
ResetsOnce ==
  [][\A c \in Calls : In(c, "idle") /\ call'[c].step = "password" =>
       call'[c].reset \notin deleted]_vars

\* What tokens say of accounts; a guest has none.
Claims == {<<t.id, t.name>> : t \in {s \in tokens : ~s.guest}}

Registry == INSTANCE Accounts
  WITH Secrets <- Passwords \cup {NoPassword}, NoAccount <- NoRow, account <- row, claims <- Claims

\* The handlers, through all interleavings and failures, implement the registry
\* of Accounts: every row is opened once with an address of its own and takes one
\* name of its own, and no token says more than that, although each check is some
\* commands older than the write it is made for (service.go:67-94, 372-391).
ImplementsAccounts == Registry!AccountsSpec
=============================================================================
