----------------------------- MODULE AuthProofs -----------------------------
(***************************************************************************)
(* The handlers of authentication implement the registry of Accounts, for  *)
(* any accounts, requests, names and failures; what the registry is proved *)
(* to guarantee therefore holds of them.                                   *)
(***************************************************************************)
EXTENDS Auth, TLAPS

\* What a call carries from one of its commands to the next.
CallHolds(c) ==
  /\ ~In(c, "done") => c \notin Rows
  /\ In(c, "login") => call[c].id \in Rows /\ call[c].name \in {NoName, row[call[c].id].name}
  /\ In(c, "lookup") \/ In(c, "reserve") => call[c].name \in GuestNames
  /\ In(c, "reserved") \/ In(c, "update") => call[c].name \in Names /\ ValidateUsername(call[c].name)
  /\ In(c, "password") => call[c].id \in Users
  /\ In(c, "password") \/ In(c, "delete") => call[c].reset \in Calls

\* Names of accounts and names of guests differ in length.
NamesHold ==
  /\ \A u \in Rows : row[u].name # NoName => ValidateUsername(row[u].name)
  /\ \A t \in tokens : t.guest => t.name \in GuestNames

AuthInv == TypeOK /\ NamesHold /\ \A c \in Calls : CallHolds(c)

-----------------------------------------------------------------------------
LEMMA StepTypes ==
  ASSUME NEW step \in {"idle", "insert", "login", "draw", "lookup", "reserve", "reserved", "update",
                       "store", "mail", "password", "delete", "done"}
  PROVE  At(step) \in Call
  BY AuthAssumption, SMT DEF At, Call

\* A call changes its own record only.
LEMMA EnterType ==
  ASSUME TypeOK, NEW c \in Calls, NEW r \in Call, Enter(c, r)
  PROVE  call' \in [Calls -> Call] /\ call'[c] = r /\ \A d \in Calls \ {c} : call'[d] = call[d]
  BY DEF TypeOK, Enter

LEMMA GotoType ==
  ASSUME NEW step \in {"idle", "insert", "login", "draw", "lookup", "reserve", "reserved", "update",
                       "store", "mail", "password", "delete", "done"},
         TypeOK, NEW c \in Calls, Goto(c, step)
  PROVE  /\ call' \in [Calls -> Call]
         /\ call'[c] = [call[c] EXCEPT !.step = step]
         /\ \A d \in Calls \ {c} : call'[d] = call[d]
<1> DEFINE r == [call[c] EXCEPT !.step = step]
<1>1. call[c] \in Call
  BY DEF TypeOK
<1>2. r \in Call
  BY <1>1 DEF Call
<1>3. Enter(c, r)
  BY DEF Goto, Enter
<1> HIDE DEF r
<1>4. call' \in [Calls -> Call] /\ call'[c] = r /\ \A d \in Calls \ {c} : call'[d] = call[d]
  BY <1>2, <1>3, EnterType
<1> QED
  BY <1>4 DEF r

\* The state of a call that is over promises nothing.
LEMMA Ended ==
  ASSUME TypeOK, NEW c \in Calls, End(c)
  PROVE  /\ call' \in [Calls -> Call] /\ \A d \in Calls \ {c} : call'[d] = call[d]
         /\ CallHolds(c)'
<1>1. At("done") \in Call
  BY StepTypes
<1>2. call' \in [Calls -> Call] /\ call'[c] = At("done") /\ \A d \in Calls \ {c} : call'[d] = call[d]
  BY <1>1, EnterType DEF End
<1> QED
  BY <1>2 DEF CallHolds, In, At

\* What a call holds survives the steps of other calls, which drop no row, change
\* no name and do not insert its row.
LEMMA OthersHold ==
  ASSUME AuthInv, NEW c \in Calls,
         \A d \in Calls \ {c} : call'[d] = call[d],
         \A u \in Rows : u \in Rows' /\ (row[u].name # NoName => row'[u].name = row[u].name),
         Rows' \subseteq Rows \cup {c},
         CallHolds(c)'
  PROVE  \A d \in Calls : CallHolds(d)'
<1> SUFFICES ASSUME NEW d \in Calls \ {c} PROVE CallHolds(d)'
  OBVIOUS
<1>1. CallHolds(d) /\ call'[d] = call[d]
  BY DEF AuthInv
<1>2. d \in Rows' => d \in Rows
  OBVIOUS
<1>3. In(d, "login") => call[d].id \in Rows' /\ call[d].name \in {NoName, row'[call[d].id].name}
  BY <1>1 DEF CallHolds
<1> QED
  BY <1>1, <1>2, <1>3 DEF CallHolds, In

\* Steps of one call that neither write a row nor issue a token.
LEMMA LocalStep ==
  ASSUME AuthInv, NEW c \in Calls,
         call' \in [Calls -> Call], \A d \in Calls \ {c} : call'[d] = call[d], CallHolds(c)',
         UNCHANGED <<row, guestKey, tokens, contested>>,
         resetKey' \in [Calls -> Users \cup {NoUser}], mailed' \subseteq Calls, deleted' \subseteq Calls
  PROVE  AuthInv'
<1>1. Rows' = Rows
  BY DEF Rows
<1>2. TypeOK'
  BY DEF AuthInv, TypeOK
<1>3. NamesHold'
  BY <1>1 DEF AuthInv, NamesHold, ValidateUsername
<1>4. \A d \in Calls : CallHolds(d)'
  BY <1>1, OthersHold
<1> QED
  BY <1>2, <1>3, <1>4 DEF AuthInv

LEMMA EnterStep ==
  ASSUME AuthInv, NEW c \in Calls, NEW r \in Call, Enter(c, r), CallHolds(c)',
         UNCHANGED <<row, guestKey, resetKey, mailed, tokens, deleted, contested>>
  PROVE  AuthInv'
<1>1. TypeOK
  BY DEF AuthInv
<1>2. call' \in [Calls -> Call] /\ \A d \in Calls \ {c} : call'[d] = call[d]
  BY <1>1, EnterType
<1>3. resetKey \in [Calls -> Users \cup {NoUser}] /\ mailed \subseteq Calls /\ deleted \subseteq Calls
  BY <1>1 DEF TypeOK
<1> QED
  BY <1>2, <1>3, LocalStep

LEMMA EndStep ==
  ASSUME AuthInv, NEW c \in Calls, End(c),
         UNCHANGED <<row, guestKey, resetKey, mailed, tokens, deleted, contested>>
  PROVE  AuthInv'
<1>1. TypeOK
  BY DEF AuthInv
<1>2. resetKey \in [Calls -> Users \cup {NoUser}] /\ mailed \subseteq Calls /\ deleted \subseteq Calls
  BY <1>1 DEF TypeOK
<1> QED
  BY <1>1, <1>2, Ended, LocalStep

-----------------------------------------------------------------------------
(* The actions *)

LEMMA FindFreeHolds ==
  ASSUME AuthInv, NEW c \in Calls, NEW e \in Emails, NEW p \in Passwords, FindFree(c, e, p)
  PROVE  AuthInv'
<1> DEFINE r == [At("insert") EXCEPT !.email = e, !.password = p]
<1>1. r \in Call
  <2>1. At("insert") \in Call
    BY StepTypes
  <2>2. ASSUME NEW a \in Call PROVE [a EXCEPT !.email = e, !.password = p] \in Call
    BY DEF Call
  <2> QED
    BY <2>1, <2>2
<1>2. call'[c] = r /\ row' = row /\ c \notin Rows
  BY <1>1, EnterType DEF FindFree, AuthInv, CallHolds, In
<1>3. CallHolds(c)'
  BY <1>2 DEF CallHolds, In, At, Rows
<1> QED
  BY <1>1, <1>3, EnterStep DEF FindFree

LEMMA LoginHolds ==
  ASSUME AuthInv, NEW c \in Calls, NEW e \in Emails, NEW p \in Passwords, Login(c, e, p)
  PROVE  AuthInv'
<1>1. PICK u \in Rows : Enter(c, [At("login") EXCEPT !.id = u, !.name = row[u].name])
  BY DEF Login, GetByEmail, Verified
<1> DEFINE r == [At("login") EXCEPT !.id = u, !.name = row[u].name]
<1>2. u \in Users /\ row[u] \in Row
  BY DEF Rows, AuthInv, TypeOK
<1>3. r \in Call
  <2>1. At("login") \in Call
    BY StepTypes
  <2>2. ASSUME NEW a \in Call PROVE [a EXCEPT !.id = u, !.name = row[u].name] \in Call
    BY <1>2 DEF Row, Call
  <2> QED
    BY <2>1, <2>2
<1>4. call'[c] = r /\ row' = row /\ c \notin Rows
  BY <1>1, <1>3, EnterType DEF Login, AuthInv, CallHolds, In
<1>5. CallHolds(c)'
  BY <1>4 DEF CallHolds, In, At, Rows
<1> QED
  BY <1>1, <1>3, <1>5, EnterStep DEF Login

\* Another draw, or the last one failed.
LEMMA NextDrawHolds ==
  ASSUME AuthInv, NEW c \in Calls, ~In(c, "done"), NextDraw(c),
         UNCHANGED <<row, guestKey, resetKey, mailed, tokens, deleted, contested>>
  PROVE  AuthInv'
<1> DEFINE r == [At("draw") EXCEPT !.tries = call[c].tries + 1]
<1>1. CASE call[c].tries + 1 < MaxAttempts
  <2>1. call[c].tries \in 0..(MaxAttempts - 1)
    BY DEF AuthInv, TypeOK, Call
  <2>2. r \in Call
    BY <1>1, <2>1, AuthAssumption, StepTypes DEF At, Call
  <2>3. call'[c] = r /\ row' = row /\ c \notin Rows
    BY <1>1, <2>2, EnterType DEF NextDraw, AuthInv, CallHolds
  <2>4. CallHolds(c)'
    BY <2>3 DEF CallHolds, In, At, Rows
  <2> QED
    BY <1>1, <2>2, <2>4, EnterStep DEF NextDraw
<1>2. CASE ~(call[c].tries + 1 < MaxAttempts)
  BY <1>2, EndStep DEF NextDraw
<1> QED
  BY <1>1, <1>2

LEMMA DrawGuestNameHolds ==
  ASSUME AuthInv, NEW c \in Calls, NEW n \in GuestNames, DrawGuestName(c, n)
  PROVE  AuthInv'
<1> DEFINE r == [call[c] EXCEPT !.step = "lookup", !.name = n]
<1>1. CASE Enter(c, r)
  <2>1. call[c] \in Call /\ n \in Names
    BY AuthAssumption DEF AuthInv, TypeOK
  <2>2. r \in Call
    BY <2>1 DEF Call
  <2>3. TypeOK /\ row' = row /\ c \notin Rows
    BY DEF DrawGuestName, AuthInv, CallHolds, In
  <2>4. r.step = "lookup" /\ r.name = n
    BY <2>1 DEF Call
  <2> HIDE DEF r
  <2>5. call'[c] = r
    BY <1>1, <2>2, <2>3, EnterType
  <2>6. CallHolds(c)'
    BY <2>3, <2>4, <2>5 DEF CallHolds, In, Rows
  <2> QED
    BY <1>1, <2>2, <2>6, EnterStep DEF DrawGuestName
<1>2. CASE NextDraw(c)
  BY <1>2, NextDrawHolds DEF DrawGuestName, In
<1> QED
  BY <1>1, <1>2 DEF DrawGuestName

LEMMA LookupGuestNameHolds ==
  ASSUME AuthInv, NEW c \in Calls, LookupGuestName(c)
  PROVE  AuthInv'
<1>1. CASE Goto(c, "reserve")
  <2>1. /\ call' \in [Calls -> Call]
        /\ call'[c] = [call[c] EXCEPT !.step = "reserve"]
        /\ \A d \in Calls \ {c} : call'[d] = call[d]
    BY <1>1, GotoType DEF AuthInv
  <2>2. call[c] \in Call /\ call[c].name \in GuestNames /\ c \notin Rows
    BY DEF AuthInv, TypeOK, CallHolds, LookupGuestName, In
  <2>3. call'[c].step = "reserve" /\ call'[c].name \in GuestNames
    BY <2>1, <2>2 DEF Call
  <2>4. CallHolds(c)'
    BY <2>2, <2>3 DEF CallHolds, In, Rows, LookupGuestName
  <2> QED
    BY <2>1, <2>4, LocalStep DEF LookupGuestName, AuthInv, TypeOK
<1>2. CASE NextDraw(c)
  BY <1>2, NextDrawHolds DEF LookupGuestName, In
<1> QED
  BY <1>1, <1>2 DEF LookupGuestName

LEMMA SetUsernameHolds ==
  ASSUME AuthInv, NEW c \in Calls, NEW t \in tokens, NEW w \in Typed, SetUsername(c, t, w)
  PROVE  AuthInv'
<1> DEFINE r == [At("reserved") EXCEPT !.id = t.id, !.name = Canonical[w]]
<1>1. t.id \in Users /\ Canonical[w] \in Names
  BY AuthAssumption DEF AuthInv, TypeOK, Token
<1>2. r \in Call
  <2>1. At("reserved") \in Call
    BY StepTypes
  <2>2. ASSUME NEW a \in Call PROVE [a EXCEPT !.id = t.id, !.name = Canonical[w]] \in Call
    BY <1>1 DEF Call
  <2> QED
    BY <2>1, <2>2
<1>3. call'[c] = r /\ row' = row /\ c \notin Rows
  BY <1>2, EnterType DEF SetUsername, Authenticated, AuthInv, CallHolds, In
<1>4. CallHolds(c)'
  BY <1>1, <1>3 DEF CallHolds, In, At, Rows, SetUsername, ValidateUsername
<1> QED
  BY <1>2, <1>4, EnterStep DEF SetUsername, Authenticated

LEMMA CheckGuestNameHolds ==
  ASSUME AuthInv, NEW c \in Calls, CheckGuestName(c)
  PROVE  AuthInv'
<1>1. CASE Goto(c, "update")
  <2>1. /\ call' \in [Calls -> Call]
        /\ call'[c] = [call[c] EXCEPT !.step = "update"]
        /\ \A d \in Calls \ {c} : call'[d] = call[d]
    BY <1>1, GotoType DEF AuthInv
  <2>2. call[c] \in Call /\ call[c].name \in Names /\ ValidateUsername(call[c].name) /\ c \notin Rows
    BY DEF AuthInv, TypeOK, CallHolds, CheckGuestName, In
  <2>3. call'[c].step = "update" /\ call'[c].name = call[c].name
    BY <2>1, <2>2 DEF Call
  <2>4. CallHolds(c)'
    BY <2>2, <2>3 DEF CallHolds, In, Rows, CheckGuestName, ValidateUsername
  <2> QED
    BY <2>1, <2>4, LocalStep DEF CheckGuestName, AuthInv, TypeOK
<1>2. CASE End(c)
  BY <1>2, EndStep DEF CheckGuestName
<1> QED
  BY <1>1, <1>2 DEF CheckGuestName

LEMMA RequestPasswordResetHolds ==
  ASSUME AuthInv, NEW c \in Calls, NEW e \in Emails, RequestPasswordReset(c, e)
  PROVE  AuthInv'
<1>1. PICK u \in Rows : Enter(c, [At("store") EXCEPT !.id = u])
  BY DEF RequestPasswordReset, GetByEmail
<1> DEFINE r == [At("store") EXCEPT !.id = u]
<1>2. r \in Call
  BY StepTypes DEF At, Call, Rows
<1>3. call'[c] = r /\ row' = row /\ c \notin Rows
  BY <1>1, <1>2, EnterType DEF RequestPasswordReset, AuthInv, CallHolds, In
<1>4. CallHolds(c)'
  BY <1>3 DEF CallHolds, In, At, Rows
<1> QED
  BY <1>1, <1>2, <1>4, EnterStep DEF RequestPasswordReset

LEMMA StoreResetTokenHolds ==
  ASSUME AuthInv, NEW c \in Calls, StoreResetToken(c)
  PROVE  AuthInv'
<1>1. CASE Goto(c, "mail") /\ resetKey' = [resetKey EXCEPT ![c] = call[c].id]
  <2>1. /\ call' \in [Calls -> Call]
        /\ call'[c] = [call[c] EXCEPT !.step = "mail"]
        /\ \A d \in Calls \ {c} : call'[d] = call[d]
    BY <1>1, GotoType DEF AuthInv
  <2>2. call[c] \in Call /\ c \notin Rows
    BY DEF AuthInv, TypeOK, CallHolds, StoreResetToken, In
  <2>3. call'[c].step = "mail"
    BY <2>1, <2>2 DEF Call
  <2>4. CallHolds(c)'
    BY <2>2, <2>3 DEF CallHolds, In, Rows, StoreResetToken
  <2>5. resetKey' \in [Calls -> Users \cup {NoUser}]
    BY <1>1, <2>2 DEF AuthInv, TypeOK, Call
  <2> QED
    BY <2>1, <2>4, <2>5, LocalStep DEF StoreResetToken, AuthInv, TypeOK
<1>2. CASE End(c) /\ UNCHANGED resetKey
  BY <1>2, EndStep DEF StoreResetToken
<1> QED
  BY <1>1, <1>2 DEF StoreResetToken

LEMMA SendPasswordResetEmailHolds ==
  ASSUME AuthInv, NEW c \in Calls, SendPasswordResetEmail(c)
  PROVE  AuthInv'
<1>1. TypeOK
  BY DEF AuthInv
<1>2. mailed' \subseteq Calls
  BY <1>1 DEF SendPasswordResetEmail, TypeOK
<1>3. resetKey' \in [Calls -> Users \cup {NoUser}] /\ deleted' \subseteq Calls
  BY <1>1 DEF SendPasswordResetEmail, TypeOK
<1> QED
  BY <1>1, <1>2, <1>3, Ended, LocalStep DEF SendPasswordResetEmail

LEMMA ResetPasswordHolds ==
  ASSUME AuthInv, NEW c \in Calls, NEW m \in mailed, NEW p \in Passwords, ResetPassword(c, m, p)
  PROVE  AuthInv'
<1> DEFINE r == [At("password") EXCEPT !.id = resetKey[m], !.password = p, !.reset = m]
<1>1. m \in Calls /\ resetKey[m] \in Users
  BY DEF AuthInv, TypeOK, ResetPassword
<1>2. r \in Call
  <2>1. At("password") \in Call
    BY StepTypes
  <2>2. ASSUME NEW a \in Call PROVE [a EXCEPT !.id = resetKey[m], !.password = p, !.reset = m] \in Call
    BY <1>1 DEF Call
  <2> QED
    BY <2>1, <2>2
<1>3. call'[c] = r /\ row' = row /\ c \notin Rows
  BY <1>2, EnterType DEF ResetPassword, AuthInv, CallHolds, In
<1>4. CallHolds(c)'
  BY <1>1, <1>3 DEF CallHolds, In, At, Rows
<1> QED
  BY <1>2, <1>4, EnterStep DEF ResetPassword

LEMMA DeleteTokenHolds ==
  ASSUME AuthInv, NEW c \in Calls, DeleteToken(c)
  PROVE  AuthInv'
<1>1. TypeOK /\ call[c] \in Call
  BY DEF AuthInv, TypeOK
<1>2. CASE Del(call[c].reset) /\ deleted' = deleted \cup {call[c].reset}
  <2>1. resetKey' \in [Calls -> Users \cup {NoUser}]
    BY <1>1, <1>2 DEF Del, TypeOK
  <2>2. call[c].reset \in Calls
    BY DEF AuthInv, CallHolds, DeleteToken, In
  <2> QED
    BY <1>1, <1>2, <2>1, <2>2, Ended, LocalStep DEF DeleteToken, TypeOK
<1>3. CASE UNCHANGED <<resetKey, deleted>>
  BY <1>3, EndStep DEF DeleteToken
<1> QED
  BY <1>2, <1>3 DEF DeleteToken

-----------------------------------------------------------------------------
(* Steps that write rows or issue tokens *)

LEMMA IssueType ==
  ASSUME TypeOK, NEW kinds \in SUBSET Pair, NEW u \in Users, NEW n \in Names \cup {NoName},
         NEW g \in BOOLEAN, Issue(kinds, u, n, g)
  PROVE  /\ tokens' \subseteq Token
         /\ \A t \in tokens' : t \in tokens \/ (t.id = u /\ t.name = n /\ t.guest = g)
<1>1. [kind : kinds, id : {u}, name : {n}, guest : {g}] \subseteq Token
  BY DEF Token
<1>2. \A t \in [kind : kinds, id : {u}, name : {n}, guest : {g}] : t.id = u /\ t.name = n /\ t.guest = g
  OBVIOUS
<1> DEFINE new == [kind : kinds, id : {u}, name : {n}, guest : {g}]
<1>3. tokens' = tokens \cup new /\ tokens \subseteq Token
  BY DEF Issue, TypeOK
<1> HIDE DEF new
<1>4. new \subseteq Token /\ \A t \in new : t.id = u /\ t.name = n /\ t.guest = g
  BY <1>1, <1>2 DEF new
<1> QED
  BY <1>3, <1>4

\* The last step of a call.
LEMMA LastStep ==
  ASSUME AuthInv, NEW c \in Calls, End(c), UNCHANGED <<resetKey, mailed, deleted>>,
         guestKey' \subseteq GuestNames /\ contested' \subseteq GuestNames,
         row' \in [Users -> Row \cup {NoRow}],
         \A u \in Rows : u \in Rows' /\ (row[u].name # NoName => row'[u].name = row[u].name),
         Rows' \subseteq Rows \cup {c},
         \A u \in Rows' : row'[u].name # NoName => ValidateUsername(row'[u].name),
         tokens' \subseteq Token,
         \A t \in tokens' : t.guest => t.name \in GuestNames
  PROVE  AuthInv'
<1>1. TypeOK
  BY DEF AuthInv
<1>2. /\ call' \in [Calls -> Call] /\ \A d \in Calls \ {c} : call'[d] = call[d]
      /\ CallHolds(c)'
  BY <1>1, Ended
<1>3. TypeOK'
  BY <1>1, <1>2 DEF TypeOK
<1>4. \A d \in Calls : CallHolds(d)'
  BY <1>2, OthersHold
<1>5. NamesHold'
  BY DEF NamesHold, ValidateUsername
<1> QED
  BY <1>3, <1>4, <1>5 DEF AuthInv

\* The same for a call that only issues tokens.
LEMMA LastIssue ==
  ASSUME AuthInv, NEW c \in Calls, End(c), UNCHANGED <<row, resetKey, mailed, deleted>>,
         guestKey' \subseteq GuestNames /\ contested' \subseteq GuestNames,
         NEW u \in Users, NEW n \in Names \cup {NoName}, NEW g \in BOOLEAN, Issue(Pair, u, n, g),
         g => n \in GuestNames
  PROVE  AuthInv'
<1>1. /\ tokens' \subseteq Token
      /\ \A t \in tokens' : t \in tokens \/ (t.id = u /\ t.name = n /\ t.guest = g)
  BY IssueType DEF AuthInv
<1>2. \A t \in tokens' : t.guest => t.name \in GuestNames
  BY <1>1 DEF AuthInv, NamesHold
<1>3. Rows' = Rows
  BY DEF Rows
<1>4. row' \in [Users -> Row \cup {NoRow}]
  BY DEF AuthInv, TypeOK
<1>5. \A v \in Rows' : row'[v].name # NoName => ValidateUsername(row'[v].name)
  BY <1>3 DEF AuthInv, NamesHold
<1> QED
  BY <1>1, <1>2, <1>3, <1>4, <1>5, LastStep

LEMMA UpdateLoginHolds ==
  ASSUME AuthInv, NEW c \in Calls, UpdateLogin(c)
  PROVE  AuthInv'
<1>1. call[c].id \in Users /\ call[c].name \in Names \cup {NoName} /\ guestKey' \subseteq GuestNames /\ contested' \subseteq GuestNames
  BY DEF AuthInv, TypeOK, Call, CallHolds, UpdateLogin, Rows
<1> QED
  BY <1>1, LastIssue DEF UpdateLogin

LEMMA CreateGuestHolds ==
  ASSUME AuthInv, NEW c \in Calls, CreateGuest(c)
  PROVE  AuthInv'
<1>1. call[c].name \in GuestNames
  BY DEF AuthInv, CallHolds, CreateGuest
<1>2. guestKey' \subseteq GuestNames /\ contested' \subseteq GuestNames
  BY <1>1 DEF AuthInv, TypeOK, CreateGuest
<1>3. c \in Users /\ call[c].name \in Names \cup {NoName}
  BY <1>1, AuthAssumption DEF Users
<1> QED
  BY <1>1, <1>2, <1>3, LastIssue DEF CreateGuest

LEMMA CreateOrGetOAuthUserHolds ==
  ASSUME AuthInv, NEW c \in Calls, NEW e \in Emails, CreateOrGetOAuthUser(c, e)
  PROVE  AuthInv'
<1> DEFINE r == [At("insert") EXCEPT !.email = e]
<1>1. CASE Enter(c, r) /\ UNCHANGED tokens
  <2>1. r \in Call
    BY StepTypes DEF At, Call
  <2>2. call'[c] = r /\ row' = row /\ c \notin Rows
    BY <1>1, <2>1, EnterType DEF CreateOrGetOAuthUser, AuthInv, CallHolds, In
  <2>3. CallHolds(c)'
    BY <2>2 DEF CallHolds, In, At, Rows
  <2> QED
    BY <1>1, <2>1, <2>3, EnterStep DEF CreateOrGetOAuthUser
<1>2. ASSUME NEW u \in Rows, End(c), Issue(Pair, u, row[u].name, FALSE) PROVE AuthInv'
  <2>1. u \in Users /\ row[u].name \in Names \cup {NoName} /\ guestKey' \subseteq GuestNames /\ contested' \subseteq GuestNames
    BY DEF Rows, AuthInv, TypeOK, Row, CreateOrGetOAuthUser
  <2> QED
    BY <1>2, <2>1, LastIssue DEF CreateOrGetOAuthUser
<1> QED
  BY <1>1, <1>2 DEF CreateOrGetOAuthUser, GetByEmail

\* The row of a call is new.
LEMMA CreateUserHolds ==
  ASSUME AuthInv, NEW c \in Calls, CreateUser(c)
  PROVE  AuthInv'
<1> DEFINE new == [email |-> call[c].email, hash |-> call[c].password, name |-> NoName]
<1>1. c \in Users /\ c \notin Rows /\ call[c] \in Call
  BY DEF Users, AuthInv, TypeOK, CallHolds, CreateUser, In
<1>2. new \in Row
  BY <1>1 DEF Call, Row
<1>3. guestKey' \subseteq GuestNames /\ contested' \subseteq GuestNames /\ row \in [Users -> Row \cup {NoRow}]
  BY DEF AuthInv, TypeOK, CreateUser
<1>4. CASE row' = [row EXCEPT ![c] = NewRow(c)] /\ Issue(Pair, c, NoName, FALSE)
  <2>1. /\ tokens' \subseteq Token
        /\ \A t \in tokens' : t \in tokens \/ t.guest = FALSE
    BY <1>1, <1>4, IssueType DEF AuthInv
  <2>2. \A t \in tokens' : t.guest => t.name \in GuestNames
    BY <2>1 DEF AuthInv, NamesHold
  <2>3. /\ row' \in [Users -> Row \cup {NoRow}] /\ row'[c] = new
        /\ \A u \in Users \ {c} : row'[u] = row[u]
    BY <1>1, <1>2, <1>3, <1>4 DEF NewRow
  <2>4. \A u \in Rows : u \in Rows' /\ row'[u] = row[u]
    BY <1>1, <2>3 DEF Rows
  <2>5. Rows' \subseteq Rows \cup {c}
    BY <2>3 DEF Rows
  <2>6. \A u \in Rows' : row'[u].name # NoName => ValidateUsername(row'[u].name)
    BY <2>3, <2>4, <2>5 DEF AuthInv, NamesHold
  <2> QED
    BY <1>3, <2>1, <2>2, <2>3, <2>4, <2>5, <2>6, LastStep DEF CreateUser
<1>5. CASE row' = [row EXCEPT ![c] = NewRow(c)] /\ UNCHANGED tokens
  <2>1. tokens' \subseteq Token /\ \A t \in tokens' : t.guest => t.name \in GuestNames
    BY <1>5 DEF AuthInv, TypeOK, NamesHold
  <2>3. /\ row' \in [Users -> Row \cup {NoRow}] /\ row'[c] = new
        /\ \A u \in Users \ {c} : row'[u] = row[u]
    BY <1>1, <1>2, <1>3, <1>5 DEF NewRow
  <2>4. \A u \in Rows : u \in Rows' /\ row'[u] = row[u]
    BY <1>1, <2>3 DEF Rows
  <2>5. Rows' \subseteq Rows \cup {c}
    BY <2>3 DEF Rows
  <2>6. \A u \in Rows' : row'[u].name # NoName => ValidateUsername(row'[u].name)
    BY <2>3, <2>4, <2>5 DEF AuthInv, NamesHold
  <2> QED
    BY <1>3, <2>1, <2>3, <2>4, <2>5, <2>6, LastStep DEF CreateUser
<1>6. CASE UNCHANGED <<row, tokens>>
  BY <1>6, EndStep DEF CreateUser
<1> QED
  BY <1>4, <1>5, <1>6 DEF CreateUser

LEMMA RefreshTokenHolds ==
  ASSUME AuthInv, NEW t \in tokens, RefreshToken(t)
  PROVE  AuthInv'
<1>1. TypeOK /\ t \in Token
  BY DEF AuthInv, TypeOK
<1>2. /\ tokens' \subseteq Token
      /\ \A s \in tokens' : s.guest => s.name \in GuestNames
  <2>1. CASE t.guest /\ Issue({"access"}, t.id, t.name, TRUE)
    <3>1. t.id \in Users /\ t.name \in Names \cup {NoName} /\ {"access"} \in SUBSET Pair
      BY <1>1 DEF Token, Pair
    <3>2. /\ tokens' \subseteq Token
          /\ \A s \in tokens' : s \in tokens \/ s.name = t.name
      BY <1>1, <2>1, <3>1, IssueType
    <3> QED
      BY <2>1, <3>2 DEF AuthInv, NamesHold
  <2>2. ASSUME NEW u \in ById(t.id), Issue({"access"}, u, row[u].name, FALSE)
        PROVE  /\ tokens' \subseteq Token
               /\ \A s \in tokens' : s.guest => s.name \in GuestNames
    <3>1. u \in Users /\ row[u].name \in Names \cup {NoName} /\ {"access"} \in SUBSET Pair
      BY <1>1 DEF ById, Rows, TypeOK, Row, Pair
    <3>2. /\ tokens' \subseteq Token
          /\ \A s \in tokens' : s \in tokens \/ s.guest = FALSE
      BY <1>1, <2>2, <3>1, IssueType
    <3> QED
      BY <3>2 DEF AuthInv, NamesHold
  <2> QED
    BY <2>1, <2>2 DEF RefreshToken
<1>3. TypeOK'
  BY <1>1, <1>2 DEF RefreshToken, TypeOK
<1>4. NamesHold'
  BY <1>2 DEF AuthInv, NamesHold, RefreshToken, Rows, ValidateUsername
<1>5. \A c \in Calls : CallHolds(c)'
  BY DEF AuthInv, CallHolds, RefreshToken, Rows, In, ValidateUsername
<1> QED
  BY <1>3, <1>4, <1>5 DEF AuthInv

LEMMA UpdateUsernameHolds ==
  ASSUME AuthInv, NEW c \in Calls, UpdateUsername(c)
  PROVE  AuthInv'
<1>1. ASSUME NEW u \in Unnamed(call[c].id), row' = [row EXCEPT ![u].name = call[c].name]
      PROVE  AuthInv'
  <2>1. u \in Rows /\ row[u].name = NoName
    BY DEF Unnamed, ById
  <2>2. /\ row \in [Users -> Row \cup {NoRow}] /\ u \in Users /\ row[u] \in Row
        /\ call[c].name \in Names /\ ValidateUsername(call[c].name)
    BY <2>1 DEF AuthInv, TypeOK, Rows, CallHolds, UpdateUsername
  <2>3. [row[u] EXCEPT !.name = call[c].name] \in Row
    BY <2>2 DEF Row
  <2>4. /\ row' \in [Users -> Row \cup {NoRow}] /\ row'[u] \in Row /\ row'[u].name = call[c].name
        /\ \A v \in Users \ {u} : row'[v] = row[v]
    BY <1>1, <2>2, <2>3 DEF Row
  <2>5. Rows' = Rows
    BY <2>1, <2>4, AuthAssumption DEF Rows
  <2>6. \A v \in Rows : row[v].name # NoName => row'[v].name = row[v].name
    BY <2>1, <2>4 DEF Rows
  <2>7. \A v \in Rows' : row'[v].name # NoName => ValidateUsername(row'[v].name)
    BY <2>2, <2>4, <2>5 DEF AuthInv, NamesHold, Rows
  <2>8. /\ guestKey' \subseteq GuestNames /\ contested' \subseteq GuestNames /\ tokens' \subseteq Token
        /\ \A t \in tokens' : t.guest => t.name \in GuestNames
    BY DEF AuthInv, TypeOK, NamesHold, UpdateUsername
  <2> QED
    BY <2>4, <2>5, <2>6, <2>7, <2>8, LastStep DEF UpdateUsername
<1>2. CASE UNCHANGED row
  BY <1>2, EndStep DEF UpdateUsername
<1> QED
  BY <1>1, <1>2 DEF UpdateUsername

\* Only the hash of one row differs.
LEMMA RehashRows ==
  ASSUME TypeOK, NEW u \in Users, NEW p \in Passwords \cup {NoPassword}, row' = Rehash(u, p)
  PROVE  /\ row' \in [Users -> Row \cup {NoRow}]
         /\ Rows' = Rows
         /\ \A v \in Rows : row'[v].name = row[v].name
<1>1. row \in [Users -> Row \cup {NoRow}]
  BY DEF TypeOK
<1>2. ASSUME NEW v \in Users
      PROVE  row'[v] = IF v \in ById(u) THEN [row[v] EXCEPT !.hash = p] ELSE row[v]
  BY DEF Rehash
<1>3. ASSUME NEW v \in Rows
      PROVE  v \in Users /\ row[v] \in Row /\ [row[v] EXCEPT !.hash = p] \in Row
             /\ [row[v] EXCEPT !.hash = p].name = row[v].name
  BY <1>1 DEF Rows, Row
<1>4. ById(u) \subseteq Rows
  BY DEF ById
<1>5. \A v \in Rows : row'[v] \in Row /\ row'[v].name = row[v].name
  BY <1>2, <1>3
<1>6. \A v \in Users \ Rows : row'[v] = NoRow
  BY <1>2, <1>4 DEF Rows
<1>7. Rows' = Rows
  BY <1>5, <1>6, AuthAssumption DEF Rows
<1>8. row' \in [Users -> Row \cup {NoRow}]
  <2>1. row' = [v \in Users |-> row'[v]]
    BY DEF Rehash
  <2> QED
    BY <1>5, <1>6, <2>1
<1> QED
  BY <1>5, <1>7, <1>8

LEMMA UpdatePasswordHolds ==
  ASSUME AuthInv, NEW c \in Calls, UpdatePassword(c)
  PROVE  AuthInv'
<1>1. TypeOK /\ call[c] \in Call /\ c \notin Rows
  BY DEF AuthInv, TypeOK, CallHolds, UpdatePassword, In
<1>2. /\ guestKey' \subseteq GuestNames /\ contested' \subseteq GuestNames /\ tokens' \subseteq Token
      /\ \A t \in tokens' : t.guest => t.name \in GuestNames
  BY DEF AuthInv, TypeOK, NamesHold, UpdatePassword
<1>3. CASE UNCHANGED row /\ End(c)
  BY <1>3, EndStep DEF UpdatePassword
<1>4. ASSUME row' = Rehash(call[c].id, call[c].password), Goto(c, "delete") \/ End(c)
      PROVE  AuthInv'
  <2>1. call[c].id \in Users /\ call[c].password \in Passwords \cup {NoPassword}
    BY <1>1 DEF AuthInv, CallHolds, UpdatePassword, In, Call
  <2>2. /\ row' \in [Users -> Row \cup {NoRow}]
        /\ Rows' = Rows
        /\ \A v \in Rows : row'[v].name = row[v].name
    BY <1>1, <1>4, <2>1, RehashRows
  <2>3. \A v \in Rows' : row'[v].name # NoName => ValidateUsername(row'[v].name)
    BY <2>2 DEF AuthInv, NamesHold
  <2>4. CASE End(c)
    BY <1>2, <2>2, <2>3, <2>4, LastStep DEF UpdatePassword
  <2>5. CASE Goto(c, "delete")
    <3>1. /\ call' \in [Calls -> Call]
          /\ call'[c] = [call[c] EXCEPT !.step = "delete"]
          /\ \A d \in Calls \ {c} : call'[d] = call[d]
      BY <1>1, <2>5, GotoType
    <3>2. call'[c].step = "delete" /\ call'[c].reset = call[c].reset
      BY <1>1, <3>1 DEF Call
    <3>3. call[c].reset \in Calls
      BY DEF AuthInv, CallHolds, UpdatePassword
    <3>4. CallHolds(c)'
      BY <1>1, <2>2, <3>2, <3>3 DEF CallHolds, In
    <3>5. \A d \in Calls : CallHolds(d)'
      BY <2>2, <3>1, <3>4, OthersHold
    <3>6. TypeOK'
      BY <1>1, <1>2, <2>2, <3>1 DEF TypeOK, UpdatePassword
    <3>7. NamesHold'
      BY <1>2, <2>3 DEF NamesHold, ValidateUsername
    <3> QED
      BY <3>5, <3>6, <3>7 DEF AuthInv
  <2> QED
    BY <1>4, <2>4, <2>5
<1> QED
  BY <1>3, <1>4 DEF UpdatePassword

LEMMA ExpiryHolds ==
  ASSUME AuthInv, (\E n \in GuestNames : GuestKeyExpires(n)) \/ (\E r \in Calls : ResetKeyExpires(r))
  PROVE  AuthInv'
<1>1. UNCHANGED <<row, tokens, call>>
  BY DEF GuestKeyExpires, ResetKeyExpires
<1>2. TypeOK'
  BY DEF AuthInv, TypeOK, GuestKeyExpires, ResetKeyExpires
<1>3. NamesHold'
  BY <1>1 DEF AuthInv, NamesHold, Rows, ValidateUsername
<1>4. \A c \in Calls : CallHolds(c)'
  BY <1>1 DEF AuthInv, CallHolds, Rows, In, ValidateUsername
<1> QED
  BY <1>2, <1>3, <1>4 DEF AuthInv

-----------------------------------------------------------------------------
LEMMA InitHolds == Init => AuthInv
<1> SUFFICES ASSUME Init PROVE AuthInv
  OBVIOUS
<1>1. At("idle") \in Call
  BY StepTypes
<1>2. \A u \in Seeds : [email |-> SeedEmail[u], hash |-> SeedPassword, name |-> NoName] \in Row
  BY AuthAssumption DEF Row
<1>3. row \in [Users -> Row \cup {NoRow}]
  BY <1>2 DEF Init
<1>4. \A u \in Rows : u \in Seeds /\ row[u].name = NoName
  BY DEF Init, Rows
<1>5. tokens \subseteq Token /\ \A t \in tokens : t.guest = FALSE
  BY DEF Init, Token, Users
<1>6. TypeOK
  BY <1>1, <1>3, <1>5 DEF Init, TypeOK
<1>7. NamesHold
  BY <1>4, <1>5 DEF NamesHold
<1>8. ASSUME NEW c \in Calls PROVE CallHolds(c)
  <2>1. call[c].step = "idle" /\ c \notin Rows
    BY <1>4, AuthAssumption DEF Init, At
  <2> QED
    BY <2>1 DEF CallHolds, In
<1> QED
  BY <1>6, <1>7, <1>8 DEF AuthInv

LEMMA StepHolds == AuthInv /\ [Next]_vars => AuthInv'
<1> SUFFICES ASSUME AuthInv, [Next]_vars PROVE AuthInv'
  OBVIOUS
<1>1. CASE UNCHANGED vars
  BY <1>1 DEF vars, AuthInv, TypeOK, NamesHold, CallHolds, In, Rows, ValidateUsername
<1>2. ASSUME NEW c \in Calls, NEW e \in Emails, NEW p \in Passwords,
             Register(c, e, p) \/ ConvertGuest(c, e, p) \/ Login(c, e, p)
      PROVE  AuthInv'
  BY <1>2, FindFreeHolds, LoginHolds DEF Register, ConvertGuest
<1>3. ASSUME NEW c \in Calls, NEW e \in Emails, CreateOrGetOAuthUser(c, e) \/ ForgotPassword(c, e)
      PROVE  AuthInv'
  BY <1>3, CreateOrGetOAuthUserHolds, RequestPasswordResetHolds DEF ForgotPassword
<1>4. ASSUME NEW c \in Calls, NEW n \in GuestNames, DrawGuestName(c, n) PROVE AuthInv'
  BY <1>4, DrawGuestNameHolds
<1>5. ASSUME NEW c \in Calls, NEW t \in tokens, NEW w \in Typed, SetUsername(c, t, w) PROVE AuthInv'
  BY <1>5, SetUsernameHolds
<1>6. ASSUME NEW c \in Calls, NEW r \in mailed, NEW p \in Passwords, ResetPassword(c, r, p) PROVE AuthInv'
  BY <1>6, ResetPasswordHolds
<1>7. ASSUME NEW c \in Calls, CallStep(c) PROVE AuthInv'
  BY <1>7, CreateUserHolds, UpdateLoginHolds, LookupGuestNameHolds, CreateGuestHolds, CheckGuestNameHolds,
     UpdateUsernameHolds, StoreResetTokenHolds, SendPasswordResetEmailHolds, UpdatePasswordHolds,
     DeleteTokenHolds DEF CallStep
<1>8. ASSUME NEW t \in tokens, RefreshToken(t) PROVE AuthInv'
  BY <1>8, RefreshTokenHolds
<1> QED
  BY <1>1, <1>2, <1>3, <1>4, <1>5, <1>6, <1>7, <1>8, ExpiryHolds DEF Next

\* Every row, key, token and request is well typed in every state, whatever fails
\* and however requests interleave.
THEOREM AuthTypeCorrect == Spec => []TypeOK
<1>1. AuthInv => TypeOK
  BY DEF AuthInv
<1> QED
  BY <1>1, InitHolds, StepHolds, PTL DEF Spec

-----------------------------------------------------------------------------
(* Refinement.  A row is opened by CreateUser, named by UpdateUsername and     *)
(* rehashed by UpdatePassword; all that other steps can do is to tell.         *)

\* Abstract and detailed rows are the same records.
LEMMA RowIsAccount == NoRow \notin Registry!Account
  BY AuthAssumption DEF Registry!Account, Row

\* What a pair of tokens, or one token, adds to what was said.
LEMMA ClaimsGrow ==
  ASSUME NEW kinds \in SUBSET Pair, kinds # {}, NEW u \in Users, NEW n \in Names \cup {NoName},
         NEW g \in BOOLEAN, Issue(kinds, u, n, g)
  PROVE  Claims' = IF g THEN Claims ELSE Claims \cup {<<u, n>>}
<1> DEFINE new == [kind : kinds, id : {u}, name : {n}, guest : {g}]
<1>1. \A t \in new : t.id = u /\ t.name = n /\ t.guest = g
  OBVIOUS
<1>2. \E t \in new : TRUE
  <2>1. PICK k \in kinds : TRUE
    OBVIOUS
  <2>2. [kind |-> k, id |-> u, name |-> n, guest |-> g] \in new
    OBVIOUS
  <2> QED
    BY <2>2
<1>3. tokens' = tokens \cup new
  BY DEF Issue
<1> HIDE DEF new
<1> QED
  BY <1>1, <1>2, <1>3 DEF Claims

\* An account is told its name or none.
LEMMA TellRefines ==
  ASSUME NEW u \in Rows, NEW n \in {NoName, row[u].name}, TypeOK, UNCHANGED row,
         NEW kinds \in SUBSET Pair, kinds # {}, Issue(kinds, u, n, FALSE)
  PROVE  Registry!AccountsNext
<1>1. u \in Users /\ row[u] \in Row /\ row[u] # NoRow
  BY DEF Rows, TypeOK
<1>2. n \in Names \cup {NoName}
  BY <1>1 DEF Row
<1>3. Claims' = Claims \cup {<<u, n>>}
  BY <1>1, <1>2, ClaimsGrow
<1>4. Registry!Tell(u)
  BY <1>1, <1>3 DEF Registry!Tell, Registry!Opened
<1> QED
  BY <1>1, <1>4 DEF Registry!AccountsNext

LEMMA CreateUserRefines ==
  ASSUME AuthInv, NEW c \in Calls, CreateUser(c)
  PROVE  [Registry!AccountsNext]_(Registry!registry)
<1>1. c \in Users /\ row[c] = NoRow /\ call[c] \in Call
  BY DEF Users, AuthInv, TypeOK, CallHolds, CreateUser, In, Rows
<1>2. ASSUME EmailIsFree(call[c].email), row' = [row EXCEPT ![c] = NewRow(c)],
             Claims' \in {Claims, Claims \cup {<<c, NoName>>}}
      PROVE  Registry!AccountsNext
  <2>1. \A v \in Users : row[v] # NoRow => row[v].email # call[c].email
    BY <1>2 DEF EmailIsFree, Rows
  <2>2. Registry!Open(c, call[c].email, call[c].password)
    BY <1>1, <1>2, <2>1 DEF Registry!Open, Registry!Opened, NewRow
  <2>3. call[c].email \in Emails /\ call[c].password \in Passwords \cup {NoPassword}
    BY <1>1 DEF Call
  <2> QED
    BY <1>1, <2>2, <2>3 DEF Registry!AccountsNext
<1>3. ASSUME Issue(Pair, c, NoName, FALSE) PROVE Claims' = Claims \cup {<<c, NoName>>}
  BY <1>1, <1>3, ClaimsGrow DEF Pair
<1>4. ASSUME UNCHANGED tokens PROVE Claims' = Claims
  BY <1>4 DEF Claims
<1> QED
  BY <1>2, <1>3, <1>4 DEF CreateUser, Registry!registry

LEMMA UpdateUsernameRefines ==
  ASSUME AuthInv, NEW c \in Calls, UpdateUsername(c)
  PROVE  [Registry!AccountsNext]_(Registry!registry)
<1>1. Claims' = Claims
  BY DEF UpdateUsername, Claims
<1>2. ASSUME NEW u \in Unnamed(call[c].id), NameIsFree(call[c].name),
             row' = [row EXCEPT ![u].name = call[c].name]
      PROVE  Registry!AccountsNext
  <2>1. u \in Users /\ row[u] # NoRow /\ row[u].name = NoName
    BY DEF Unnamed, ById, Rows
  <2>2. \A v \in Users : row[v] # NoRow => row[v].name # call[c].name
    BY <1>2 DEF NameIsFree, Rows
  <2>3. call[c].name \in Names
    BY DEF AuthInv, CallHolds, UpdateUsername
  <2>4. Registry!TakeName(u, call[c].name)
    BY <1>1, <1>2, <2>1, <2>2 DEF Registry!TakeName, Registry!Opened
  <2> QED
    BY <2>1, <2>3, <2>4 DEF Registry!AccountsNext
<1> QED
  BY <1>1, <1>2 DEF UpdateUsername, Registry!registry

LEMMA UpdatePasswordRefines ==
  ASSUME AuthInv, NEW c \in Calls, UpdatePassword(c)
  PROVE  [Registry!AccountsNext]_(Registry!registry)
<1>1. Claims' = Claims
  BY DEF UpdatePassword, Claims
<1>2. ASSUME row' = Rehash(call[c].id, call[c].password)
      PROVE  [Registry!AccountsNext]_(Registry!registry)
  <2> DEFINE u == call[c].id  p == call[c].password
  <2>1. row = [v \in Users |-> row[v]] /\ call[c] \in Call
    BY DEF AuthInv, TypeOK
  <2>2. CASE ById(u) = {}
    BY <1>1, <1>2, <2>1, <2>2 DEF Rehash, Registry!registry
  <2>3. CASE ById(u) # {}
    <3>1. ById(u) = {u} /\ u \in Users /\ row[u] # NoRow
      BY <2>3 DEF ById, Rows
    <3>2. row' = [row EXCEPT ![u].hash = p]
      BY <1>2, <2>1, <3>1 DEF Rehash
    <3>3. Registry!ChangeSecret(u, p)
      BY <1>1, <3>1, <3>2 DEF Registry!ChangeSecret, Registry!Opened
    <3>4. p \in Passwords \cup {NoPassword}
      BY <2>1 DEF Call
    <3> QED
      BY <3>1, <3>3, <3>4 DEF Registry!AccountsNext
  <2> QED
    BY <2>2, <2>3
<1> QED
  BY <1>1, <1>2 DEF UpdatePassword, Registry!registry

LEMMA StepRefines == AuthInv /\ [Next]_vars => [Registry!AccountsNext]_(Registry!registry)
<1> SUFFICES ASSUME AuthInv, [Next]_vars PROVE [Registry!AccountsNext]_(Registry!registry)
  OBVIOUS
<1>1. ASSUME UNCHANGED <<row, tokens>> PROVE UNCHANGED Registry!registry
  BY <1>1 DEF Registry!registry, Claims
<1>2. TypeOK
  BY DEF AuthInv
<1>3. ASSUME NEW c \in Calls, NEW e \in Emails, CreateOrGetOAuthUser(c, e)
      PROVE  [Registry!AccountsNext]_(Registry!registry)
  <2>1. ASSUME NEW u \in Rows, Issue(Pair, u, row[u].name, FALSE) PROVE Registry!AccountsNext
    BY <1>2, <1>3, <2>1, TellRefines DEF CreateOrGetOAuthUser, Pair
  <2> QED
    BY <1>1, <1>3, <2>1 DEF CreateOrGetOAuthUser, GetByEmail
<1>4. ASSUME NEW c \in Calls, UpdateLogin(c) PROVE Registry!AccountsNext
  <2>1. call[c].id \in Rows /\ call[c].name \in {NoName, row[call[c].id].name}
    BY <1>4 DEF AuthInv, CallHolds, UpdateLogin
  <2> QED
    BY <1>2, <1>4, <2>1, TellRefines DEF UpdateLogin, Pair
<1>5. ASSUME NEW c \in Calls, CreateGuest(c) PROVE UNCHANGED Registry!registry
  <2>1. c \in Users /\ call[c].name \in Names \cup {NoName}
    BY <1>2 DEF Users, TypeOK, Call
  <2>2. Claims' = Claims
    BY <1>5, <2>1, ClaimsGrow DEF CreateGuest, Pair
  <2> QED
    BY <1>5, <2>2 DEF CreateGuest, Registry!registry
<1>6. ASSUME NEW t \in tokens, RefreshToken(t) PROVE [Registry!AccountsNext]_(Registry!registry)
  <2>1. t \in Token /\ {"access"} \in SUBSET Pair
    BY <1>2 DEF TypeOK, Pair
  <2>2. CASE Issue({"access"}, t.id, t.name, TRUE)
    <3>1. Claims' = Claims
      BY <2>1, <2>2, ClaimsGrow DEF Token
    <3> QED
      BY <1>6, <3>1 DEF RefreshToken, Registry!registry
  <2>3. ASSUME NEW u \in ById(t.id), Issue({"access"}, u, row[u].name, FALSE)
        PROVE  Registry!AccountsNext
    BY <1>2, <1>6, <2>1, <2>3, TellRefines DEF RefreshToken, ById
  <2> QED
    BY <1>6, <2>2, <2>3 DEF RefreshToken
<1>7. ASSUME NEW c \in Calls, CallStep(c) PROVE [Registry!AccountsNext]_(Registry!registry)
  <2>1. CASE LookupGuestName(c) \/ CheckGuestName(c) \/ StoreResetToken(c) \/ SendPasswordResetEmail(c)
             \/ DeleteToken(c)
    BY <1>1, <2>1 DEF LookupGuestName, CheckGuestName, StoreResetToken, SendPasswordResetEmail, DeleteToken
  <2> QED
    BY <1>4, <1>5, <1>7, <2>1, CreateUserRefines, UpdateUsernameRefines, UpdatePasswordRefines DEF CallStep
<1>8. ASSUME NEW c \in Calls, NEW e \in Emails, NEW p \in Passwords,
             Register(c, e, p) \/ ConvertGuest(c, e, p) \/ Login(c, e, p)
      PROVE  UNCHANGED <<row, tokens>>
  BY <1>8 DEF Register, ConvertGuest, FindFree, Login
<1>9. ASSUME NEW c \in Calls,
             \/ \E e \in Emails : ForgotPassword(c, e)
             \/ \E n \in GuestNames : DrawGuestName(c, n)
             \/ \E t \in tokens, w \in Typed : SetUsername(c, t, w)
             \/ \E r \in mailed, p \in Passwords : ResetPassword(c, r, p)
      PROVE  UNCHANGED <<row, tokens>>
  BY <1>9 DEF ForgotPassword, RequestPasswordReset, DrawGuestName, SetUsername, ResetPassword
<1>10. ASSUME (\E n \in GuestNames : GuestKeyExpires(n)) \/ (\E r \in Calls : ResetKeyExpires(r))
       PROVE  UNCHANGED <<row, tokens>>
  BY <1>10 DEF GuestKeyExpires, ResetKeyExpires
<1>11. CASE UNCHANGED vars
  BY <1>1, <1>11 DEF vars
<1> QED
  BY <1>1, <1>3, <1>6, <1>7, <1>8, <1>9, <1>10, <1>11 DEF Next

LEMMA InitRefines == Init => Registry!AccountsInit
<1> SUFFICES ASSUME Init PROVE Registry!AccountsInit
  OBVIOUS
<1>1. \A u \in Users : row[u] # NoRow => u \in Seeds
  BY DEF Init
<1>2. \A u \in Seeds : /\ u \in Users
                       /\ row[u] = [email |-> SeedEmail[u], hash |-> SeedPassword, name |-> NoName]
                       /\ row[u] \in Row
  BY AuthAssumption DEF Init, Users, Row
<1>3. row \in [Users -> Registry!Account \cup {NoRow}]
  BY InitHolds DEF AuthInv, TypeOK, Row, Registry!Account
<1>4. \A u \in Seeds : row[u] # NoRow
  BY <1>2, AuthAssumption
<1>5. ASSUME NEW u \in Users, row[u] # NoRow PROVE row[u].name = NoName /\ row[u].email = SeedEmail[u]
  <2>1. row[u] = [email |-> SeedEmail[u], hash |-> SeedPassword, name |-> NoName]
    BY <1>1, <1>2, <1>5
  <2> QED
    BY <2>1
<1>6. Claims \subseteq {u \in Users : row[u] # NoRow} \X {NoName}
  <2>1. \A t \in tokens : t.id \in Seeds /\ t.name = NoName
    BY DEF Init
  <2>2. \A t \in tokens : t.id \in {u \in Users : row[u] # NoRow} /\ t.name \in {NoName}
    BY <1>2, <1>4, <2>1
  <2> QED
    BY <2>2 DEF Claims
<1>7. ASSUME NEW u \in Users, NEW v \in Users, row[u] # NoRow, row[v] # NoRow, row[u].email = row[v].email
      PROVE  u = v
  <2>1. u \in Seeds /\ v \in Seeds /\ SeedEmail[u] = SeedEmail[v]
    BY <1>1, <1>5, <1>7
  <2> QED
    BY <2>1, AuthAssumption
<1>8. \A u \in Users : Registry!Opened(u) => row[u] # NoRow
  BY DEF Registry!Opened
<1>9. \A u \in Users : row[u] # NoRow => row[u].name = NoName
  BY <1>5
<1>10. \A u,
           v \in Users : Registry!Opened(u) /\ Registry!Opened(v) /\ row[u].email = row[v].email => u = v
  BY <1>7, <1>8
<1>11. {u \in Users : Registry!Opened(u)} = {u \in Users : row[u] # NoRow}
  BY DEF Registry!Opened
<1> QED
  BY <1>3, <1>6, <1>8, <1>9, <1>10, <1>11 DEF Registry!AccountsInit

\* The handlers implement the registry, whatever requests race, fail or stop half
\* way, for any number of accounts, requests, names and draws.
THEOREM AuthImplementsAccounts == Spec => ImplementsAccounts
  BY InitHolds, StepHolds, InitRefines, StepRefines, PTL
     DEF Spec, ImplementsAccounts, Registry!AccountsSpec

-----------------------------------------------------------------------------
(* What the registry guarantees, for the rows and tokens of Auth *)

RegistryInv == Registry!AccountsType /\ Registry!OwnersAreUnique /\ Registry!ClaimsAreTrue

LEMMA NoRowIsNoAccount == NoRow \notin Registry!Account
  BY AuthAssumption DEF Registry!Account, Row

LEMMA RegistryInitSafe == Registry!AccountsInit => RegistryInv
  BY DEF Registry!AccountsInit, RegistryInv, Registry!AccountsType, Registry!OwnersAreUnique,
       Registry!ClaimsAreTrue, Registry!Opened, Registry!Account

\* An account, once opened, stays open, keeps its e-mail and keeps its name.
LEMMA AccountsAreKept ==
  ASSUME Registry!AccountsType, [Registry!AccountsNext]_(Registry!registry), NEW u \in Users,
         Registry!Opened(u)
  PROVE  /\ Registry!Opened(u)'
         /\ row'[u].email = row[u].email
         /\ row[u].name # NoName => row'[u].name = row[u].name
<1> USE NoRowIsNoAccount
<1>1. CASE UNCHANGED Registry!registry
  BY <1>1 DEF Registry!registry, Registry!Opened
<1>2. ASSUME NEW v \in Users, NEW e \in Emails, NEW s \in Passwords \cup {NoPassword},
             Registry!Open(v, e, s)
      PROVE  row'[u] = row[u]
  BY <1>2 DEF Registry!Open, Registry!Opened, Registry!AccountsType
<1>3. ASSUME NEW v \in Users, NEW n \in Names, Registry!TakeName(v, n)
      PROVE  /\ row'[u] \in Registry!Account
             /\ row'[u].email = row[u].email
             /\ row[u].name # NoName => row'[u].name = row[u].name
  BY <1>3 DEF Registry!TakeName, Registry!Opened, Registry!AccountsType, Registry!Account
<1>4. ASSUME NEW v \in Users, NEW s \in Passwords \cup {NoPassword}, Registry!ChangeSecret(v, s)
      PROVE  /\ row'[u] \in Registry!Account
             /\ row'[u].email = row[u].email
             /\ row'[u].name = row[u].name
  BY <1>4 DEF Registry!ChangeSecret, Registry!Opened, Registry!AccountsType, Registry!Account
<1>5. ASSUME NEW v \in Users, Registry!Tell(v) PROVE row'[u] = row[u]
  BY <1>5 DEF Registry!Tell
<1> QED
  BY <1>1, <1>2, <1>3, <1>4, <1>5 DEF Registry!AccountsNext, Registry!Opened

LEMMA RegistryStepSafe ==
  ASSUME RegistryInv, [Registry!AccountsNext]_(Registry!registry)
  PROVE  RegistryInv'
<1> USE NoRowIsNoAccount DEF RegistryInv
<1>1. CASE UNCHANGED Registry!registry
  BY <1>1 DEF Registry!registry, Registry!AccountsType, Registry!OwnersAreUnique,
       Registry!ClaimsAreTrue, Registry!Opened
<1>2. ASSUME NEW u \in Users, NEW e \in Emails, NEW s \in Passwords \cup {NoPassword},
             Registry!Open(u, e, s)
      PROVE  RegistryInv'
  <2>1. Registry!AccountsType'
    BY <1>2 DEF Registry!Open, Registry!AccountsType, Registry!Account
  <2>2. /\ row'[u] = [email |-> e, hash |-> s, name |-> NoName]
        /\ \A v \in Users : v # u => row'[v] = row[v]
    BY <1>2 DEF Registry!Open, Registry!AccountsType
  <2>3. Registry!OwnersAreUnique'
    BY <1>2, <2>2 DEF Registry!Open, Registry!OwnersAreUnique, Registry!Opened,
         Registry!AccountsType
  <2>4. row'[u] \in Registry!Account
    BY <2>2 DEF Registry!Account
  <2>5. \A c \in Claims : c[1] # u /\ c[1] \in Users
    BY <1>2 DEF Registry!Open, Registry!ClaimsAreTrue, Registry!AccountsType
  <2>6. ASSUME NEW c \in Claims' PROVE Registry!Opened(c[1])' /\ c[2] \in {NoName, row'[c[1]].name}
    <3>1. CASE c \in Claims
      BY <3>1, <2>2, <2>5 DEF Registry!ClaimsAreTrue, Registry!Opened
    <3>2. CASE c = <<u, NoName>>
      BY <3>2, <2>4 DEF Registry!Opened
    <3> QED
      BY <1>2, <2>6, <3>1, <3>2 DEF Registry!Open
  <2> QED
    BY <2>1, <2>3, <2>6 DEF Registry!ClaimsAreTrue
<1>3. ASSUME NEW u \in Users, NEW n \in Names, Registry!TakeName(u, n) PROVE RegistryInv'
  <2>1. Registry!AccountsType'
    BY <1>3 DEF Registry!TakeName, Registry!AccountsType, Registry!Account, Registry!Opened
  <2>2. /\ row'[u] = [row[u] EXCEPT !.name = n]
        /\ row[u] \in Registry!Account
        /\ \A v \in Users : v # u => row'[v] = row[v]
    BY <1>3 DEF Registry!TakeName, Registry!AccountsType, Registry!Opened
  <2>3. Registry!OwnersAreUnique'
    BY <1>3, <2>2 DEF Registry!TakeName, Registry!OwnersAreUnique, Registry!Opened, Registry!Account
  <2>4. Registry!ClaimsAreTrue'
    BY <1>3, AccountsAreKept DEF Registry!AccountsNext, Registry!TakeName,
         Registry!ClaimsAreTrue, Registry!AccountsType
  <2> QED
    BY <2>1, <2>3, <2>4
<1>4. ASSUME NEW u \in Users, NEW s \in Passwords \cup {NoPassword}, Registry!ChangeSecret(u, s)
      PROVE  RegistryInv'
  <2>1. Registry!AccountsType'
    BY <1>4 DEF Registry!ChangeSecret, Registry!AccountsType, Registry!Account, Registry!Opened
  <2>2. /\ row'[u] = [row[u] EXCEPT !.hash = s]
        /\ row[u] \in Registry!Account
        /\ \A v \in Users : v # u => row'[v] = row[v]
    BY <1>4 DEF Registry!ChangeSecret, Registry!AccountsType, Registry!Opened
  <2>3. Registry!OwnersAreUnique'
    BY <1>4, <2>2 DEF Registry!ChangeSecret, Registry!OwnersAreUnique, Registry!Opened,
         Registry!Account
  <2>4. Registry!ClaimsAreTrue'
    BY <1>4, <2>2, AccountsAreKept DEF Registry!AccountsNext, Registry!ChangeSecret,
         Registry!ClaimsAreTrue, Registry!AccountsType, Registry!Account
  <2> QED
    BY <2>1, <2>3, <2>4
<1>5. ASSUME NEW u \in Users, Registry!Tell(u) PROVE RegistryInv'
  <2>1. row[u] \in Registry!Account
    BY <1>5 DEF Registry!Tell, Registry!AccountsType, Registry!Opened
  <2>2. Registry!AccountsType' /\ Registry!OwnersAreUnique'
    BY <1>5, <2>1 DEF Registry!Tell, Registry!AccountsType, Registry!OwnersAreUnique,
         Registry!Opened, Registry!Account
  <2>3. Registry!ClaimsAreTrue'
    BY <1>5 DEF Registry!Tell, Registry!ClaimsAreTrue, Registry!Opened
  <2> QED
    BY <2>2, <2>3
<1> QED
  BY <1>1, <1>2, <1>3, <1>4, <1>5 DEF Registry!AccountsNext

\* The registry never gives one e-mail or one name to two accounts, and what was
\* told of an account stays true of it.
THEOREM AccountsSafe == Registry!AccountsSpec => [](Registry!OwnersAreUnique /\ Registry!ClaimsAreTrue)
<1>1. RegistryInv /\ [Registry!AccountsNext]_(Registry!registry) => RegistryInv'
  BY RegistryStepSafe
<1>2. RegistryInv => Registry!OwnersAreUnique /\ Registry!ClaimsAreTrue
  BY DEF RegistryInv
<1> QED
  BY <1>1, <1>2, RegistryInitSafe, PTL DEF Registry!AccountsSpec

LEMMA RegistrySafe == Spec => [](Registry!OwnersAreUnique /\ Registry!ClaimsAreTrue)
  BY AccountsSafe, AuthImplementsAccounts, PTL DEF ImplementsAccounts

\* What a token says of an account is true of it, in every state.
THEOREM TokensStayTrue == Spec => []ClaimsHold
<1>1. Registry!ClaimsAreTrue /\ TypeOK => ClaimsHold
  <2> SUFFICES ASSUME Registry!ClaimsAreTrue, TypeOK, NEW t \in tokens, ~t.guest
               PROVE  t.id \in Rows /\ t.name \in {NoName, row[t.id].name}
    BY DEF ClaimsHold
  <2>1. <<t.id, t.name>> \in Claims
    BY DEF Claims
  <2>2. t.id \in Users
    BY DEF TypeOK, Token
  <2> QED
    BY <2>1, <2>2 DEF Registry!ClaimsAreTrue, Registry!Opened, Rows
<1> QED
  BY <1>1, RegistrySafe, AuthTypeCorrect, PTL

-----------------------------------------------------------------------------
(* Reset tokens *)

\* A token that was mailed belongs to a request that is over, so nothing stores
\* it again; a token whose DEL was answered has no key.
ResetInv ==
  /\ \A r \in mailed : In(r, "done")
  /\ \A c \in Calls : In(c, "password") \/ In(c, "delete") => call[c].reset \in mailed
  /\ deleted \subseteq mailed
  /\ \A r \in deleted : resetKey[r] = NoUser

\* Where a call is after a step of its own.
Moved(c, local) == call'[c] = local /\ \A d \in Calls \ {c} : call'[d] = call[d]

LEMMA Moves ==
  ASSUME TypeOK, NEW c \in Calls
  PROVE  /\ \A step : Goto(c, step) => Moved(c, [call[c] EXCEPT !.step = step])
         /\ \A local : Enter(c, local) => Moved(c, local)
         /\ End(c) => Moved(c, At("done"))
  BY DEF TypeOK, Goto, Enter, End, Moved

\* Requests of other kinds never are where a reset is.
LEMMA OtherRequest ==
  ASSUME TypeOK, ResetInv, NEW c \in Calls, ~In(c, "done"), NEW local, Moved(c, local),
         local.step \notin {"password", "delete"},
         UNCHANGED <<resetKey, deleted>>,
         mailed' \subseteq mailed \cup {c}, mailed \subseteq mailed',
         c \in mailed' => local.step = "done"
  PROVE  ResetInv'
<1>1. c \notin mailed
  BY DEF ResetInv
<1>2. \A r \in mailed : r \in Calls
  BY DEF TypeOK
<1>3. ASSUME NEW r \in mailed' PROVE call'[r].step = "done"
  BY <1>1, <1>2, <1>3 DEF ResetInv, Moved, In
<1>4. ASSUME NEW d \in Calls, call'[d].step \in {"password", "delete"} PROVE call'[d].reset \in mailed'
  BY <1>4 DEF ResetInv, Moved, In
<1> QED
  BY <1>3, <1>4 DEF ResetInv, In

LEMMA ResetSteps ==
  ASSUME AuthInv, ResetInv, NEW c \in Calls,
         \/ \E r \in mailed, p \in Passwords : ResetPassword(c, r, p)
         \/ StoreResetToken(c) \/ UpdatePassword(c) \/ DeleteToken(c)
  PROVE  ResetInv'
<1>1. TypeOK /\ call[c] \in Call /\ mailed \subseteq Calls
  BY DEF AuthInv, TypeOK
<1>2. ASSUME NEW r \in mailed, NEW p \in Passwords, ResetPassword(c, r, p) PROVE ResetInv'
  <2> DEFINE local == [At("password") EXCEPT !.id = resetKey[r], !.password = p, !.reset = r]
  <2>1. Moved(c, local) /\ local.step = "password" /\ local.reset = r
    BY <1>1, <1>2, Moves DEF ResetPassword, At
  <2> HIDE DEF local
  <2> QED
    BY <1>1, <1>2, <2>1 DEF ResetPassword, ResetInv, Moved, In
<1>3. CASE StoreResetToken(c)
  <2>1. CASE resetKey' = [resetKey EXCEPT ![c] = call[c].id] /\ Goto(c, "mail")
    <3>1. Moved(c, [call[c] EXCEPT !.step = "mail"]) /\ [call[c] EXCEPT !.step = "mail"].step = "mail"
      BY <1>1, <2>1, Moves DEF Call
    <3>2. c \notin mailed
      BY <1>3 DEF StoreResetToken, ResetInv, In
    <3>3. \A r \in deleted : resetKey'[r] = resetKey[r]
      BY <1>1, <2>1, <3>2 DEF ResetInv, TypeOK
    <3> QED
      BY <1>1, <1>3, <3>1, <3>2, <3>3 DEF StoreResetToken, ResetInv, Moved, In
  <2>2. CASE UNCHANGED resetKey /\ End(c)
    <3>1. Moved(c, At("done")) /\ At("done").step = "done" /\ ~In(c, "done")
      BY <1>1, <1>3, <2>2, Moves DEF At, StoreResetToken, In
    <3> QED
      BY <1>1, <1>3, <2>2, <3>1, OtherRequest DEF StoreResetToken
  <2> QED
    BY <1>3, <2>1, <2>2 DEF StoreResetToken
<1>4. CASE UpdatePassword(c)
  <2>1. CASE End(c)
    <3>1. Moved(c, At("done")) /\ At("done").step = "done" /\ ~In(c, "done")
      BY <1>1, <1>4, <2>1, Moves DEF At, UpdatePassword, In
    <3> QED
      BY <1>1, <1>4, <3>1, OtherRequest DEF UpdatePassword
  <2>2. CASE Goto(c, "delete")
    <3> DEFINE local == [call[c] EXCEPT !.step = "delete"]
    <3>1. Moved(c, local) /\ local.step = "delete" /\ local.reset = call[c].reset
      BY <1>1, <2>2, Moves DEF Call
    <3> HIDE DEF local
    <3>2. call[c].reset \in mailed /\ c \notin mailed
      BY <1>4 DEF UpdatePassword, ResetInv, In
    <3> QED
      BY <1>1, <1>4, <3>1, <3>2 DEF UpdatePassword, ResetInv, Moved, In
  <2> QED
    BY <1>4, <2>1, <2>2 DEF UpdatePassword
<1>5. CASE DeleteToken(c)
  <2>1. Moved(c, At("done")) /\ At("done").step = "done" /\ ~In(c, "done")
    BY <1>1, <1>5, Moves DEF At, DeleteToken, In
  <2>2. call[c].reset \in mailed /\ c \notin mailed
    BY <1>5 DEF DeleteToken, ResetInv, In
  <2>3. CASE Del(call[c].reset) /\ deleted' = deleted \cup {call[c].reset}
    <3>1. \A r \in deleted' : resetKey'[r] = NoUser
      BY <1>1, <2>2, <2>3 DEF Del, ResetInv, TypeOK
    <3> QED
      BY <1>1, <1>5, <2>1, <2>2, <2>3, <3>1 DEF DeleteToken, ResetInv, Moved, In
  <2>4. CASE UNCHANGED <<resetKey, deleted>>
    BY <1>1, <1>5, <2>1, <2>4, OtherRequest DEF DeleteToken
  <2> QED
    BY <1>5, <2>3, <2>4 DEF DeleteToken
<1> QED
  BY <1>2, <1>3, <1>4, <1>5

\* The requests that have nothing to do with a reset token that exists.
Elsewhere(c) ==
  \/ \E e \in Emails, p \in Passwords : Register(c, e, p) \/ ConvertGuest(c, e, p) \/ Login(c, e, p)
  \/ \E e \in Emails : CreateOrGetOAuthUser(c, e) \/ ForgotPassword(c, e)
  \/ \E n \in GuestNames : DrawGuestName(c, n)
  \/ \E t \in tokens, w \in Typed : SetUsername(c, t, w)
  \/ CreateUser(c) \/ UpdateLogin(c) \/ LookupGuestName(c) \/ CreateGuest(c)
  \/ CheckGuestName(c) \/ UpdateUsername(c) \/ SendPasswordResetEmail(c)

LEMMA ElsewhereMoves ==
  ASSUME TypeOK, NEW c \in Calls, Elsewhere(c)
  PROVE  /\ ~In(c, "done") /\ UNCHANGED <<resetKey, deleted>>
         /\ mailed' \subseteq mailed \cup {c} /\ mailed \subseteq mailed'
         /\ \E local : /\ Moved(c, local) /\ local.step \notin {"password", "delete"}
                       /\ c \in mailed' /\ c \notin mailed => local.step = "done"
<1> DEFINE Goal == /\ ~In(c, "done") /\ UNCHANGED <<resetKey, deleted>>
                   /\ mailed' \subseteq mailed \cup {c} /\ mailed \subseteq mailed'
                   /\ \E local : /\ Moved(c, local) /\ local.step \notin {"password", "delete"}
                                 /\ c \in mailed' /\ c \notin mailed => local.step = "done"
<1>1. call[c] \in Call
  BY DEF TypeOK
<1>2. At("done").step = "done"
  BY DEF At
<1>3. ASSUME End(c), ~In(c, "done"), UNCHANGED <<resetKey, deleted>>,
             mailed' \subseteq mailed \cup {c}, mailed \subseteq mailed'
      PROVE  Goal
  BY <1>2, <1>3, Moves
<1>4. ASSUME NEW local, Enter(c, local), local.step \notin {"password", "delete"}, ~In(c, "done"),
             UNCHANGED <<resetKey, mailed, deleted>>
      PROVE  Goal
  BY <1>4, Moves
<1>5. ASSUME NEW step \in {"reserve", "update"}, Goto(c, step), ~In(c, "done"),
             UNCHANGED <<resetKey, mailed, deleted>>
      PROVE  Goal
  <2>1. [call[c] EXCEPT !.step = step].step = step
    BY <1>1 DEF Call
  <2> QED
    BY <1>5, <2>1, Moves
<1>6. ASSUME NextDraw(c), ~In(c, "done"), UNCHANGED <<resetKey, mailed, deleted>> PROVE Goal
  <2>1. [At("draw") EXCEPT !.tries = call[c].tries + 1].step = "draw"
    BY DEF At
  <2> QED
    BY <1>3, <1>4, <1>6, <2>1 DEF NextDraw
<1>7. ASSUME NEW e \in Emails, NEW p \in Passwords, FindFree(c, e, p) PROVE Goal
  <2>1. [At("insert") EXCEPT !.email = e, !.password = p].step = "insert"
    BY DEF At
  <2> QED
    BY <1>4, <1>7, <2>1 DEF FindFree, In
<1>8. ASSUME NEW e \in Emails, NEW p \in Passwords, Login(c, e, p) PROVE Goal
  <2>1. \A u : [At("login") EXCEPT !.id = u, !.name = row[u].name].step = "login"
    BY DEF At
  <2>2. PICK u \in GetByEmail(e) : Enter(c, [At("login") EXCEPT !.id = u, !.name = row[u].name])
    BY <1>8 DEF Login
  <2> QED
    BY <1>4, <1>8, <2>1, <2>2 DEF Login, In
<1>9. ASSUME NEW e \in Emails, CreateOrGetOAuthUser(c, e) PROVE Goal
  <2>1. [At("insert") EXCEPT !.email = e].step = "insert"
    BY DEF At
  <2> QED
    BY <1>3, <1>4, <1>9, <2>1 DEF CreateOrGetOAuthUser, In
<1>10. ASSUME NEW e \in Emails, ForgotPassword(c, e) PROVE Goal
  <2>1. \A u : [At("store") EXCEPT !.id = u].step = "store"
    BY DEF At
  <2>2. PICK u \in GetByEmail(e) : Enter(c, [At("store") EXCEPT !.id = u])
    BY <1>10 DEF ForgotPassword, RequestPasswordReset
  <2> QED
    BY <1>4, <1>10, <2>1, <2>2 DEF ForgotPassword, RequestPasswordReset, In
<1>11. ASSUME NEW n \in GuestNames, DrawGuestName(c, n) PROVE Goal
  <2>1. [call[c] EXCEPT !.step = "lookup", !.name = n].step = "lookup"
    BY <1>1 DEF Call
  <2> QED
    BY <1>4, <1>6, <1>11, <2>1 DEF DrawGuestName, In
<1>12. ASSUME NEW t \in tokens, NEW w \in Typed, SetUsername(c, t, w) PROVE Goal
  <2>1. [At("reserved") EXCEPT !.id = t.id, !.name = Canonical[w]].step = "reserved"
    BY DEF At
  <2> QED
    BY <1>4, <1>12, <2>1 DEF SetUsername, Authenticated, In
<1>13. CASE CreateUser(c) \/ UpdateLogin(c) \/ CreateGuest(c) \/ UpdateUsername(c)
            \/ SendPasswordResetEmail(c)
  BY <1>3, <1>13 DEF CreateUser, UpdateLogin, CreateGuest, UpdateUsername, SendPasswordResetEmail, In
<1>14. CASE LookupGuestName(c)
  BY <1>5, <1>6, <1>14 DEF LookupGuestName, In
<1>15. CASE CheckGuestName(c)
  BY <1>3, <1>5, <1>15 DEF CheckGuestName, In
<1> QED
  BY <1>7, <1>8, <1>9, <1>10, <1>11, <1>12, <1>13, <1>14, <1>15 DEF Elsewhere, Register, ConvertGuest

\* The kinds of steps there are, seen from the reset tokens.
LEMMA StepKinds ==
  ASSUME [Next]_vars
  PROVE  \/ UNCHANGED <<resetKey, mailed, call, deleted>>
         \/ \E r \in Calls : ResetKeyExpires(r)
         \/ \E c \in Calls : Elsewhere(c)
         \/ \E c \in Calls : StoreResetToken(c) \/ UpdatePassword(c) \/ DeleteToken(c)
         \/ \E c \in Calls, r \in mailed, p \in Passwords : ResetPassword(c, r, p)
  BY DEF Next, vars, Elsewhere, CallStep, RefreshToken, GuestKeyExpires

LEMMA ResetInvHolds == AuthInv /\ ResetInv /\ [Next]_vars => ResetInv'
<1> SUFFICES ASSUME AuthInv, ResetInv, [Next]_vars PROVE ResetInv'
  OBVIOUS
<1>1. TypeOK
  BY DEF AuthInv
<1>2. CASE UNCHANGED <<resetKey, mailed, call, deleted>>
  BY <1>2 DEF ResetInv, In
<1>3. ASSUME NEW r \in Calls, ResetKeyExpires(r) PROVE ResetInv'
  BY <1>1, <1>3 DEF ResetKeyExpires, ResetInv, In, TypeOK
<1>4. ASSUME NEW c \in Calls, Elsewhere(c) PROVE ResetInv'
  <2>1. c \notin mailed
    BY <1>1, <1>4, ElsewhereMoves DEF ResetInv
  <2> QED
    BY <1>1, <1>4, <2>1, ElsewhereMoves, OtherRequest
<1> QED
  BY <1>2, <1>3, <1>4, ResetSteps, StepKinds

LEMMA ResetStepUnspent ==
  ASSUME AuthInv, ResetInv, [Next]_vars, NEW c \in Calls, In(c, "idle"), call'[c].step = "password"
  PROVE  call'[c].reset \notin deleted
<1>1. TypeOK
  BY DEF AuthInv
<1>2. ASSUME NEW d \in Calls, NEW r \in mailed, NEW p \in Passwords, ResetPassword(d, r, p)
      PROVE  call'[c].reset \notin deleted
  <2> DEFINE local == [At("password") EXCEPT !.id = resetKey[r], !.password = p, !.reset = r]
  <2>1. Moved(d, local) /\ local.reset = r
    BY <1>1, <1>2, Moves DEF ResetPassword, At
  <2>2. r \notin deleted
    BY <1>2 DEF ResetPassword, ResetInv
  <2> HIDE DEF local
  <2> QED
    BY <2>1, <2>2 DEF Moved, In
<1>3. ASSUME NEW d \in Calls, Elsewhere(d) PROVE FALSE
  BY <1>1, <1>3, ElsewhereMoves DEF Moved, In
<1>4. ASSUME NEW d \in Calls, StoreResetToken(d) \/ UpdatePassword(d) \/ DeleteToken(d) PROVE FALSE
  <2>1. In(d, "store") \/ In(d, "password") \/ In(d, "delete")
    BY <1>4 DEF StoreResetToken, UpdatePassword, DeleteToken
  <2>2. c # d
    BY <2>1 DEF In
  <2>3. call'[c] = call[c]
    BY <1>1, <1>4, <2>2, Moves DEF StoreResetToken, UpdatePassword, DeleteToken, Moved
  <2> QED
    BY <2>3 DEF In
<1>5. CASE UNCHANGED call
  BY <1>5 DEF In
<1> QED
  BY <1>2, <1>3, <1>4, <1>5, StepKinds DEF ResetKeyExpires

\* Once the DEL of a reset was answered, its token starts no other reset, whatever
\* other requests store, mail, fail or expire.
THEOREM ResetTokensAreSpent == Spec => ResetsOnce
<1>1. Init => ResetInv
  BY DEF Init, ResetInv, In, At
<1>2. AuthInv /\ ResetInv /\ [Next]_vars =>
        [\A c \in Calls : In(c, "idle") /\ call'[c].step = "password" => call'[c].reset \notin deleted]_vars
  BY ResetStepUnspent
<1> QED
  BY <1>1, <1>2, InitHolds, StepHolds, ResetInvHolds, PTL DEF Spec, ResetsOnce

-----------------------------------------------------------------------------
(* Names *)

\* A request holds a name it drew only if the name was free when it drew it.
Drew(c, n) == Drawing(c, n)' => Drawing(c, n) \/ n \notin guestKey

LEMMA NotDrawing ==
  ASSUME TypeOK, NEW c \in Calls, NEW local, Moved(c, local), local.step \notin {"lookup", "reserve"}
  PROVE  \A d \in Calls, n \in GuestNames : Drew(d, n)
  BY DEF Moved, Drew, Drawing, In

LEMMA NamesDrawn ==
  ASSUME TypeOK, [Next]_vars
  PROVE  \A d \in Calls, n \in GuestNames : Drew(d, n)
<1> DEFINE Goal == \A d \in Calls, n \in GuestNames : Drew(d, n)
<1>1. CASE UNCHANGED call
  BY <1>1 DEF Drew, Drawing, In
<1>2. ASSUME NEW c \in Calls, NEW local, Enter(c, local), local.step \notin {"lookup", "reserve"}
      PROVE  Goal
  BY <1>2, Moves, NotDrawing
<1>3. ASSUME NEW c \in Calls, End(c) PROVE Goal
  <2>1. At("done").step = "done"
    BY DEF At
  <2> QED
    BY <1>3, <2>1, Moves, NotDrawing
<1>4. ASSUME NEW c \in Calls, NEW step \in {"update", "mail", "delete"}, Goto(c, step) PROVE Goal
  <2>1. [call[c] EXCEPT !.step = step].step = step
    BY DEF TypeOK, Call
  <2> QED
    BY <1>4, <2>1, Moves, NotDrawing
<1>5. ASSUME NEW c \in Calls, NextDraw(c) PROVE Goal
  <2>1. [At("draw") EXCEPT !.tries = call[c].tries + 1].step = "draw"
    BY DEF At
  <2> QED
    BY <1>2, <1>3, <1>5, <2>1 DEF NextDraw
<1>6. ASSUME NEW c \in Calls, NEW e \in Emails, NEW p \in Passwords,
             FindFree(c, e, p) \/ Login(c, e, p) PROVE Goal
  <2>1. [At("insert") EXCEPT !.email = e, !.password = p].step = "insert"
    BY DEF At
  <2>2. \A u : [At("login") EXCEPT !.id = u, !.name = row[u].name].step = "login"
    BY DEF At
  <2>3. CASE FindFree(c, e, p)
    BY <1>2, <2>1, <2>3 DEF FindFree
  <2>4. CASE Login(c, e, p)
    <3>1. PICK u \in GetByEmail(e) : Enter(c, [At("login") EXCEPT !.id = u, !.name = row[u].name])
      BY <2>4 DEF Login
    <3> QED
      BY <1>2, <2>2, <3>1
  <2> QED
    BY <1>6, <2>3, <2>4
<1>7. ASSUME NEW c \in Calls, NEW e \in Emails, CreateOrGetOAuthUser(c, e) PROVE Goal
  <2>1. [At("insert") EXCEPT !.email = e].step = "insert"
    BY DEF At
  <2> QED
    BY <1>2, <1>3, <1>7, <2>1 DEF CreateOrGetOAuthUser
<1>8. ASSUME NEW c \in Calls, NEW e \in Emails, ForgotPassword(c, e) PROVE Goal
  <2>1. \A u : [At("store") EXCEPT !.id = u].step = "store"
    BY DEF At
  <2>2. PICK u \in GetByEmail(e) : Enter(c, [At("store") EXCEPT !.id = u])
    BY <1>8 DEF ForgotPassword, RequestPasswordReset
  <2> QED
    BY <1>2, <2>1, <2>2
<1>9. ASSUME NEW c \in Calls, NEW n \in GuestNames, DrawGuestName(c, n) PROVE Goal
  <2>1. CASE Free(n) /\ Enter(c, [call[c] EXCEPT !.step = "lookup", !.name = n])
    <3>1. call[c] \in Call /\ Moved(c, [call[c] EXCEPT !.step = "lookup", !.name = n])
      BY <2>1, Moves DEF TypeOK
    <3>2. call'[c].name = n /\ \A d \in Calls \ {c} : call'[d] = call[d]
      BY <3>1 DEF Moved, Call
    <3> QED
      BY <2>1, <3>2 DEF Drew, Drawing, In, Free
  <2> QED
    BY <1>5, <1>9, <2>1 DEF DrawGuestName
<1>10. ASSUME NEW c \in Calls, NEW t \in tokens, NEW w \in Typed, SetUsername(c, t, w) PROVE Goal
  <2>1. [At("reserved") EXCEPT !.id = t.id, !.name = Canonical[w]].step = "reserved"
    BY DEF At
  <2> QED
    BY <1>2, <1>10, <2>1 DEF SetUsername
<1>11. ASSUME NEW c \in Calls, NEW r \in mailed, NEW p \in Passwords, ResetPassword(c, r, p) PROVE Goal
  <2>1. [At("password") EXCEPT !.id = resetKey[r], !.password = p, !.reset = r].step = "password"
    BY DEF At
  <2> QED
    BY <1>2, <1>11, <2>1 DEF ResetPassword
<1>12. ASSUME NEW c \in Calls, LookupGuestName(c) PROVE Goal
  <2>1. CASE Goto(c, "reserve")
    <3>1. call[c] \in Call /\ Moved(c, [call[c] EXCEPT !.step = "reserve"])
      BY <2>1, Moves DEF TypeOK
    <3>2. call'[c].name = call[c].name /\ \A d \in Calls \ {c} : call'[d] = call[d]
      BY <3>1 DEF Moved, Call
    <3> QED
      BY <1>12, <3>2 DEF LookupGuestName, Drew, Drawing, In
  <2> QED
    BY <1>5, <1>12, <2>1 DEF LookupGuestName
<1>13. ASSUME NEW c \in Calls, CallStep(c) PROVE Goal
  <2>1. CASE CreateUser(c) \/ UpdateLogin(c) \/ CreateGuest(c) \/ UpdateUsername(c)
             \/ SendPasswordResetEmail(c) \/ DeleteToken(c)
    BY <1>3, <2>1 DEF CreateUser, UpdateLogin, CreateGuest, UpdateUsername, SendPasswordResetEmail, DeleteToken
  <2>2. CASE CheckGuestName(c) \/ StoreResetToken(c) \/ UpdatePassword(c)
    BY <1>3, <1>4, <2>2 DEF CheckGuestName, StoreResetToken, UpdatePassword
  <2> QED
    BY <1>12, <1>13, <2>1, <2>2 DEF CallStep
<1>14. ASSUME \/ \E t \in tokens : RefreshToken(t)
              \/ \E n \in GuestNames : GuestKeyExpires(n)
              \/ \E r \in Calls : ResetKeyExpires(r)
       PROVE  Goal
  BY <1>1, <1>14 DEF RefreshToken, GuestKeyExpires, ResetKeyExpires
<1> HIDE DEF Goal
<1>15. ASSUME UNCHANGED vars PROVE Goal
  BY <1>1, <1>15 DEF vars, Goal
<1>16. Goal
  <2>1. ASSUME NEW c \in Calls, NEW e \in Emails, NEW p \in Passwords,
               Register(c, e, p) \/ ConvertGuest(c, e, p) \/ Login(c, e, p)
        PROVE  Goal
    BY <1>6, <2>1 DEF Register, ConvertGuest
  <2>2. ASSUME NEW c \in Calls, NEW e \in Emails, CreateOrGetOAuthUser(c, e) \/ ForgotPassword(c, e)
        PROVE  Goal
    BY <1>7, <1>8, <2>2
  <2>3. Next \/ UNCHANGED vars
    OBVIOUS
  <2>4. CASE Next
    BY <1>9, <1>10, <1>11, <1>13, <1>14, <2>1, <2>2, <2>4 DEF Next
  <2> QED
    BY <1>15, <2>3, <2>4
<1> QED
  BY <1>16 DEF Goal

\* Of a guest only its creation and the refreshing of its token speak.
Guests == {<<t.id, t.name>> : t \in {s \in tokens : s.guest}}

LEMMA GuestsTold ==
  ASSUME TypeOK, NEW kinds \in SUBSET Pair, NEW u \in Users, NEW n \in Names \cup {NoName},
         NEW g \in BOOLEAN, Issue(kinds, u, n, g)
  PROVE  /\ Guests \subseteq Guests'
         /\ \A x \in Guests' : x \in Guests \/ (g /\ x = <<u, n>>)
<1> DEFINE new == [kind : kinds, id : {u}, name : {n}, guest : {g}]
<1>1. \A t \in new : t.id = u /\ t.name = n /\ t.guest = g
  OBVIOUS
<1>2. tokens' = tokens \cup new
  BY DEF Issue
<1> HIDE DEF new
<1>3. \A t \in tokens' : t \in tokens \/ (t.id = u /\ t.name = n /\ t.guest = g)
  BY <1>1, <1>2
<1>4. ASSUME NEW x \in Guests' PROVE x \in Guests \/ (g /\ x = <<u, n>>)
  <2>1. PICK t \in tokens' : t.guest /\ x = <<t.id, t.name>>
    BY DEF Guests
  <2> QED
    BY <1>3, <2>1 DEF Guests
<1>5. Guests \subseteq Guests'
  BY <1>2 DEF Guests
<1> QED
  BY <1>4, <1>5

\* The steps that create no guest.
LEMMA GuestsKept ==
  ASSUME TypeOK, [Next]_vars, \A c \in Calls : ~CreateGuest(c)
  PROVE  Guests' \subseteq Guests
<1>1. CASE UNCHANGED tokens
  BY <1>1 DEF Guests
<1>2. ASSUME NEW kinds \in SUBSET Pair, NEW u \in Rows, NEW n \in Names \cup {NoName},
             Issue(kinds, u, n, FALSE)
      PROVE  Guests' \subseteq Guests
  BY <1>2, GuestsTold DEF Rows
<1>3. \A u \in Rows : row[u].name \in Names \cup {NoName}
  BY DEF TypeOK, Rows, Row
<1>4. Pair \in SUBSET Pair /\ {"access"} \in SUBSET Pair
  BY DEF Pair
<1>5. ASSUME NEW c \in Calls, NEW e \in Emails, CreateOrGetOAuthUser(c, e) PROVE Guests' \subseteq Guests
  BY <1>1, <1>2, <1>3, <1>4, <1>5 DEF CreateOrGetOAuthUser, GetByEmail
<1>6. ASSUME NEW c \in Calls, CreateUser(c) \/ UpdateLogin(c) PROVE Guests' \subseteq Guests
  <2>1. c \in Users /\ call[c].id \in Users \cup {NoUser} /\ call[c].name \in Names \cup {NoName}
    BY DEF Users, TypeOK, Call
  <2>2. ASSUME NEW u, Issue(Pair, u, NoName, FALSE) \/ Issue(Pair, u, call[c].name, FALSE)
        PROVE  Guests' \subseteq Guests
    <3>1. PICK n \in Names \cup {NoName} : Issue(Pair, u, n, FALSE)
      BY <2>1, <2>2
    <3> DEFINE new == [kind : Pair, id : {u}, name : {n}, guest : {FALSE}]
    <3>2. \A t \in new : t.guest = FALSE
      OBVIOUS
    <3>3. tokens' = tokens \cup new
      BY <3>1 DEF Issue
    <3> HIDE DEF new
    <3> QED
      BY <3>2, <3>3 DEF Guests
  <2> QED
    BY <1>1, <1>6, <2>2 DEF CreateUser, UpdateLogin
<1>7. ASSUME NEW t \in tokens, RefreshToken(t) PROVE Guests' \subseteq Guests
  <2>1. CASE t.guest /\ Issue({"access"}, t.id, t.name, TRUE)
    <3>1. t.id \in Users /\ t.name \in Names \cup {NoName}
      BY DEF TypeOK, Token
    <3>2. <<t.id, t.name>> \in Guests
      BY <2>1 DEF Guests
    <3>3. {"access"} \in SUBSET Pair /\ TRUE \in BOOLEAN /\ Issue({"access"}, t.id, t.name, TRUE)
      BY <1>4, <2>1
    <3>4. \A x \in Guests' : x \in Guests \/ (TRUE /\ x = <<t.id, t.name>>)
      BY <3>1, <3>3, GuestsTold
    <3> QED
      BY <3>2, <3>4
  <2> QED
    BY <1>2, <1>3, <1>4, <1>7, <2>1 DEF RefreshToken, ById
<1>8. ASSUME NEW c \in Calls, NEW e \in Emails, NEW p \in Passwords,
             Register(c, e, p) \/ ConvertGuest(c, e, p) \/ Login(c, e, p)
      PROVE  UNCHANGED tokens
  BY <1>8 DEF Register, ConvertGuest, FindFree, Login
<1>9. ASSUME NEW c \in Calls,
             \/ \E e \in Emails : ForgotPassword(c, e)
             \/ \E n \in GuestNames : DrawGuestName(c, n)
             \/ \E t \in tokens, w \in Typed : SetUsername(c, t, w)
             \/ \E r \in mailed, p \in Passwords : ResetPassword(c, r, p)
      PROVE  UNCHANGED tokens
  BY <1>9 DEF ForgotPassword, RequestPasswordReset, DrawGuestName, SetUsername, ResetPassword
<1>10. ASSUME (\E n \in GuestNames : GuestKeyExpires(n)) \/ (\E r \in Calls : ResetKeyExpires(r))
       PROVE  UNCHANGED tokens
  BY <1>10 DEF GuestKeyExpires, ResetKeyExpires
<1>11. ASSUME NEW c \in Calls, CallStep(c) PROVE Guests' \subseteq Guests
  <2>1. CASE LookupGuestName(c) \/ CheckGuestName(c) \/ StoreResetToken(c) \/ SendPasswordResetEmail(c)
             \/ DeleteToken(c) \/ UpdateUsername(c) \/ UpdatePassword(c)
    BY <1>1, <2>1 DEF LookupGuestName, CheckGuestName, StoreResetToken, SendPasswordResetEmail, DeleteToken,
         UpdateUsername, UpdatePassword
  <2> QED
    BY <1>6, <1>11, <2>1 DEF CallStep
<1>12. CASE UNCHANGED vars
  BY <1>1, <1>12 DEF vars
<1> QED
  BY <1>1, <1>5, <1>7, <1>8, <1>9, <1>10, <1>11, <1>12 DEF Next

\* The name of a guest has its key, or is contested; it is contested too if another
\* request has found it free.
GuestInv ==
  /\ \A x \in Guests : x[2] \in guestKey \cup contested
  /\ \A x \in Guests, c \in Calls : Drawing(c, x[2]) => x[2] \in contested
  /\ \A x, y \in Guests : x[2] = y[2] => x[1] = y[1] \/ x[2] \in contested

LEMMA GuestInvHolds == AuthInv /\ GuestInv /\ [Next]_vars => GuestInv'
<1> SUFFICES ASSUME AuthInv, GuestInv, [Next]_vars PROVE GuestInv'
  OBVIOUS
<1>1. TypeOK /\ \A x \in Guests : x[2] \in GuestNames
  <2>1. \A x \in Guests : \E t \in tokens : t.guest /\ x[2] = t.name
    BY DEF Guests
  <2> QED
    BY <2>1 DEF AuthInv, NamesHold
<1>2. \A c \in Calls, n \in GuestNames : Drew(c, n)
  BY <1>1, NamesDrawn
<1>3. CASE Guests' \subseteq Guests /\ UNCHANGED <<guestKey, contested>>
  BY <1>1, <1>2, <1>3 DEF GuestInv, Drew
<1>4. ASSUME NEW n \in GuestNames, GuestKeyExpires(n) PROVE GuestInv'
  <2>1. Guests' = Guests /\ \A c \in Calls, m \in GuestNames : Drawing(c, m)' => Drawing(c, m)
    BY <1>4 DEF GuestKeyExpires, Guests, Drawing, In
  <2> QED
    BY <1>1, <1>4, <2>1 DEF GuestInv, GuestKeyExpires
<1>5. ASSUME NEW c \in Calls, CreateGuest(c) PROVE GuestInv'
  <2> DEFINE n == call[c].name
  <2>1. n \in GuestNames /\ Drawing(c, n) /\ c \in Users /\ n \in Names
    BY <1>5, AuthAssumption DEF AuthInv, CallHolds, CreateGuest, Drawing, Users
  <2>2. \A x \in Guests' : x \in Guests \/ x = <<c, n>>
    <3>1. Pair \in SUBSET Pair /\ TRUE \in BOOLEAN /\ Issue(Pair, c, n, TRUE)
      BY <1>5 DEF CreateGuest
    <3> QED
      BY <1>1, <2>1, <3>1, GuestsTold
  <2>3. \A d \in Calls, m \in GuestNames : Drawing(d, m)' => Drawing(d, m) /\ d # c
    <3>1. Moved(c, At("done")) /\ At("done").step = "done"
      BY <1>1, <1>5, Moves DEF CreateGuest, At
    <3> QED
      BY <3>1 DEF Moved, Drawing, In
  <2>4. /\ guestKey \subseteq guestKey' /\ contested \subseteq contested'
        /\ n \in guestKey' \cup contested'
        /\ \A d \in Calls \ {c} : Drawing(d, n) => n \in contested'
    BY <1>5 DEF CreateGuest
  <2>5. \A x \in Guests : x[2] = n => n \in contested
    BY <2>1 DEF GuestInv
  <2> HIDE DEF n
  <2>6. <<c, n>>[1] = c /\ <<c, n>>[2] = n
    OBVIOUS
  <2>7. \A x \in Guests' : x[2] \in guestKey' \cup contested'
    BY <2>2, <2>4, <2>6 DEF GuestInv
  <2>8. \A x \in Guests', d \in Calls : Drawing(d, x[2])' => x[2] \in contested'
    BY <1>1, <2>1, <2>2, <2>3, <2>4, <2>6 DEF GuestInv
  <2>9. \A x, y \in Guests' : x[2] = y[2] => x[1] = y[1] \/ x[2] \in contested'
    BY <2>2, <2>4, <2>5, <2>6 DEF GuestInv
  <2> QED
    BY <2>7, <2>8, <2>9 DEF GuestInv
<1>6. CASE \A c \in Calls : ~CreateGuest(c)
  <2>1. Guests' \subseteq Guests
    BY <1>1, <1>6, GuestsKept
  <2>2. UNCHANGED <<guestKey, contested>> \/ \E n \in GuestNames : GuestKeyExpires(n)
    <3>1. ASSUME NEW c \in Calls, NEW e \in Emails, NEW p \in Passwords,
                 Register(c, e, p) \/ ConvertGuest(c, e, p) \/ Login(c, e, p)
          PROVE  UNCHANGED <<guestKey, contested>>
      BY <3>1 DEF Register, ConvertGuest, FindFree, Login
    <3>2. ASSUME NEW c \in Calls, NEW e \in Emails, CreateOrGetOAuthUser(c, e) \/ ForgotPassword(c, e)
          PROVE  UNCHANGED <<guestKey, contested>>
      BY <3>2 DEF CreateOrGetOAuthUser, ForgotPassword, RequestPasswordReset
    <3>3. ASSUME NEW c \in Calls,
                 \/ \E n \in GuestNames : DrawGuestName(c, n)
                 \/ \E t \in tokens, w \in Typed : SetUsername(c, t, w)
                 \/ \E r \in mailed, p \in Passwords : ResetPassword(c, r, p)
          PROVE  UNCHANGED <<guestKey, contested>>
      BY <3>3 DEF DrawGuestName, SetUsername, ResetPassword
    <3>4. ASSUME NEW c \in Calls, CallStep(c) PROVE UNCHANGED <<guestKey, contested>>
      BY <1>6, <3>4 DEF CallStep, CreateUser, UpdateLogin, LookupGuestName, CheckGuestName, UpdateUsername,
           StoreResetToken, SendPasswordResetEmail, UpdatePassword, DeleteToken
    <3>5. ASSUME \/ \E t \in tokens : RefreshToken(t)
                 \/ \E r \in Calls : ResetKeyExpires(r)
                 \/ UNCHANGED vars
          PROVE  UNCHANGED <<guestKey, contested>>
      BY <3>5 DEF RefreshToken, ResetKeyExpires, vars
    <3> QED
      BY <3>1, <3>2, <3>3, <3>4, <3>5 DEF Next
  <2> QED
    BY <1>3, <1>4, <2>1, <2>2
<1> QED
  BY <1>5, <1>6

\* No account shares its name with an account or a guest, whatever requests race or
\* fail; guests share one only if its key was lost or two requests found it free.
THEOREM NamesKeptApart == Spec => []NamesAreKeptApart
<1>1. Registry!OwnersAreUnique /\ AuthInv /\ GuestInv => NamesAreKeptApart
  <2> SUFFICES ASSUME Registry!OwnersAreUnique, AuthInv, GuestInv PROVE NamesAreKeptApart
    OBVIOUS
  <2>1. ASSUME NEW u \in Rows, NEW v \in Rows, row[u].name = row[v].name, row[u].name # NoName PROVE u = v
    BY <2>1 DEF Registry!OwnersAreUnique, Registry!Opened, Rows
  <2>2. ASSUME NEW u \in Rows, NEW t \in tokens, t.guest PROVE t.name # row[u].name
    <3>1. t.name \in GuestNames /\ t.name # NoName
      BY <2>2, AuthAssumption DEF AuthInv, NamesHold
    <3>2. Length[t.name] \in 12..14
      BY <3>1, AuthAssumption
    <3>3. row[u].name # NoName => Length[row[u].name] \in 3..10
      BY DEF AuthInv, NamesHold, ValidateUsername
    <3>4. \A n \in 3..10 : n \notin 12..14
      OBVIOUS
    <3> QED
      BY <3>1, <3>2, <3>3, <3>4
  <2>3. ASSUME NEW s \in tokens, NEW t \in tokens, s.guest, t.guest, s.name = t.name
        PROVE  s.id = t.id \/ s.name \in contested
    <3> DEFINE x == <<s.id, s.name>>  y == <<t.id, t.name>>
    <3>1. x \in Guests /\ y \in Guests
      BY <2>3 DEF Guests
    <3>2. x[1] = s.id /\ x[2] = s.name /\ y[1] = t.id /\ y[2] = t.name
      OBVIOUS
    <3> HIDE DEF x, y
    <3> QED
      BY <2>3, <3>1, <3>2 DEF GuestInv
  <2> QED
    BY <2>1, <2>2, <2>3 DEF NamesAreKeptApart
<1>2. Init => GuestInv
  BY DEF Init, Guests, GuestInv
<1> QED
  BY <1>1, <1>2, RegistrySafe, InitHolds, StepHolds, GuestInvHolds, PTL DEF Spec
=============================================================================
