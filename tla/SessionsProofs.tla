---------------------------- MODULE SessionsProofs ----------------------------
(* What holds of Sessions for every set of people, tokens and requests. *)
EXTENDS Sessions, FiniteSetTheorems, TLAPS

UserRows == [Users -> [status : AccountStatus, password : BOOLEAN, google : BOOLEAN]]
TokenRows == [Tokens -> [status : TokenStatus, user : Users \cup {None},
                         from : Tokens \cup {None}]]

TokenPcs == {"checkUser", "rotate", "logout"}
AccountPcs == {"link", "issue", "suspend", "revokeAll", "reactivate"}

\* The rows a continuation names have been inserted.
NamesRows(cont) ==
    /\ cont.pc \in TokenPcs => tokens[cont.token].status # "ABSENT"
    /\ cont.pc \in AccountPcs => users[cont.user].status # "ABSENT"

TokensOwned ==
    \A t \in Tokens : tokens[t].status # "ABSENT" =>
        tokens[t].user \in Users /\ users[tokens[t].user].status # "ABSENT"

RowsExist == TokensOwned /\ \A r \in Requests : NamesRows(req[r])

\* Rows are inserted and changed, and neither forgotten nor left without an owner.
RowsGrow ==
    /\ users' \in UserRows /\ tokens' \in TokenRows
    /\ \A u \in Users : users[u].status # "ABSENT" => users'[u].status # "ABSENT"
    /\ \A t \in Tokens : tokens[t].status # "ABSENT" => tokens'[t].status # "ABSENT"
    /\ TokensOwned'

-------------------------------------------------------------------------------
(* Continuations *)

LEMMA ContinuationType ==
    ASSUME TypeOK, NEW r \in Requests
    PROVE  /\ req[r].pc \in UserPcs \cup {"issue"} => req[r].user \in Users
           /\ req[r].pc \in TokenPcs => req[r].token \in Tokens
           /\ req[r].pc = "issue" => req[r].from \in Tokens \cup {None}
<1>1. req[r] \in Continuations
  BY DEF TypeOK
<1> QED
  BY <1>1 DEF Continuations, Idle, UserPcs, TokenPcs

LEMMA ContinuationsContain ==
    /\ Idle \in Continuations
    /\ \A u \in Users, pc \in UserPcs : [pc |-> pc, user |-> u] \in Continuations
    /\ \A t \in Tokens, pc \in TokenPcs : [pc |-> pc, token |-> t] \in Continuations
    /\ \A u \in Users, t \in Tokens \cup {None} :
          [pc |-> "issue", user |-> u, from |-> t] \in Continuations
  BY DEF Continuations, TokenPcs

LEMMA BecomesType ==
    ASSUME TypeOK, NEW r \in Requests, NEW cont \in Continuations, Becomes(r, cont)
    PROVE  /\ req' \in [Requests -> Continuations]
           /\ req'[r] = cont
           /\ \A s \in Requests \ {r} : req'[s] = req[s]
  BY DEF TypeOK, Becomes

\* One request moves on, to a continuation whose rows exist.
LEMMA MovesOn ==
    ASSUME TypeOK, RowsExist, RowsGrow,
           NEW r \in Requests, NEW cont \in Continuations, Becomes(r, cont),
           NamesRows(cont)'
    PROVE  req' \in [Requests -> Continuations] /\ RowsExist'
<1>1. /\ req' \in [Requests -> Continuations]
      /\ req'[r] = cont
      /\ \A s \in Requests \ {r} : req'[s] = req[s]
  BY BecomesType
<1>2. ASSUME NEW s \in Requests PROVE NamesRows(req[s])'
  <2>1. CASE s = r
    BY <1>1, <2>1 DEF NamesRows
  <2>2. CASE s # r
    <3>1. NamesRows(req[s]) /\ req'[s] = req[s]
      BY <1>1, <2>2 DEF RowsExist
    <3>2. /\ req[s].pc \in TokenPcs => req[s].token \in Tokens
          /\ req[s].pc \in AccountPcs => req[s].user \in Users
      BY ContinuationType DEF AccountPcs, UserPcs
    <3> QED
      BY <3>1, <3>2 DEF NamesRows, RowsGrow
  <2> QED
    BY <2>1, <2>2
<1> QED
  BY <1>1, <1>2 DEF RowsExist, RowsGrow

\* A step that leaves the rows alone.
LEMMA RowsKept ==
    ASSUME TypeOK, RowsExist, UNCHANGED <<users, tokens>>
    PROVE  RowsGrow
  BY DEF TypeOK, RowsExist, RowsGrow, TokensOwned, UserRows, TokenRows

-------------------------------------------------------------------------------
(* Rows *)

LEMMA CreateRow ==
    ASSUME TypeOK, RowsExist, NEW u \in Users, NEW b \in BOOLEAN, Create(u, b),
           UNCHANGED tokens
    PROVE  RowsGrow /\ users'[u].status = "ACTIVE"
<1>1. users' \in UserRows
  BY DEF TypeOK, Create, UserRows, AccountStatus
<1>2. \A v \in Users : users'[v].status = IF v = u THEN "ACTIVE" ELSE users[v].status
  BY DEF TypeOK, Create
<1> QED
  BY <1>1, <1>2 DEF TypeOK, RowsExist, RowsGrow, TokensOwned, TokenRows

LEMMA StatusRow ==
    ASSUME TypeOK, RowsExist, NEW u \in Users, NEW s \in AccountStatus \ {"ABSENT"},
           SetStatus(u, s), UNCHANGED tokens
    PROVE  /\ RowsGrow
           /\ users'[u].status = s
           /\ \A v \in Users \ {u} : users'[v] = users[v]
<1>1. users' = [users EXCEPT ![u] = [users[u] EXCEPT !.status = s]]
  BY DEF SetStatus
<1>2. [users[u] EXCEPT !.status = s]
         \in [status : AccountStatus, password : BOOLEAN, google : BOOLEAN]
  BY DEF TypeOK
<1>3. users' \in UserRows
  BY <1>1, <1>2 DEF TypeOK, UserRows
<1>4. \A v \in Users : users'[v].status = IF v = u THEN s ELSE users[v].status
  BY <1>1 DEF TypeOK
<1>5. \A v \in Users \ {u} : users'[v] = users[v]
  BY <1>1 DEF TypeOK
<1> QED
  BY <1>3, <1>4, <1>5 DEF TypeOK, RowsExist, RowsGrow, TokensOwned, TokenRows

\* Revocation and deletion: some rows get another status.
LEMMA TokensRestamped ==
    ASSUME TypeOK, RowsExist, UNCHANGED users,
           NEW T \in SUBSET Tokens, NEW s \in TokenStatus \ {"ABSENT"},
           tokens' = [t \in Tokens |->
               IF t \in T THEN [tokens[t] EXCEPT !.status = s] ELSE tokens[t]],
           \A t \in T : tokens[t].status # "ABSENT"
    PROVE  RowsGrow
<1>1. ASSUME NEW t \in Tokens
      PROVE  /\ tokens'[t] \in [status : TokenStatus, user : Users \cup {None},
                                from : Tokens \cup {None}]
             /\ tokens'[t].user = tokens[t].user
             /\ tokens'[t].status = IF t \in T THEN s ELSE tokens[t].status
  <2>1. tokens[t] \in [status : TokenStatus, user : Users \cup {None},
                       from : Tokens \cup {None}]
    BY DEF TypeOK
  <2>2. CASE t \in T
    <3>1. tokens'[t] = [tokens[t] EXCEPT !.status = s]
      BY <2>2
    <3> QED
      BY <2>1, <2>2, <3>1
  <2>3. CASE t \notin T
    BY <2>1, <2>3
  <2> QED
    BY <2>2, <2>3
<1>2. tokens' \in TokenRows
  BY <1>1 DEF TokenRows
<1> QED
  BY <1>1, <1>2 DEF TypeOK, RowsExist, RowsGrow, TokensOwned, UserRows

-------------------------------------------------------------------------------
(* Type correctness *)

\* What every step but its history keeps.
StepKeeps ==
    /\ RowsGrow
    /\ req' \in [Requests -> Continuations]
    /\ expired' \subseteq Tokens
    /\ RowsExist'

\* A step that reads rows and moves on.
LEMMA ReadStep ==
    ASSUME TypeOK, RowsExist, UNCHANGED <<users, tokens, expired>>,
           NEW r \in Requests, NEW cont \in Continuations, Becomes(r, cont),
           NamesRows(cont)
    PROVE  StepKeeps
<1>1. RowsGrow
  BY RowsKept
<1>2. NamesRows(cont)'
  BY DEF NamesRows
<1> QED
  BY <1>1, <1>2, MovesOn DEF StepKeeps, TypeOK

LEMMA NamesNothing ==
    ASSUME NEW cont, cont.pc \notin TokenPcs \cup AccountPcs
    PROVE  NamesRows(cont) /\ NamesRows(cont)'
  BY DEF NamesRows

LEMMA StartKeeps ==
    ASSUME TypeOK, RowsExist, NEW r \in Requests, NEW u \in Users,
           \/ StartRegister(r, u) \/ Login(r, u) \/ GoogleById(r, u)
           \/ StartSuspend(r, u) \/ StartReactivate(r, u)
    PROVE  StepKeeps
<1> USE ContinuationsContain
<1>1. CASE StartRegister(r, u)
  <2>1. NamesRows([pc |-> "register", user |-> u])
    BY NamesNothing DEF TokenPcs, AccountPcs
  <2> QED
    BY <1>1, <2>1, ReadStep DEF StartRegister, GoesTo, UserPcs
<1>2. CASE Login(r, u) \/ (GoogleById(r, u) /\ users[u].google)
  <2> DEFINE cont == [pc |-> "issue", user |-> u, from |-> None]
  <2>1. cont \in Continuations /\ Becomes(r, cont)
    BY <1>2 DEF Login, GoogleById, Issues
  <2>2. NamesRows(cont)
    BY <1>2 DEF Login, GoogleById, MayEnter, NamesRows, TokenPcs
  <2>3. UNCHANGED <<users, tokens, expired>>
    BY <1>2 DEF Login, GoogleById
  <2> QED
    BY <2>1, <2>2, <2>3, ReadStep
<1>3. CASE GoogleById(r, u) /\ ~users[u].google
  <2>1. NamesRows([pc |-> "byEmail", user |-> u])
    BY NamesNothing DEF TokenPcs, AccountPcs
  <2> QED
    BY <1>3, <2>1, ReadStep DEF GoogleById, GoesTo, UserPcs
<1>4. CASE StartSuspend(r, u)
  <2>1. NamesRows([pc |-> "suspend", user |-> u])
    BY <1>4 DEF StartSuspend, NamesRows, TokenPcs
  <2> QED
    BY <1>4, <2>1, ReadStep DEF StartSuspend, GoesTo, UserPcs
<1>5. CASE StartReactivate(r, u)
  <2>1. NamesRows([pc |-> "reactivate", user |-> u])
    BY <1>5 DEF StartReactivate, NamesRows, TokenPcs
  <2> QED
    BY <1>5, <2>1, ReadStep DEF StartReactivate, GoesTo, UserPcs
<1> QED
  BY <1>1, <1>2, <1>3, <1>4, <1>5

LEMMA PresentKeeps ==
    ASSUME TypeOK, RowsExist, NEW r \in Requests, NEW t \in Tokens,
           StartRefresh(r, t) \/ \E u \in Users : StartLogout(r, u, t)
    PROVE  StepKeeps
<1>1. tokens[t].status # "ABSENT"
  BY DEF StartRefresh, StartLogout, Verifies, HasRow
<1>2. tokens[t].user \in Users /\ users[tokens[t].user].status # "ABSENT"
  BY <1>1 DEF RowsExist, TokensOwned
<1>3. UNCHANGED <<users, tokens, expired>>
  BY DEF StartRefresh, StartLogout
<1>4. CASE \E pc \in {"checkUser", "logout"} : Presents(r, pc, t)
  <2>1. PICK pc \in {"checkUser", "logout"} : Presents(r, pc, t)
    BY <1>4
  <2> DEFINE cont == [pc |-> pc, token |-> t]
  <2>2. cont \in Continuations /\ Becomes(r, cont)
    BY <2>1, ContinuationsContain DEF Presents, TokenPcs
  <2>3. NamesRows(cont)
    BY <1>1 DEF NamesRows, AccountPcs
  <2> QED
    BY <1>3, <2>2, <2>3, ReadStep
<1>5. CASE GoesTo(r, "revokeAll", tokens[t].user)
  <2> DEFINE cont == [pc |-> "revokeAll", user |-> tokens[t].user]
  <2>1. cont \in Continuations /\ Becomes(r, cont)
    BY <1>2, <1>5, ContinuationsContain DEF GoesTo, UserPcs
  <2>2. NamesRows(cont)
    BY <1>2 DEF NamesRows, TokenPcs
  <2> QED
    BY <1>3, <2>1, <2>2, ReadStep
<1> QED
  BY <1>4, <1>5 DEF StartRefresh, StartLogout

\* A handler that ends changes nothing more.
LEMMA EndKeeps ==
    ASSUME TypeOK, RowsExist, NEW r \in Requests, Becomes(r, Idle),
           UNCHANGED <<users, tokens, expired>>
    PROVE  StepKeeps
<1>1. NamesRows(Idle)
  BY NamesNothing DEF Idle, TokenPcs, AccountPcs
<1> QED
  BY <1>1, ReadStep, ContinuationsContain

\* The same where rows were written.
LEMMA WriteStep ==
    ASSUME TypeOK, RowsExist, RowsGrow, UNCHANGED expired,
           NEW r \in Requests, NEW cont \in Continuations, Becomes(r, cont),
           NamesRows(cont)'
    PROVE  StepKeeps
  BY MovesOn DEF StepKeeps, TypeOK

LEMMA AccountKeeps ==
    ASSUME TypeOK, RowsExist, NEW r \in Requests,
           \/ RegisterRow(r) \/ GoogleLink(r) \/ GoogleSignUp(r)
           \/ \E verified \in BOOLEAN : GoogleByEmail(r, verified)
           \/ SuspendRow(r) \/ ReactivateRow(r)
    PROVE  StepKeeps
<1> USE ContinuationsContain
<1>0. PICK u \in Users : req[r].user = u
  BY ContinuationType DEF At, RegisterRow, GoogleLink, GoogleSignUp, GoogleByEmail,
                          SuspendRow, ReactivateRow, UserPcs
<1>i. NamesRows(Idle)'
  BY NamesNothing DEF Idle, TokenPcs, AccountPcs
<1>1. CASE RegisterRow(r)
  <2>1. CASE users[u].status = "ABSENT"
    <3>1. RowsGrow
      BY <1>0, <1>1, <2>1, CreateRow DEF RegisterRow
    <3> QED
      BY <1>0, <1>i, <1>1, <3>1, WriteStep DEF RegisterRow
  <2>2. CASE users[u].status # "ABSENT"
    BY <1>0, <1>1, <2>2, EndKeeps DEF RegisterRow
  <2> QED
    BY <2>1, <2>2
<1>2. CASE GoogleLink(r)
  <2> DEFINE cont == [pc |-> "issue", user |-> u, from |-> None]
  <2>1. cont \in Continuations /\ Becomes(r, cont) /\ UNCHANGED <<tokens, expired>>
    BY <1>0, <1>2 DEF GoogleLink, Issues
  <2>2. users' = [users EXCEPT ![u] = [users[u] EXCEPT !.google = TRUE]]
    BY <1>0, <1>2 DEF GoogleLink
  <2>3. [users[u] EXCEPT !.google = TRUE]
           \in [status : AccountStatus, password : BOOLEAN, google : BOOLEAN]
    BY <1>0 DEF TypeOK
  <2>4. [users[u] EXCEPT !.google = TRUE].status = users[u].status
    BY <1>0 DEF TypeOK
  <2>5. users' \in UserRows
    BY <1>0, <2>2, <2>3 DEF TypeOK, UserRows
  <2>6. \A v \in Users : users'[v].status = users[v].status
    BY <1>0, <2>2, <2>4 DEF TypeOK
  <2>7. RowsGrow
    BY <2>1, <2>5, <2>6 DEF TypeOK, RowsExist, RowsGrow, TokensOwned, TokenRows
  <2>8. users[u].status # "ABSENT"
    BY <1>0, <1>2 DEF GoogleLink, At, RowsExist, NamesRows, AccountPcs
  <2>9. NamesRows(cont)'
    BY <1>0, <2>6, <2>8 DEF NamesRows, TokenPcs
  <2> QED
    BY <2>1, <2>7, <2>9, WriteStep
<1>3. CASE GoogleSignUp(r) /\ users[u].status = "ABSENT"
  <2> DEFINE cont == [pc |-> "issue", user |-> u, from |-> None]
  <2>1. cont \in Continuations /\ Becomes(r, cont) /\ UNCHANGED <<tokens, expired>>
    BY <1>0, <1>3 DEF GoogleSignUp, Issues
  <2>2. RowsGrow /\ users'[u].status = "ACTIVE"
    BY <1>0, <1>3, <2>1, CreateRow DEF GoogleSignUp
  <2>3. NamesRows(cont)'
    BY <2>2 DEF NamesRows, TokenPcs
  <2> QED
    BY <2>1, <2>2, <2>3, WriteStep
<1>4. CASE GoogleSignUp(r) /\ users[u].status # "ABSENT"
  BY <1>0, <1>4, EndKeeps DEF GoogleSignUp
<1>5. ASSUME NEW verified \in BOOLEAN, GoogleByEmail(r, verified) PROVE StepKeeps
  <2>1. UNCHANGED <<users, tokens, expired>>
    BY <1>0, <1>5 DEF GoogleByEmail
  <2>2. CASE users[u].status = "ABSENT" /\ GoesTo(r, "signUp", u)
    <3>1. NamesRows([pc |-> "signUp", user |-> u])
      BY NamesNothing DEF TokenPcs, AccountPcs
    <3> QED
      BY <1>0, <2>1, <2>2, <3>1, ReadStep DEF GoesTo, UserPcs
  <2>3. CASE users[u].status # "ABSENT" /\ GoesTo(r, "link", u)
    <3>1. NamesRows([pc |-> "link", user |-> u])
      BY <2>3 DEF NamesRows, TokenPcs
    <3> QED
      BY <1>0, <2>1, <2>3, <3>1, ReadStep DEF GoesTo, UserPcs
  <2>4. CASE Becomes(r, Idle)
    BY <2>1, <2>4, EndKeeps
  <2> QED
    BY <1>0, <1>5, <2>2, <2>3, <2>4 DEF GoogleByEmail
<1>6. CASE SuspendRow(r)
  <2> DEFINE cont == [pc |-> "revokeAll", user |-> u]
  <2>1. cont \in Continuations /\ Becomes(r, cont) /\ UNCHANGED <<tokens, expired>>
    BY <1>0, <1>6 DEF SuspendRow, GoesTo, UserPcs
  <2>2. RowsGrow /\ users'[u].status = "SUSPENDED"
    BY <1>0, <1>6, <2>1, StatusRow DEF SuspendRow, AccountStatus
  <2>3. NamesRows(cont)'
    BY <2>2 DEF NamesRows, TokenPcs
  <2> QED
    BY <2>1, <2>2, <2>3, WriteStep
<1>7. CASE ReactivateRow(r)
  <2>1. RowsGrow
    BY <1>0, <1>7, StatusRow DEF ReactivateRow, AccountStatus
  <2> QED
    BY <1>0, <1>i, <1>7, <2>1, WriteStep DEF ReactivateRow
<1> QED
  BY <1>0, <1>1, <1>2, <1>3, <1>4, <1>5, <1>6, <1>7

LEMMA TokenKeeps ==
    ASSUME TypeOK, RowsExist, NEW r \in Requests,
           \/ Issue(r) \/ OutOfIds(r) \/ RefreshUser(r) \/ Rotate(r)
           \/ RevokeAll(r) \/ LogoutRow(r) \/ Abort(r)
    PROVE  StepKeeps
<1> USE ContinuationsContain
<1>i. NamesRows(Idle)'
  BY NamesNothing DEF Idle, TokenPcs, AccountPcs
<1>1. CASE Issue(r)
  <2>1. PICK u \in Users, from \in Tokens \cup {None} : req[r].user = u /\ req[r].from = from
    BY <1>1, ContinuationType DEF Issue, At
  <2>2. users[u].status # "ABSENT"
    BY <1>1, <2>1 DEF Issue, At, RowsExist, NamesRows, AccountPcs
  <2>3. PICK t \in Tokens :
           /\ tokens[t].status = "ABSENT"
           /\ tokens' = [tokens EXCEPT ![t] = [status |-> "LIVE", user |-> u, from |-> from]]
    BY <1>1, <2>1 DEF Issue
  <2>4. tokens' \in TokenRows
    BY <2>3 DEF TypeOK, TokenRows, TokenStatus
  <2>5. TokensOwned'
    BY <1>1, <2>2, <2>3 DEF Issue, TypeOK, RowsExist, TokensOwned
  <2>6. RowsGrow
    BY <1>1, <2>3, <2>4, <2>5 DEF Issue, TypeOK, RowsGrow, UserRows
  <2> QED
    BY <1>i, <1>1, <2>6, WriteStep DEF Issue
<1>2. CASE OutOfIds(r) \/ Abort(r)
  BY <1>2, EndKeeps DEF OutOfIds, Abort
<1>3. CASE RefreshUser(r) /\ Presents(r, "rotate", req[r].token)
  <2>1. PICK t \in Tokens : req[r].token = t
    BY <1>3, ContinuationType DEF RefreshUser, At, TokenPcs
  <2> DEFINE cont == [pc |-> "rotate", token |-> t]
  <2>2. cont \in Continuations /\ Becomes(r, cont) /\ UNCHANGED <<users, tokens, expired>>
    BY <1>3, <2>1 DEF RefreshUser, Presents, TokenPcs
  <2>3. tokens[t].status # "ABSENT"
    BY <1>3, <2>1 DEF RefreshUser, At, RowsExist, NamesRows, TokenPcs
  <2>4. NamesRows(cont)
    BY <2>3 DEF NamesRows, AccountPcs
  <2> QED
    BY <2>2, <2>4, ReadStep
<1>4. CASE RefreshUser(r) /\ Becomes(r, Idle)
  BY <1>4, EndKeeps DEF RefreshUser
<1>5. CASE Rotate(r) /\ tokens[req[r].token].status # "DELETED"
  <2>1. PICK t \in Tokens : req[r].token = t
    BY <1>5, ContinuationType DEF Rotate, At, TokenPcs
  <2>2. tokens[t].status # "ABSENT"
    BY <1>5, <2>1 DEF Rotate, At, RowsExist, NamesRows, TokenPcs
  <2>3. PICK u \in Users : tokens[t].user = u /\ users[u].status # "ABSENT"
    BY <2>2 DEF RowsExist, TokensOwned
  <2> DEFINE cont == [pc |-> "issue", user |-> u, from |-> t]
  <2>4. /\ cont \in Continuations /\ Becomes(r, cont)
        /\ Revoke({t}) /\ UNCHANGED <<users, expired>>
    BY <1>5, <2>1, <2>3 DEF Rotate, Issues
  <2>5. RowsGrow
    <3>1. PICK T \in SUBSET Tokens : T = {t}
      OBVIOUS
    <3>2. tokens' = [s \in Tokens |->
              IF s \in T THEN [tokens[s] EXCEPT !.status = "REVOKED"] ELSE tokens[s]]
      BY <2>4, <3>1 DEF Revoke
    <3> QED
      BY <2>2, <2>4, <3>1, <3>2, TokensRestamped DEF TokenStatus
  <2>6. NamesRows(cont)'
    BY <2>3, <2>4 DEF NamesRows, TokenPcs
  <2> QED
    BY <2>4, <2>5, <2>6, WriteStep
<1>6. CASE Rotate(r) /\ tokens[req[r].token].status = "DELETED"
  BY <1>6, EndKeeps DEF Rotate
<1>7. CASE RevokeAll(r)
  <2>1. PICK T \in SUBSET Tokens : T = LiveOf(req[r].user)
    BY DEF LiveOf
  <2>2. /\ UNCHANGED users
        /\ tokens' = [t \in Tokens |->
              IF t \in T THEN [tokens[t] EXCEPT !.status = "REVOKED"] ELSE tokens[t]]
    BY <1>7, <2>1 DEF RevokeAll, Revoke
  <2>3. \A t \in T : tokens[t].status # "ABSENT"
    BY <2>1 DEF LiveOf
  <2>4. RowsGrow
    BY <2>2, <2>3, TokensRestamped DEF TokenStatus
  <2> QED
    BY <1>i, <1>7, <2>4, WriteStep DEF RevokeAll
<1>8. CASE LogoutRow(r)
  <2>1. PICK T \in SUBSET Tokens :
           T = {req[r].token} \cap {t \in Tokens : tokens[t].status = "LIVE"}
    OBVIOUS
  <2>2. /\ UNCHANGED users
        /\ tokens' = [t \in Tokens |->
              IF t \in T THEN [tokens[t] EXCEPT !.status = "REVOKED"] ELSE tokens[t]]
    BY <1>8, <2>1 DEF LogoutRow, Revoke
  <2>3. RowsGrow
    BY <2>1, <2>2, TokensRestamped DEF TokenStatus
  <2> QED
    BY <1>i, <1>8, <2>3, WriteStep DEF LogoutRow
<1> QED
  BY <1>1, <1>2, <1>3, <1>4, <1>5, <1>6, <1>7, <1>8 DEF RefreshUser, Rotate

LEMMA TimeKeeps ==
    ASSUME TypeOK, RowsExist, (\E t \in Tokens : Expire(t)) \/ CleanupStaleRefreshTokens
    PROVE  StepKeeps
<1>1. CASE \E t \in Tokens : Expire(t)
  <2>1. UNCHANGED <<users, tokens, req>> /\ expired' \subseteq Tokens
    BY <1>1 DEF Expire, TypeOK
  <2>2. RowsGrow
    BY <2>1, RowsKept
  <2> QED
    BY <2>1, <2>2 DEF StepKeeps, TypeOK, RowsExist, TokensOwned, NamesRows
<1>2. CASE CleanupStaleRefreshTokens
  <2>1. PICK T \in SUBSET Tokens : T = Stale
    BY DEF Stale
  <2>2. /\ UNCHANGED <<users, req>> /\ expired' \subseteq Tokens
        /\ tokens' = [t \in Tokens |->
              IF t \in T THEN [tokens[t] EXCEPT !.status = "DELETED"] ELSE tokens[t]]
    BY <1>2, <2>1 DEF CleanupStaleRefreshTokens, TypeOK
  <2>3. \A t \in T : tokens[t].status # "ABSENT"
    BY <2>1 DEF Stale, HasRow
  <2>4. RowsGrow
    BY <2>2, <2>3, TokensRestamped DEF TokenStatus
  <2>5. ASSUME NEW r \in Requests PROVE NamesRows(req[r])'
    <3>1. /\ req[r].pc \in TokenPcs => req[r].token \in Tokens
          /\ req[r].pc \in AccountPcs => req[r].user \in Users
      BY ContinuationType DEF AccountPcs, UserPcs
    <3> QED
      BY <2>2, <2>4, <3>1 DEF RowsExist, NamesRows, RowsGrow
  <2> QED
    BY <2>2, <2>4, <2>5 DEF StepKeeps, RowsExist, RowsGrow, TypeOK
<1> QED
  BY <1>1, <1>2

LEMMA EveryStepKeeps == TypeOK /\ RowsExist /\ Step => StepKeeps
<1> SUFFICES ASSUME TypeOK, RowsExist, Step PROVE StepKeeps
  OBVIOUS
<1>1. ASSUME NEW r \in Requests, Handle(r) PROVE StepKeeps
  BY <1>1, StartKeeps, PresentKeeps, AccountKeeps, TokenKeeps DEF Handle
<1> QED
  BY <1>1, TimeKeeps DEF Step

LEMMA ObserveType ==
    ASSUME TypeOK, Observe
    PROVE  ended' \cup contested' \cup missed' \subseteq Tokens /\ overtaken' \subseteq Requests
  BY DEF TypeOK, Observe

LEMMA TypeStep == TypeOK /\ RowsExist /\ [Next]_vars => TypeOK' /\ RowsExist'
<1> SUFFICES ASSUME TypeOK, RowsExist, [Next]_vars PROVE TypeOK' /\ RowsExist'
  OBVIOUS
<1>1. CASE Next
  <2>1. StepKeeps
    BY <1>1, EveryStepKeeps DEF Next
  <2>2. ended' \cup contested' \cup missed' \subseteq Tokens /\ overtaken' \subseteq Requests
    BY <1>1, ObserveType DEF Next
  <2> QED
    BY <2>1, <2>2 DEF StepKeeps, RowsGrow, UserRows, TokenRows, TypeOK
<1>2. CASE UNCHANGED vars
  BY <1>2 DEF vars, history, TypeOK, RowsExist, TokensOwned, NamesRows
<1> QED
  BY <1>1, <1>2

LEMMA TypeInit == Init => TypeOK /\ RowsExist
  BY ContinuationsContain
     DEF Init, TypeOK, RowsExist, TokensOwned, NamesRows, AccountStatus, TokenStatus,
         Idle, TokenPcs, AccountPcs

\* Every account, token and continuation keeps its type, and no continuation names a
\* row that was never inserted.
THEOREM TypeCorrect == Spec => [](TypeOK /\ RowsExist)
<1> QED
  BY TypeInit, TypeStep, PTL DEF Spec

-------------------------------------------------------------------------------
(* Suspended accounts *)

\* The status of an account changes to ACTIVE, or to SUSPENDED by a request that
\* goes on to revoke the account's tokens.
AccountStep ==
    \A u \in Users :
        \/ users'[u].status = users[u].status
        \/ users'[u].status = "ACTIVE"
        \/ /\ users[u].status # "ABSENT"
           /\ users'[u].status = "SUSPENDED"
           /\ \E r \in Requests : req'[r] = [pc |-> "revokeAll", user |-> u]

\* A token has one owner, and becomes live only when a request issues it.
TokenStep ==
    \A t \in Tokens :
        /\ tokens[t].status # "ABSENT" => tokens'[t].user = tokens[t].user
        /\ tokens'[t].status = "LIVE" /\ tokens[t].status # "LIVE" =>
              \E r \in Requests : At(r, "issue") /\ Moves(r) /\ tokens'[t].user = req[r].user

\* A request that revokes an account's tokens does so, or dies and changes nothing.
RevocationStep ==
    \A r \in Requests, u \in Users : At(r, "revokeAll") /\ req[r].user = u =>
        \/ ~Moves(r)
        \/ Moves(r) /\ UNCHANGED tokens
        \/ \A t \in Tokens : ~(tokens'[t].status = "LIVE" /\ tokens'[t].user = u)

\* Who enters an account in this step finds it active.
EntryStep ==
    \A r \in Requests, u \in Users :
        HasEntered(r, u)' => HasEntered(r, u) \/ users'[u].status = "ACTIVE"

LEMMA StepByStep ==
    ASSUME TypeOK, Step
    PROVE  \/ \E r \in Requests : Handle(r) /\ \A s \in Requests \ {r} : req'[s] = req[s]
           \/ UNCHANGED <<users, req>> /\ ((\E t \in Tokens : Expire(t)) \/ CleanupStaleRefreshTokens)
<1>1. ASSUME NEW r \in Requests, Handle(r)
      PROVE  \A s \in Requests \ {r} : req'[s] = req[s]
  <2>1. \E cont : Becomes(r, cont)
    BY <1>1 DEF Handle, StartRegister, Login, GoogleById, StartSuspend, StartReactivate,
         StartLogout, StartRefresh, GoogleByEmail, RegisterRow, GoogleLink, GoogleSignUp,
         Issue, OutOfIds, RefreshUser, Rotate, RevokeAll, LogoutRow, SuspendRow,
         ReactivateRow, Abort, GoesTo, Issues, Presents
  <2> QED
    BY <2>1 DEF Becomes, TypeOK
<1> QED
  BY <1>1 DEF Step, Expire, CleanupStaleRefreshTokens

\* The accounts are written by five steps only.
LEMMA AccountsChange ==
    ASSUME TypeOK, RowsExist, Step PROVE AccountStep
<1>1. ASSUME NEW r \in Requests, RegisterRow(r) \/ GoogleSignUp(r) PROVE AccountStep
  <2>1. PICK u \in Users : req[r].user = u
    BY <1>1, ContinuationType DEF RegisterRow, GoogleSignUp, At, UserPcs
  <2>2. UNCHANGED users \/ \E b \in BOOLEAN : Create(u, b)
    BY <1>1, <2>1 DEF RegisterRow, GoogleSignUp
  <2> QED
    BY <2>2 DEF Create, AccountStep, TypeOK
<1>2. ASSUME NEW r \in Requests, GoogleLink(r) PROVE AccountStep
  <2>1. PICK u \in Users : req[r].user = u
    BY <1>2, ContinuationType DEF GoogleLink, At, UserPcs
  <2>2. users' = [users EXCEPT ![u] = [users[u] EXCEPT !.google = TRUE]]
    BY <1>2, <2>1 DEF GoogleLink
  <2>3. [users[u] EXCEPT !.google = TRUE].status = users[u].status
    BY DEF TypeOK
  <2> QED
    BY <2>2, <2>3 DEF AccountStep, TypeOK
<1>3. ASSUME NEW r \in Requests, ReactivateRow(r) \/ SuspendRow(r) PROVE AccountStep
  <2>1. PICK u \in Users : req[r].user = u
    BY <1>3, ContinuationType DEF ReactivateRow, SuspendRow, At, UserPcs
  <2>2. users[u].status # "ABSENT"
    BY <1>3, <2>1 DEF ReactivateRow, SuspendRow, At, RowsExist, NamesRows, AccountPcs
  <2>3. UNCHANGED tokens
    BY <1>3 DEF ReactivateRow, SuspendRow
  <2>4. CASE ReactivateRow(r)
    <3>1. /\ users'[u].status = "ACTIVE"
          /\ \A v \in Users \ {u} : users'[v] = users[v]
      BY <2>1, <2>3, <2>4, StatusRow DEF ReactivateRow, AccountStatus
    <3> QED
      BY <3>1 DEF AccountStep
  <2>5. CASE SuspendRow(r)
    <3>1. /\ users'[u].status = "SUSPENDED"
          /\ \A v \in Users \ {u} : users'[v] = users[v]
      BY <2>1, <2>3, <2>5, StatusRow DEF SuspendRow, AccountStatus
    <3>2. req'[r] = [pc |-> "revokeAll", user |-> u]
      BY <2>1, <2>5 DEF SuspendRow, GoesTo, Becomes, TypeOK
    <3> QED
      BY <2>2, <3>1, <3>2 DEF AccountStep
  <2> QED
    BY <1>3, <2>4, <2>5
<1>4. CASE UNCHANGED users
  BY <1>4 DEF AccountStep
<1> QED
  BY <1>1, <1>2, <1>3, <1>4 DEF Step, Handle, StartRegister, Login, GoogleById, StartSuspend,
     StartReactivate, StartLogout, StartRefresh, GoogleByEmail, Issue, OutOfIds, RefreshUser,
     Rotate, RevokeAll, LogoutRow, Abort, Expire, CleanupStaleRefreshTokens

\* What a change of status does to one row.
LEMMA Restamped ==
    ASSUME TypeOK, NEW T \in SUBSET Tokens, NEW s \in TokenStatus,
           tokens' = [t \in Tokens |->
               IF t \in T THEN [tokens[t] EXCEPT !.status = s] ELSE tokens[t]]
    PROVE  \A t \in Tokens :
               /\ tokens'[t].user = tokens[t].user /\ tokens'[t].from = tokens[t].from
               /\ tokens'[t].status = IF t \in T THEN s ELSE tokens[t].status
<1> TAKE t \in Tokens
<1>1. tokens[t] \in [status : TokenStatus, user : Users \cup {None},
                     from : Tokens \cup {None}]
  BY DEF TypeOK
<1>2. CASE t \in T
  <2>1. tokens'[t] = [tokens[t] EXCEPT !.status = s]
    BY <1>2
  <2> QED
    BY <1>1, <1>2, <2>1
<1>3. CASE t \notin T
  BY <1>1, <1>3
<1> QED
  BY <1>2, <1>3

LEMMA RevokeRow ==
    ASSUME TypeOK, NEW T, T \subseteq Tokens, Revoke(T)
    PROVE  \A t \in Tokens :
               /\ tokens'[t].user = tokens[t].user /\ tokens'[t].from = tokens[t].from
               /\ tokens'[t].status = IF t \in T THEN "REVOKED" ELSE tokens[t].status
<1>1. PICK U \in SUBSET Tokens : U = T
  OBVIOUS
<1>2. tokens' = [t \in Tokens |->
          IF t \in U THEN [tokens[t] EXCEPT !.status = "REVOKED"] ELSE tokens[t]]
  BY <1>1 DEF Revoke
<1> QED
  BY <1>1, <1>2, Restamped DEF TokenStatus

\* The tokens are written by five steps only.
LEMMA TokensChange ==
    ASSUME TypeOK, RowsExist, Step PROVE TokenStep
<1>1. ASSUME NEW r \in Requests, Issue(r) PROVE TokenStep
  <2>1. PICK t \in Tokens :
           /\ tokens[t].status = "ABSENT"
           /\ tokens' = [tokens EXCEPT ![t] =
                 [status |-> "LIVE", user |-> req[r].user, from |-> req[r].from]]
    BY <1>1 DEF Issue
  <2>2. tokens'[t].user = req[r].user /\ \A s \in Tokens \ {t} : tokens'[s] = tokens[s]
    BY <2>1 DEF TypeOK
  <2>3. Moves(r) /\ At(r, "issue")
    BY <1>1 DEF Issue, Moves, At, Becomes, TypeOK, Idle
  <2> QED
    BY <2>1, <2>2, <2>3 DEF TokenStep
<1>2. ASSUME NEW T \in SUBSET Tokens, Revoke(T) PROVE TokenStep
  BY <1>2, RevokeRow DEF TokenStep
<1>3. CASE CleanupStaleRefreshTokens
  <2>1. PICK T \in SUBSET Tokens : T = Stale
    BY DEF Stale
  <2>2. tokens' = [t \in Tokens |->
            IF t \in T THEN [tokens[t] EXCEPT !.status = "DELETED"] ELSE tokens[t]]
    BY <1>3, <2>1 DEF CleanupStaleRefreshTokens
  <2>3. \A t \in Tokens :
           /\ tokens'[t].user = tokens[t].user
           /\ tokens'[t].status = IF t \in T THEN "DELETED" ELSE tokens[t].status
    BY <2>2, Restamped DEF TokenStatus
  <2> QED
    BY <2>3 DEF TokenStep
<1>4. CASE UNCHANGED tokens
  BY <1>4 DEF TokenStep
<1>5. ASSUME NEW r \in Requests, Rotate(r) \/ RevokeAll(r) \/ LogoutRow(r) PROVE TokenStep
  <2>1. CASE Rotate(r) /\ Revoke({req[r].token})
    <3>1. {req[r].token} \in SUBSET Tokens
      BY <2>1, ContinuationType DEF Rotate, At, TokenPcs
    <3> QED
      BY <1>2, <2>1, <3>1
  <2>2. CASE RevokeAll(r)
    <3>1. LiveOf(req[r].user) \in SUBSET Tokens
      BY DEF LiveOf
    <3> QED
      BY <1>2, <2>2, <3>1 DEF RevokeAll
  <2>3. CASE LogoutRow(r)
    <3>1. {req[r].token} \cap {t \in Tokens : tokens[t].status = "LIVE"} \in SUBSET Tokens
      OBVIOUS
    <3> QED
      BY <1>2, <2>3, <3>1 DEF LogoutRow
  <2> QED
    BY <1>4, <1>5, <2>1, <2>2, <2>3 DEF Rotate
<1> QED
  BY <1>1, <1>3, <1>4, <1>5 DEF Step, Handle, StartRegister, Login, GoogleById, StartSuspend,
     StartReactivate, StartLogout, StartRefresh, GoogleByEmail, RegisterRow, GoogleLink,
     GoogleSignUp, OutOfIds, RefreshUser, SuspendRow, ReactivateRow, Abort, Expire

LEMMA RevocationsRun ==
    ASSUME TypeOK, RowsExist, Step PROVE RevocationStep
<1> SUFFICES ASSUME NEW r \in Requests, NEW u \in Users, At(r, "revokeAll"), req[r].user = u,
                    Moves(r)
             PROVE  \/ UNCHANGED tokens
                    \/ \A t \in Tokens : ~(tokens'[t].status = "LIVE" /\ tokens'[t].user = u)
  BY DEF RevocationStep
<1>1. Handle(r)
  BY StepByStep DEF Moves
<1>2. CASE RevokeAll(r)
  <2>1. Revoke(LiveOf(u)) /\ LiveOf(u) \subseteq Tokens
    BY <1>2 DEF RevokeAll, LiveOf
  <2>2. \A t \in Tokens :
           /\ tokens'[t].user = tokens[t].user
           /\ tokens'[t].status = IF t \in LiveOf(u) THEN "REVOKED" ELSE tokens[t].status
    BY <2>1, RevokeRow
  <2>3. ASSUME NEW t \in Tokens PROVE ~(tokens'[t].status = "LIVE" /\ tokens'[t].user = u)
    <3>1. CASE t \in LiveOf(u)
      BY <2>2, <3>1
    <3>2. CASE t \notin LiveOf(u)
      BY <2>2, <3>2 DEF LiveOf
    <3> QED
      BY <3>1, <3>2
  <2> QED
    BY <2>3
<1>3. CASE Abort(r)
  BY <1>3 DEF Abort
<1>4. RevokeAll(r) \/ Abort(r)
  BY <1>1 DEF Handle, At, Idle, StartRegister, Login, GoogleById, StartSuspend, StartReactivate,
     StartLogout, StartRefresh, GoogleByEmail, RegisterRow, GoogleLink, GoogleSignUp, Issue,
     OutOfIds, RefreshUser, Rotate, LogoutRow, SuspendRow, ReactivateRow
<1> QED
  BY <1>2, <1>3, <1>4

\* The request that moves enters no account but an active one.
LEMMA MoverEnters ==
    ASSUME TypeOK, RowsExist, NEW r \in Requests, Handle(r), NEW u \in Users, HasEntered(r, u)'
    PROVE  HasEntered(r, u) \/ users'[u].status = "ACTIVE"
<1> DEFINE Outcome == HasEntered(r, u) \/ users'[u].status = "ACTIVE"
<1>1. ASSUME NEW cont \in Continuations, Becomes(r, cont),
             cont.pc \notin {"issue", "link", "rotate"}
      PROVE  Outcome
  <2>1. req'[r] = cont
    BY <1>1, BecomesType
  <2> QED
    BY <1>1, <2>1 DEF HasEntered, At
<1>2. ASSUME NEW v \in Users, NEW from \in Tokens \cup {None}, Issues(r, v, from),
             HasEntered(r, v) \/ users'[v].status = "ACTIVE"
      PROVE  Outcome
  <2>1. req'[r] = [pc |-> "issue", user |-> v, from |-> from]
    BY <1>2 DEF Issues, Becomes, TypeOK
  <2>2. u = v
    BY <2>1 DEF HasEntered, At
  <2> QED
    BY <1>2, <2>2
<1>3. ASSUME Becomes(r, Idle) PROVE Outcome
  BY <1>1, <1>3, ContinuationsContain DEF Idle
<1>4. ASSUME NEW v \in Users, NEW pc \in UserPcs \ {"link"}, GoesTo(r, pc, v) PROVE Outcome
  <2>1. [pc |-> pc, user |-> v] \in Continuations /\ pc \notin {"issue", "link", "rotate"}
    BY ContinuationsContain DEF UserPcs
  <2> QED
    BY <1>1, <1>4, <2>1 DEF GoesTo
<1>5. CASE \E v \in Users :
              \/ StartRegister(r, v) \/ Login(r, v) \/ GoogleById(r, v)
              \/ StartSuspend(r, v) \/ StartReactivate(r, v)
  <2>1. PICK v \in Users : \/ StartRegister(r, v) \/ Login(r, v) \/ GoogleById(r, v)
                           \/ StartSuspend(r, v) \/ StartReactivate(r, v)
    BY <1>5
  <2>2. CASE Issues(r, v, None) /\ MayEnter(v) /\ UNCHANGED users
    BY <1>2, <2>2 DEF MayEnter
  <2>3. CASE \E pc \in {"register", "byEmail", "suspend", "reactivate"} : GoesTo(r, pc, v)
    BY <1>4, <2>3 DEF UserPcs
  <2> QED
    BY <2>1, <2>2, <2>3 DEF StartRegister, Login, GoogleById, StartSuspend, StartReactivate
<1>6. ASSUME NEW t \in Tokens, StartRefresh(r, t) \/ \E v \in Users : StartLogout(r, v, t)
      PROVE  Outcome
  <2>1. CASE \E pc \in {"checkUser", "logout"} : Presents(r, pc, t)
    BY <1>1, <2>1, ContinuationsContain DEF Presents, TokenPcs
  <2>2. CASE GoesTo(r, "revokeAll", tokens[t].user) /\ tokens[t].status = "REVOKED"
    <3>1. PICK v \in Users : tokens[t].user = v
      BY <2>2 DEF RowsExist, TokensOwned
    <3> QED
      BY <1>4, <2>2, <3>1 DEF UserPcs
  <2> QED
    BY <1>6, <2>1, <2>2 DEF StartRefresh, StartLogout
<1>7. ASSUME NEW verified \in BOOLEAN, GoogleByEmail(r, verified) PROVE Outcome
  <2>1. PICK v \in Users : req[r].user = v
    BY <1>7, ContinuationType DEF GoogleByEmail, At, UserPcs
  <2>2. CASE GoesTo(r, "signUp", v)
    BY <1>4, <2>2 DEF UserPcs
  <2>3. CASE GoesTo(r, "link", v) /\ MayEnter(v) /\ UNCHANGED users
    <3>1. req'[r] = [pc |-> "link", user |-> v]
      BY <2>3 DEF GoesTo, Becomes, TypeOK
    <3> QED
      BY <2>3, <3>1 DEF HasEntered, At, MayEnter
  <2> QED
    BY <1>3, <1>7, <2>1, <2>2, <2>3 DEF GoogleByEmail
<1>8. CASE GoogleLink(r) \/ GoogleSignUp(r)
  <2>1. PICK v \in Users : req[r].user = v
    BY <1>8, ContinuationType DEF GoogleLink, GoogleSignUp, At, UserPcs
  <2>2. CASE GoogleLink(r)
    <3>1. Issues(r, v, None) /\ HasEntered(r, v)
      BY <2>1, <2>2 DEF GoogleLink, HasEntered
    <3> QED
      BY <1>2, <3>1
  <2>3. CASE Create(v, FALSE) /\ Issues(r, v, None)
    <3>1. users'[v].status = "ACTIVE"
      BY <2>3 DEF Create, TypeOK
    <3> QED
      BY <1>2, <2>3, <3>1
  <2> QED
    BY <1>3, <1>8, <2>1, <2>2, <2>3 DEF GoogleSignUp
<1>9. CASE RefreshUser(r)
  <2>1. PICK t \in Tokens : req[r].token = t
    BY <1>9, ContinuationType DEF RefreshUser, At, TokenPcs
  <2>2. CASE Presents(r, "rotate", t) /\ MayEnter(tokens[t].user) /\ UNCHANGED <<users, tokens>>
    <3>1. req'[r] = [pc |-> "rotate", token |-> t]
      BY <2>2 DEF Presents, Becomes, TypeOK
    <3>2. tokens[t].user = u
      BY <2>2, <3>1 DEF HasEntered, At
    <3> QED
      BY <2>2, <3>2 DEF MayEnter
  <2> QED
    BY <1>3, <1>9, <2>1, <2>2 DEF RefreshUser
<1>10. CASE Rotate(r)
  <2>1. PICK t \in Tokens : req[r].token = t
    BY <1>10, ContinuationType DEF Rotate, At, TokenPcs
  <2>2. tokens[t].status # "ABSENT"
    BY <1>10, <2>1 DEF Rotate, At, RowsExist, NamesRows, TokenPcs
  <2>3. PICK v \in Users : tokens[t].user = v
    BY <2>2 DEF RowsExist, TokensOwned
  <2>4. HasEntered(r, v)
    BY <1>10, <2>1, <2>3 DEF Rotate, HasEntered
  <2> QED
    BY <1>2, <1>3, <1>10, <2>1, <2>3, <2>4 DEF Rotate
<1>11. CASE SuspendRow(r)
  <2>1. PICK v \in Users : req[r].user = v
    BY <1>11, ContinuationType DEF SuspendRow, At, UserPcs
  <2> QED
    BY <1>4, <1>11, <2>1 DEF SuspendRow, UserPcs
<1>12. CASE \/ RegisterRow(r) \/ Issue(r) \/ OutOfIds(r) \/ RevokeAll(r) \/ LogoutRow(r)
            \/ ReactivateRow(r) \/ Abort(r)
  BY <1>3, <1>12 DEF RegisterRow, Issue, OutOfIds, RevokeAll, LogoutRow, ReactivateRow, Abort
<1> QED
  BY <1>5, <1>6, <1>7, <1>8, <1>9, <1>10, <1>11, <1>12 DEF Handle

LEMMA EntriesAreChecked ==
    ASSUME TypeOK, RowsExist, Step PROVE EntryStep
<1> SUFFICES ASSUME NEW r \in Requests, NEW u \in Users, HasEntered(r, u)'
             PROVE  HasEntered(r, u) \/ users'[u].status = "ACTIVE"
  BY DEF EntryStep
<1>1. CASE req'[r] = req[r]
  <2>1. CASE At(r, "rotate")
    <3>1. req[r].token \in Tokens /\ tokens[req[r].token].status # "ABSENT"
      BY <2>1, ContinuationType DEF At, TokenPcs, RowsExist, NamesRows
    <3>2. tokens'[req[r].token].user = tokens[req[r].token].user
      BY <3>1, TokensChange DEF TokenStep
    <3> QED
      BY <1>1, <2>1, <3>2 DEF HasEntered, At
  <2>2. CASE ~At(r, "rotate")
    BY <1>1, <2>2 DEF HasEntered, At
  <2> QED
    BY <2>1, <2>2
<1>2. CASE req'[r] # req[r]
  <2>1. Handle(r)
    BY <1>2, StepByStep
  <2> QED
    BY <2>1, MoverEnters
<1> QED
  BY <1>1, <1>2

LEMMA NoEntryStep ==
    ASSUME TypeOK, RowsExist, NoEntryWhileSuspended, Next
    PROVE  NoEntryWhileSuspended'
<1> SUFFICES ASSUME NEW r \in Requests, NEW u \in Users,
                    users'[u].status = "SUSPENDED", HasEntered(r, u)'
             PROVE  r \in overtaken'
  BY DEF NoEntryWhileSuspended
<1>1. AccountStep /\ EntryStep
  BY AccountsChange, EntriesAreChecked DEF Next
<1>2. HasEntered(r, u)
  BY <1>1 DEF EntryStep
<1>3. req'[r] # Idle
  BY DEF HasEntered, At, Idle
<1>4. users[u].status \in {"ACTIVE", "SUSPENDED"}
  <2>1. users[u].status \in AccountStatus
    BY DEF TypeOK
  <2>2. users[u].status # "ABSENT"
    BY <1>1 DEF AccountStep
  <2> QED
    BY <2>1, <2>2 DEF AccountStatus
<1>5. CASE users[u].status = "SUSPENDED"
  <2>1. r \in overtaken
    BY <1>2, <1>5 DEF NoEntryWhileSuspended
  <2> QED
    BY <1>3, <2>1 DEF Next, Observe
<1>6. CASE users[u].status = "ACTIVE"
  BY <1>2, <1>3, <1>6 DEF Next, Observe
<1> QED
  BY <1>4, <1>5, <1>6

\* A request about to issue for a suspended account had entered it before.
THEOREM EntryChecked == Spec => []NoEntryWhileSuspended
<1>1. Init => NoEntryWhileSuspended
  BY DEF Init, NoEntryWhileSuspended
<1>2. TypeOK /\ RowsExist /\ NoEntryWhileSuspended /\ [Next]_vars => NoEntryWhileSuspended'
  <2>1. CASE UNCHANGED vars
    BY <2>1 DEF vars, history, NoEntryWhileSuspended, HasEntered, At
  <2> QED
    BY <2>1, NoEntryStep
<1> QED
  BY <1>1, <1>2, TypeCorrect, PTL DEF Spec

\* What Observe records of the tokens a suspension does not reach.
LEMMA MissedAfter ==
    ASSUME Observe, NEW t \in Tokens, tokens'[t].status = "LIVE",
           \/ t \in missed
           \/ \E r \in overtaken : /\ At(r, "issue") /\ Moves(r)
                                   /\ tokens'[t].status # tokens[t].status
           \/ \E r \in Requests : At(r, "revokeAll") /\ Moves(r) /\ t \in LiveOf(req[r].user)
    PROVE  t \in missed'
  BY DEF Observe

LEMMA SignedOutStep ==
    ASSUME TypeOK, RowsExist, NoEntryWhileSuspended, SuspendedIsSignedOut, Next
    PROVE  SuspendedIsSignedOut'
<1> SUFFICES ASSUME NEW u \in Users, users'[u].status = "SUSPENDED"
             PROVE  \/ LiveOf(u)' \subseteq missed'
                    \/ \E r \in Requests : At(r, "revokeAll")' /\ req'[r].user = u
  BY DEF SuspendedIsSignedOut, At
<1>1. AccountStep /\ TokenStep /\ RevocationStep /\ Observe
  BY AccountsChange, TokensChange, RevocationsRun DEF Next
<1>2. CASE users[u].status # "SUSPENDED"
  <2>1. \E r \in Requests : req'[r] = [pc |-> "revokeAll", user |-> u]
    BY <1>1, <1>2 DEF AccountStep
  <2> QED
    BY <2>1 DEF At
<1>3. CASE users[u].status = "SUSPENDED"
  \* A token issued in this step comes from a request the suspension overtook.
  <2>1. ASSUME NEW t \in Tokens, tokens'[t].status = "LIVE", tokens'[t].user = u,
               tokens[t].status # "LIVE"
        PROVE  t \in missed'
    <3>1. PICK r \in Requests : At(r, "issue") /\ Moves(r) /\ req[r].user = u
      BY <1>1, <2>1 DEF TokenStep
    <3>2. r \in overtaken
      BY <1>3, <3>1 DEF NoEntryWhileSuspended, HasEntered
    <3> QED
      BY <1>1, <2>1, <3>1, <3>2, MissedAfter
  \* Any other live token was live before.
  <2>2. ASSUME NEW t \in Tokens, tokens'[t].status = "LIVE", tokens'[t].user = u,
               tokens[t].status = "LIVE"
        PROVE  t \in LiveOf(u)
    BY <1>1, <2>2 DEF TokenStep, LiveOf
  <2>3. CASE LiveOf(u) \subseteq missed
    <3>1. ASSUME NEW t \in Tokens, tokens'[t].status = "LIVE", tokens'[t].user = u
          PROVE  t \in missed'
      <4>1. CASE tokens[t].status = "LIVE"
        BY <1>1, <2>2, <2>3, <3>1, <4>1, MissedAfter
      <4>2. CASE tokens[t].status # "LIVE"
        BY <2>1, <3>1, <4>2
      <4> QED
        BY <4>1, <4>2
    <3> QED
      BY <3>1 DEF LiveOf
  <2>4. ASSUME NEW r \in Requests, At(r, "revokeAll"), req[r].user = u
        PROVE  \/ LiveOf(u)' \subseteq missed'
               \/ \E s \in Requests : At(s, "revokeAll")' /\ req'[s].user = u
    <3>1. CASE ~Moves(r)
      BY <2>4, <3>1 DEF Moves, At
    <3>2. CASE \A t \in Tokens : ~(tokens'[t].status = "LIVE" /\ tokens'[t].user = u)
      BY <3>2 DEF LiveOf
    <3>3. CASE Moves(r) /\ UNCHANGED tokens
      <4>1. ASSUME NEW t \in Tokens, tokens'[t].status = "LIVE", tokens'[t].user = u
            PROVE  t \in missed'
        <5>1. t \in LiveOf(req[r].user)
          BY <2>4, <3>3, <4>1 DEF LiveOf
        <5> QED
          BY <1>1, <2>4, <3>3, <4>1, <5>1, MissedAfter
      <4> QED
        BY <4>1 DEF LiveOf
    <3> QED
      BY <1>1, <2>4, <3>1, <3>2, <3>3 DEF RevocationStep
  <2> QED
    BY <1>3, <2>3, <2>4 DEF SuspendedIsSignedOut
<1> QED
  BY <1>2, <1>3

\* Once the suspension has revoked its tokens, a suspended account has no live token
\* but those of requests it overtook, and those it left when it died half way.
THEOREM SignedOut == Spec => []SuspendedIsSignedOut
<1>1. Init => SuspendedIsSignedOut
  BY DEF Init, SuspendedIsSignedOut
<1>2. TypeOK /\ RowsExist /\ NoEntryWhileSuspended /\ SuspendedIsSignedOut /\ [Next]_vars
        => SuspendedIsSignedOut'
  <2>1. CASE UNCHANGED vars
    BY <2>1 DEF vars, history, SuspendedIsSignedOut, LiveOf, At
  <2> QED
    BY <2>1, SignedOutStep
<1> QED
  BY <1>1, <1>2, TypeCorrect, EntryChecked, PTL DEF Spec

-------------------------------------------------------------------------------
(* Tokens are spent once *)

\* The tokens made from t, the requests about to make one, and those that found t live.
Heirs(t) == {s \in Tokens : tokens[s].status # "ABSENT" /\ tokens[s].from = t}
Issuing(t) == {r \in Requests : At(r, "issue") /\ req[r].from = t}
Finders(t) == {r \in Requests : req[r].pc \in {"checkUser", "rotate"} /\ req[r].token = t}

Unspent(t) == Heirs(t) = {} /\ Issuing(t) = {} /\ t \notin ended

\* A live token is unspent, and one that is revoked uncontested has no request left
\* that would rotate it.
SpendInv ==
    /\ \A t \in Tokens : tokens[t].status \in {"ABSENT", "LIVE"} => Unspent(t)
    /\ \A t \in Tokens \ contested : tokens[t].status = "REVOKED" => Finders(t) = {}
    /\ SpentOnce

LEMMA HeirsFinite ==
    ASSUME NEW t
    PROVE  /\ IsFiniteSet(Heirs(t)) /\ IsFiniteSet(Issuing(t))
           /\ Cardinality(Heirs(t)) \in Nat /\ Cardinality(Issuing(t)) \in Nat
           /\ Successors(t) = Cardinality(Heirs(t)) + Cardinality(Issuing(t))
<1>1. IsFiniteSet(Heirs(t)) /\ IsFiniteSet(Issuing(t))
  <2>1. Heirs(t) \subseteq Tokens /\ Issuing(t) \subseteq Requests
    BY DEF Heirs, Issuing
  <2> QED
    BY <2>1, FiniteAssumption, FS_Subset
<1> QED
  BY <1>1, FS_CardinalityType DEF Successors, Heirs, Issuing

LEMMA HeirsFiniteNext ==
    ASSUME NEW t
    PROVE  /\ IsFiniteSet(Heirs(t)') /\ IsFiniteSet(Issuing(t)')
           /\ Cardinality(Heirs(t)') \in Nat /\ Cardinality(Issuing(t)') \in Nat
           /\ Successors(t)' = Cardinality(Heirs(t)') + Cardinality(Issuing(t)')
<1>1. IsFiniteSet(Heirs(t)') /\ IsFiniteSet(Issuing(t)')
  <2>1. Heirs(t)' \subseteq Tokens /\ Issuing(t)' \subseteq Requests
    BY DEF Heirs, Issuing
  <2> QED
    BY <2>1, FiniteAssumption, FS_Subset
<1> QED
  BY <1>1, FS_CardinalityType DEF Successors, Heirs, Issuing

\* What Observe records of the tokens that are revoked.
LEMMA RevokedAfter ==
    ASSUME Observe
    PROVE  /\ contested \subseteq contested'
           /\ \A t \in ended' \ ended :
                 /\ t \in Tokens /\ tokens[t].status = "LIVE" /\ tokens'[t].status = "REVOKED"
                 /\ \A r \in Requests : ~Rotates(r, t)
           /\ \A t \in Tokens, r \in Requests :
                 tokens[t].status = "LIVE" /\ tokens'[t].status = "REVOKED" /\ HasFoundLive(r, t)
                    => t \in contested'
  BY DEF Observe

\* A step that makes no token and takes none for rotation but a live one.
SpendsNothing ==
    \A t \in Tokens :
        /\ Heirs(t)' \subseteq Heirs(t)
        /\ Issuing(t)' \subseteq Issuing(t)
        /\ \/ Finders(t)' \subseteq Finders(t)
           \/ tokens[t].status = "LIVE" /\ tokens'[t].status = "LIVE"
        /\ \/ tokens'[t].status = tokens[t].status
           \/ /\ tokens[t].status \in {"LIVE", "REVOKED"}
              /\ tokens'[t].status = "DELETED"
           \/ /\ tokens[t].status = "LIVE" /\ tokens'[t].status = "REVOKED"
              /\ \A r \in Finders(t) : ~Moves(r)

LEMMA FoundLive ==
    ASSUME NEW t, NEW r \in Finders(t), ~Moves(r)
    PROVE  r \in Requests /\ HasFoundLive(r, t)
  BY DEF Finders, HasFoundLive, At

LEMMA SpendQuiet ==
    ASSUME TypeOK, TypeOK', SpendInv, Observe, SpendsNothing
    PROVE  SpendInv'
<1>1. ASSUME NEW t \in Tokens, tokens'[t].status \in {"ABSENT", "LIVE"} PROVE Unspent(t)'
  <2>1. tokens[t].status = tokens'[t].status
    BY <1>1 DEF SpendsNothing
  <2>2. Unspent(t)
    BY <1>1, <2>1 DEF SpendInv
  <2>3. t \notin ended'
    BY <1>1, <2>2, RevokedAfter DEF Unspent
  <2> QED
    BY <2>2, <2>3 DEF Unspent, SpendsNothing
<1>2. ASSUME NEW t \in Tokens \ contested', tokens'[t].status = "REVOKED" PROVE Finders(t)' = {}
  <2>1. Finders(t)' \subseteq Finders(t) /\ t \notin contested
    BY <1>2, RevokedAfter DEF SpendsNothing
  <2>2. CASE tokens[t].status = "REVOKED"
    BY <2>1, <2>2 DEF SpendInv
  <2>3. CASE tokens[t].status # "REVOKED"
    <3>1. tokens[t].status = "LIVE" /\ \A r \in Finders(t) : ~Moves(r)
      BY <1>2, <2>3 DEF SpendsNothing
    <3>2. \A r \in Finders(t) : FALSE
      BY <1>2, <3>1, FoundLive, RevokedAfter
    <3> QED
      BY <2>1, <3>2
  <2> QED
    BY <2>2, <2>3
<1>3. ASSUME NEW t \in Tokens \ contested'
      PROVE  Successors(t)' + (IF t \in ended' THEN 1 ELSE 0) <= 1
  <2>1. /\ Cardinality(Heirs(t)') <= Cardinality(Heirs(t))
        /\ Cardinality(Issuing(t)') <= Cardinality(Issuing(t))
    BY HeirsFinite, FS_Subset DEF SpendsNothing
  <2>2. /\ Successors(t) = Cardinality(Heirs(t)) + Cardinality(Issuing(t))
        /\ Successors(t)' = Cardinality(Heirs(t)') + Cardinality(Issuing(t)')
        /\ Cardinality(Heirs(t)) \in Nat /\ Cardinality(Issuing(t)) \in Nat
        /\ Cardinality(Heirs(t)') \in Nat /\ Cardinality(Issuing(t)') \in Nat
    BY HeirsFinite, HeirsFiniteNext
  <2>3. CASE t \in ended' \ ended
    <3>1. tokens[t].status = "LIVE"
      BY <2>3, RevokedAfter
    <3>2. Heirs(t) = {} /\ Issuing(t) = {}
      BY <3>1 DEF SpendInv, Unspent
    <3>3. Successors(t)' = 0
      BY <2>1, <2>2, <3>2, FS_EmptySet
    <3> QED
      BY <3>3
  <2>4. CASE t \notin ended' \/ t \in ended
    <3>1. t \notin contested
      BY RevokedAfter
    <3>2. Successors(t) + (IF t \in ended THEN 1 ELSE 0) <= 1
      BY <3>1 DEF SpendInv, SpentOnce
    <3> QED
      BY <2>1, <2>2, <2>4, <3>2
  <2> QED
    BY <2>3, <2>4
<1> QED
  BY <1>1, <1>2, <1>3 DEF SpendInv, SpentOnce

\* The token that is issued takes the place of the request that issues it.
LEMMA SpendIssue ==
    ASSUME TypeOK, TypeOK', SpendInv, Observe, NEW r \in Requests, Issue(r)
    PROVE  SpendInv'
<1>1. PICK n \in Tokens :
         /\ tokens[n].status = "ABSENT"
         /\ tokens' = [tokens EXCEPT ![n] =
               [status |-> "LIVE", user |-> req[r].user, from |-> req[r].from]]
  BY DEF Issue
<1>2. PICK f \in Tokens \cup {None} : f = req[r].from
  BY ContinuationType DEF Issue, At
<1>3. /\ tokens'[n].status = "LIVE" /\ tokens'[n].from = f
      /\ \A t \in Tokens \ {n} : tokens'[t] = tokens[t]
  BY <1>1, <1>2 DEF TypeOK
<1>4. /\ At(r, "issue") /\ req'[r].pc = "idle"
      /\ \A s \in Requests \ {r} : req'[s] = req[s]
  BY BecomesType, ContinuationsContain DEF Issue, Idle
<1>5. r \in Issuing(f)
  BY <1>2, <1>4 DEF Issuing
<1>6. f # n
  BY <1>1, <1>5 DEF SpendInv, Unspent
<1>7. \A t \in Tokens :
         /\ Heirs(t)' = (IF t = f THEN Heirs(t) \cup {n} ELSE Heirs(t)) /\ n \notin Heirs(t)
         /\ Issuing(t)' = (IF t = f THEN Issuing(t) \ {r} ELSE Issuing(t))
         /\ Finders(t)' = Finders(t)
  <2> TAKE t \in Tokens
  <2>1. Heirs(t)' = (IF t = f THEN Heirs(t) \cup {n} ELSE Heirs(t)) /\ n \notin Heirs(t)
    BY <1>1, <1>3 DEF Heirs
  <2>2. Issuing(t)' = (IF t = f THEN Issuing(t) \ {r} ELSE Issuing(t))
    BY <1>2, <1>4 DEF Issuing, At
  <2>3. Finders(t)' = Finders(t)
    BY <1>4 DEF Finders, At
  <2> QED
    BY <2>1, <2>2, <2>3
<1>8. ended' \subseteq ended /\ contested \subseteq contested'
  BY <1>1, <1>3, RevokedAfter
<1>9. ASSUME NEW t \in Tokens, tokens'[t].status \in {"ABSENT", "LIVE"} PROVE Unspent(t)'
  <2>1. Unspent(t)
    BY <1>1, <1>3, <1>9 DEF SpendInv
  <2>2. t # f
    BY <1>5, <2>1 DEF Unspent
  <2> QED
    BY <1>7, <1>8, <2>1, <2>2 DEF Unspent
<1>10. ASSUME NEW t \in Tokens \ contested', tokens'[t].status = "REVOKED" PROVE Finders(t)' = {}
  BY <1>3, <1>7, <1>8, <1>10 DEF SpendInv
<1>11. ASSUME NEW t \in Tokens \ contested'
       PROVE  Successors(t)' + (IF t \in ended' THEN 1 ELSE 0) <= 1
  <2>1. Successors(t) + (IF t \in ended THEN 1 ELSE 0) <= 1
    BY <1>8 DEF SpendInv, SpentOnce
  <2>2. Successors(t)' = Successors(t)
    <3>1. /\ Successors(t) = Cardinality(Heirs(t)) + Cardinality(Issuing(t))
          /\ Successors(t)' = Cardinality(Heirs(t)') + Cardinality(Issuing(t)')
          /\ Cardinality(Heirs(t)) \in Nat /\ Cardinality(Issuing(t)) \in Nat
      BY HeirsFinite, HeirsFiniteNext
    <3>2. CASE t # f
      BY <1>7, <3>1, <3>2
    <3>3. CASE t = f
      <4>1. Cardinality(Heirs(t) \cup {n}) = Cardinality(Heirs(t)) + 1
        BY <1>7, HeirsFinite, FS_AddElement
      <4>2. Cardinality(Issuing(t) \ {r}) = Cardinality(Issuing(t)) - 1
        BY <1>5, <3>3, HeirsFinite, FS_RemoveElement
      <4>3. Heirs(t)' = Heirs(t) \cup {n} /\ Issuing(t)' = Issuing(t) \ {r}
        BY <1>7, <3>3
      <4>4. /\ Cardinality(Heirs(t)') = Cardinality(Heirs(t)) + 1
            /\ Cardinality(Issuing(t)') = Cardinality(Issuing(t)) - 1
        BY <4>1, <4>2, <4>3
      <4> QED
        BY <3>1, <4>4
    <3> QED
      BY <3>2, <3>3
  <2>3. Successors(t) \in Nat
    BY HeirsFinite
  <2> QED
    BY <1>8, <2>1, <2>2, <2>3
<1> QED
  BY <1>9, <1>10, <1>11 DEF SpendInv, SpentOnce

\* A rotation of an uncontested token finds it live, hence unspent.
LEMMA SpendRotate ==
    ASSUME TypeOK, RowsExist, TypeOK', SpendInv, Observe, NEW r \in Requests, Rotate(r),
           NEW m \in Tokens, m = req[r].token, Revoke({m}), Issues(r, tokens[m].user, m),
           tokens[m].status # "DELETED"
    PROVE  SpendInv'
<1>1. \A t \in Tokens :
         /\ tokens'[t].from = tokens[t].from
         /\ tokens'[t].status = IF t = m THEN "REVOKED" ELSE tokens[t].status
  <2>1. {m} \subseteq Tokens
    OBVIOUS
  <2> QED
    BY <2>1, RevokeRow
<1>2. At(r, "rotate") /\ tokens[m].status \in {"LIVE", "REVOKED"} /\ tokens[m].user \in Users
  <2>1. At(r, "rotate") /\ tokens[m].status # "ABSENT"
    BY DEF Rotate, At, RowsExist, NamesRows, TokenPcs
  <2> QED
    BY <2>1 DEF TypeOK, TokenStatus, RowsExist, TokensOwned
<1>3. /\ req'[r] = [pc |-> "issue", user |-> tokens[m].user, from |-> m]
      /\ \A s \in Requests \ {r} : req'[s] = req[s]
  BY <1>2, BecomesType, ContinuationsContain DEF Issues
<1>4. Moves(r) /\ r \in Finders(m)
  BY <1>2, <1>3 DEF Moves, At, Finders
<1>5. \A t \in Tokens :
         /\ Heirs(t)' = Heirs(t)
         /\ Issuing(t)' = (IF t = m THEN Issuing(t) \cup {r} ELSE Issuing(t))
         /\ Finders(t)' = Finders(t) \ {r}
  <2> TAKE t \in Tokens
  <2>1. Heirs(t)' = Heirs(t)
    BY <1>1, <1>2 DEF Heirs
  <2>2. Issuing(t)' = (IF t = m THEN Issuing(t) \cup {r} ELSE Issuing(t))
    BY <1>2, <1>3 DEF Issuing, At
  <2>3. Finders(t)' = Finders(t) \ {r}
    BY <1>3 DEF Finders
  <2> QED
    BY <2>1, <2>2, <2>3
<1>6. ended' \subseteq ended /\ contested \subseteq contested'
  <2>1. ASSUME NEW t \in ended' \ ended PROVE FALSE
    <3>1. t = m /\ ~Rotates(r, t)
      BY <1>1, <2>1, RevokedAfter
    <3> QED
      BY <1>2, <1>4, <3>1 DEF Rotates
  <2> QED
    BY <2>1, RevokedAfter
<1>7. ASSUME NEW t \in Tokens, tokens'[t].status \in {"ABSENT", "LIVE"} PROVE Unspent(t)'
  <2>1. t # m /\ Unspent(t)
    BY <1>1, <1>7 DEF SpendInv
  <2> QED
    BY <1>5, <1>6, <2>1 DEF Unspent
<1>8. m \notin contested => tokens[m].status = "LIVE"
  BY <1>2, <1>4 DEF SpendInv
<1>9. ASSUME NEW t \in Tokens \ contested', tokens'[t].status = "REVOKED" PROVE Finders(t)' = {}
  <2>1. CASE t # m
    BY <1>1, <1>5, <1>6, <1>9, <2>1 DEF SpendInv
  <2>2. CASE t = m
    <3>1. ASSUME NEW s \in Finders(t), s # r PROVE FALSE
      <4>1. ~Moves(s)
        BY <1>3, <3>1 DEF Moves, Finders
      <4> QED
        BY <1>6, <1>8, <1>9, <2>2, <3>1, <4>1, FoundLive, RevokedAfter
    <3> QED
      BY <1>5, <3>1
  <2> QED
    BY <2>1, <2>2
<1>10. ASSUME NEW t \in Tokens \ contested'
       PROVE  Successors(t)' + (IF t \in ended' THEN 1 ELSE 0) <= 1
  <2>1. /\ Successors(t) = Cardinality(Heirs(t)) + Cardinality(Issuing(t))
        /\ Successors(t)' = Cardinality(Heirs(t)') + Cardinality(Issuing(t)')
        /\ Cardinality(Heirs(t)) \in Nat /\ Cardinality(Issuing(t)) \in Nat
    BY HeirsFinite, HeirsFiniteNext
  <2>2. CASE t # m
    <3>1. Successors(t)' = Successors(t)
      BY <1>5, <2>1, <2>2
    <3>2. Successors(t) + (IF t \in ended THEN 1 ELSE 0) <= 1
      BY <1>6 DEF SpendInv, SpentOnce
    <3> QED
      BY <1>6, <2>1, <3>1, <3>2
  <2>3. CASE t = m
    <3>1. Heirs(t) = {} /\ Issuing(t) = {} /\ t \notin ended
      BY <1>6, <1>8, <2>3 DEF SpendInv, Unspent
    <3>2. Heirs(t)' = {} /\ Issuing(t)' = {} \cup {r}
      BY <1>5, <2>3, <3>1
    <3>3. Cardinality({}) = 0 /\ Cardinality({} \cup {r}) = 1
      <4>1. IsFiniteSet({}) /\ Cardinality({}) = 0
        BY FS_EmptySet
      <4>2. Cardinality({} \cup {r}) = Cardinality({}) + 1
        BY <4>1, FS_AddElement
      <4> QED
        BY <4>1, <4>2
    <3>4. Cardinality(Heirs(t)') = 0 /\ Cardinality(Issuing(t)') = 1
      BY <3>2, <3>3
    <3> QED
      BY <1>6, <2>1, <3>1, <3>4
  <2> QED
    BY <2>2, <2>3
<1> QED
  BY <1>7, <1>9, <1>10 DEF SpendInv, SpentOnce

\* A request moves on without a token changing.
LEMMA SpendsNothingMoving ==
    ASSUME TypeOK, UNCHANGED tokens, NEW r \in Requests, NEW cont \in Continuations,
           Becomes(r, cont),
           cont.pc = "issue" => cont.from = None,
           cont.pc \in {"checkUser", "rotate"} =>
              \/ tokens[cont.token].status = "LIVE"
              \/ req[r].pc \in {"checkUser", "rotate"} /\ req[r].token = cont.token
    PROVE  SpendsNothing
<1>1. req'[r] = cont /\ \A s \in Requests \ {r} : req'[s] = req[s]
  BY BecomesType
<1> SUFFICES ASSUME NEW t \in Tokens
             PROVE  /\ Heirs(t)' \subseteq Heirs(t)
                    /\ Issuing(t)' \subseteq Issuing(t)
                    /\ Finders(t)' \subseteq Finders(t) \/ tokens[t].status = "LIVE"
  BY DEF SpendsNothing
<1>2. Heirs(t)' = Heirs(t)
  BY DEF Heirs
<1>3. Issuing(t)' \subseteq Issuing(t)
  BY <1>1, NoneAssumption DEF Issuing, At
<1>4. Finders(t)' \subseteq Finders(t) \/ tokens[t].status = "LIVE"
  BY <1>1 DEF Finders
<1> QED
  BY <1>2, <1>3, <1>4

\* Tokens are revoked, or deleted, by a step that goes on to nothing with tokens.
LEMMA SpendsNothingStamping ==
    ASSUME TypeOK, NEW T \in SUBSET Tokens, NEW r \in Requests, Revoke(T),
           \A t \in T : tokens[t].status = "LIVE",
           Becomes(r, Idle), req[r].pc \notin {"checkUser", "rotate"}
    PROVE  SpendsNothing
<1>1. req'[r].pc = "idle" /\ \A s \in Requests \ {r} : req'[s] = req[s]
  BY BecomesType, ContinuationsContain DEF Idle
<1>2. \A t \in Tokens :
         /\ tokens'[t].from = tokens[t].from
         /\ tokens'[t].status = IF t \in T THEN "REVOKED" ELSE tokens[t].status
  BY RevokeRow
<1> SUFFICES ASSUME NEW t \in Tokens
             PROVE  /\ Heirs(t)' \subseteq Heirs(t)
                    /\ Issuing(t)' \subseteq Issuing(t)
                    /\ Finders(t)' \subseteq Finders(t)
                    /\ \A s \in Finders(t) : ~Moves(s)
  BY <1>2 DEF SpendsNothing
<1>3. Heirs(t)' = Heirs(t)
  BY <1>2 DEF Heirs
<1>4. Issuing(t)' \subseteq Issuing(t) /\ Finders(t)' \subseteq Finders(t)
  BY <1>1 DEF Issuing, Finders, At
<1>5. \A s \in Finders(t) : ~Moves(s)
  BY <1>1 DEF Finders, Moves
<1> QED
  BY <1>3, <1>4, <1>5

LEMMA SpendStep ==
    ASSUME TypeOK, RowsExist, TypeOK', SpendInv, Next
    PROVE  SpendInv'
<1>1. Observe /\ Step
  BY DEF Next
<1>2. CASE SpendsNothing
  BY <1>1, <1>2, SpendQuiet
<1>3. ASSUME NEW r \in Requests, NEW cont \in Continuations, Becomes(r, cont), UNCHANGED tokens,
             cont.pc \notin {"issue", "checkUser", "rotate"}
      PROVE  SpendsNothing
  BY <1>3, SpendsNothingMoving
<1>4. ASSUME NEW r \in Requests, Becomes(r, Idle), UNCHANGED tokens PROVE SpendsNothing
  BY <1>3, <1>4, ContinuationsContain DEF Idle
<1>5. ASSUME NEW r \in Requests, NEW pc \in UserPcs, NEW u \in Users, GoesTo(r, pc, u),
             UNCHANGED tokens
      PROVE  SpendsNothing
  <2>1. [pc |-> pc, user |-> u] \in Continuations
    BY ContinuationsContain
  <2> QED
    BY <1>3, <1>5, <2>1 DEF GoesTo, UserPcs
<1>6. ASSUME NEW r \in Requests, NEW u \in Users, Issues(r, u, None), UNCHANGED tokens
      PROVE  SpendsNothing
  <2>1. [pc |-> "issue", user |-> u, from |-> None] \in Continuations
    BY ContinuationsContain
  <2> QED
    BY <1>6, <2>1, SpendsNothingMoving DEF Issues
<1>7. ASSUME NEW r \in Requests, NEW u \in Users,
             \/ StartRegister(r, u) \/ Login(r, u) \/ GoogleById(r, u)
             \/ StartSuspend(r, u) \/ StartReactivate(r, u)
      PROVE  SpendsNothing
  <2>1. UNCHANGED tokens
    BY <1>7 DEF StartRegister, Login, GoogleById, StartSuspend, StartReactivate
  <2>2. \/ Issues(r, u, None)
        \/ \E pc \in UserPcs : GoesTo(r, pc, u)
    BY <1>7 DEF StartRegister, Login, GoogleById, StartSuspend, StartReactivate, UserPcs
  <2> QED
    BY <1>5, <1>6, <2>1, <2>2
<1>8. ASSUME NEW r \in Requests, NEW t \in Tokens, \E u \in Users : StartLogout(r, u, t)
      PROVE  SpendsNothing
  <2>1. [pc |-> "logout", token |-> t] \in Continuations
    BY ContinuationsContain DEF TokenPcs
  <2> QED
    BY <1>3, <1>8, <2>1 DEF StartLogout, Presents
<1>9. ASSUME NEW r \in Requests, NEW t \in Tokens, StartRefresh(r, t) PROVE SpendsNothing
  <2>1. CASE Usable(t) /\ Presents(r, "checkUser", t)
    <3>1. [pc |-> "checkUser", token |-> t] \in Continuations
      BY ContinuationsContain DEF TokenPcs
    <3> QED
      BY <1>9, <2>1, <3>1, SpendsNothingMoving DEF StartRefresh, Presents, Usable
  <2>2. CASE tokens[t].status = "REVOKED" /\ GoesTo(r, "revokeAll", tokens[t].user)
    <3>1. tokens[t].user \in Users
      BY <2>2 DEF RowsExist, TokensOwned
    <3> QED
      BY <1>5, <1>9, <2>2, <3>1 DEF StartRefresh, UserPcs
  <2> QED
    BY <1>9, <2>1, <2>2 DEF StartRefresh
<1>10. ASSUME NEW r \in Requests, RefreshUser(r) PROVE SpendsNothing
  <2>1. PICK t \in Tokens : t = req[r].token
    BY <1>10, ContinuationType DEF RefreshUser, At, TokenPcs
  <2>2. CASE Presents(r, "rotate", t)
    <3>1. [pc |-> "rotate", token |-> t] \in Continuations
      BY ContinuationsContain DEF TokenPcs
    <3> QED
      BY <1>10, <2>1, <2>2, <3>1, SpendsNothingMoving DEF RefreshUser, Presents, At
  <2> QED
    BY <1>4, <1>10, <2>1, <2>2 DEF RefreshUser
<1>11. ASSUME NEW r \in Requests,
              \/ \E verified \in BOOLEAN : GoogleByEmail(r, verified)
              \/ RegisterRow(r) \/ GoogleLink(r) \/ GoogleSignUp(r)
              \/ SuspendRow(r) \/ ReactivateRow(r) \/ OutOfIds(r) \/ Abort(r)
       PROVE  SpendsNothing
  <2>1. UNCHANGED tokens
    BY <1>11 DEF GoogleByEmail, RegisterRow, GoogleLink, GoogleSignUp, SuspendRow, ReactivateRow,
         OutOfIds, Abort
  <2>2. \/ Becomes(r, Idle)
        \/ \E u \in Users : Issues(r, u, None)
        \/ \E u \in Users, pc \in UserPcs : GoesTo(r, pc, u)
    <3>1. At(r, "byEmail") \/ At(r, "link") \/ At(r, "signUp") \/ At(r, "suspend")
            => req[r].user \in Users
      BY ContinuationType DEF At, UserPcs
    <3>2. CASE \E verified \in BOOLEAN : GoogleByEmail(r, verified)
      BY <3>1, <3>2 DEF GoogleByEmail, UserPcs
    <3>3. CASE GoogleLink(r) \/ GoogleSignUp(r) \/ SuspendRow(r)
      BY <3>1, <3>3 DEF GoogleLink, GoogleSignUp, SuspendRow, UserPcs
    <3>4. CASE RegisterRow(r) \/ ReactivateRow(r) \/ OutOfIds(r) \/ Abort(r)
      BY <3>4 DEF RegisterRow, ReactivateRow, OutOfIds, Abort
    <3> QED
      BY <1>11, <3>2, <3>3, <3>4
  <2> QED
    BY <1>4, <1>5, <1>6, <2>1, <2>2
<1>12. ASSUME NEW r \in Requests, RevokeAll(r) \/ LogoutRow(r) PROVE SpendsNothing
  <2>1. req[r].pc \notin {"checkUser", "rotate"} /\ Becomes(r, Idle)
    BY <1>12 DEF RevokeAll, LogoutRow, At
  <2>2. PICK T \in SUBSET Tokens : Revoke(T) /\ \A t \in T : tokens[t].status = "LIVE"
    <3>1. CASE RevokeAll(r)
      <4>1. LiveOf(req[r].user) \in SUBSET Tokens
        BY DEF LiveOf
      <4> QED
        BY <3>1, <4>1 DEF RevokeAll, LiveOf
    <3>2. CASE LogoutRow(r)
      <4>1. {req[r].token} \cap {t \in Tokens : tokens[t].status = "LIVE"} \in SUBSET Tokens
        OBVIOUS
      <4> QED
        BY <3>2, <4>1 DEF LogoutRow
    <3> QED
      BY <1>12, <3>1, <3>2
  <2> QED
    BY <2>1, <2>2, SpendsNothingStamping
<1>13. ASSUME NEW t \in Tokens, Expire(t) PROVE SpendsNothing
  BY <1>13 DEF Expire, SpendsNothing, Heirs, Issuing, Finders, At
<1>14. CASE CleanupStaleRefreshTokens
  <2>1. PICK T \in SUBSET Tokens :
           T = Stale /\ \A t \in T : tokens[t].status \in {"LIVE", "REVOKED"}
    <3>1. Stale \in SUBSET Tokens /\ \A t \in Stale : tokens[t].status \in {"LIVE", "REVOKED"}
      BY DEF Stale, HasRow
    <3> QED
      BY <3>1
  <2>2. tokens' = [t \in Tokens |->
            IF t \in T THEN [tokens[t] EXCEPT !.status = "DELETED"] ELSE tokens[t]]
    BY <1>14, <2>1 DEF CleanupStaleRefreshTokens
  <2>3. \A t \in Tokens :
           /\ tokens'[t].from = tokens[t].from
           /\ tokens'[t].status = IF t \in T THEN "DELETED" ELSE tokens[t].status
    BY <2>2, Restamped DEF TokenStatus
  <2>4. req' = req
    BY <1>14 DEF CleanupStaleRefreshTokens
  <2>5. \A t \in Tokens :
           /\ Heirs(t)' \subseteq Heirs(t)
           /\ Issuing(t)' = Issuing(t) /\ Finders(t)' = Finders(t)
    BY <2>1, <2>3, <2>4 DEF Heirs, Issuing, Finders, At
  <2>6. SpendsNothing
    BY <2>1, <2>3, <2>5 DEF SpendsNothing
  <2> QED
    BY <1>2, <2>6
<1>15. ASSUME NEW r \in Requests, Rotate(r) PROVE SpendInv'
  <2>1. PICK m \in Tokens : m = req[r].token
    BY <1>15, ContinuationType DEF Rotate, At, TokenPcs
  <2>2. CASE tokens[m].status # "DELETED" /\ Revoke({m}) /\ Issues(r, tokens[m].user, m)
    BY <1>1, <1>15, <2>1, <2>2, SpendRotate
  <2>3. CASE Becomes(r, Idle) /\ UNCHANGED tokens
    BY <1>2, <1>4, <2>3
  <2>4. \/ tokens[m].status # "DELETED" /\ Revoke({m}) /\ Issues(r, tokens[m].user, m)
        \/ Becomes(r, Idle) /\ UNCHANGED tokens
    BY <1>15, <2>1 DEF Rotate
  <2> QED
    BY <2>2, <2>3, <2>4
<1> QED
  BY <1>1, <1>2, <1>7, <1>8, <1>9, <1>10, <1>11, <1>12, <1>13, <1>14, <1>15, SpendIssue
     DEF Step, Handle

\* For any number of accounts, tokens and requests, a token is rotated into one successor
\* or ended by a logout, a suspension or a reuse, but for the contested ones.
THEOREM TokensSpentOnce == Spec => []SpentOnce
<1>1. Init => SpendInv
  <2> SUFFICES ASSUME Init PROVE SpendInv
    OBVIOUS
  <2>1. \A t \in Tokens : Heirs(t) = {} /\ Issuing(t) = {} /\ t \notin ended /\ Finders(t) = {}
    <3>1. \A r \in Requests : req[r].pc = "idle"
      BY DEF Init, Idle
    <3>2. \A t \in Tokens : tokens[t].status = "ABSENT"
      BY DEF Init
    <3>3. \A t \in Tokens : Issuing(t) = {} /\ Finders(t) = {}
      BY <3>1 DEF Issuing, Finders, At
    <3>4. \A t \in Tokens : Heirs(t) = {}
      BY <3>2 DEF Heirs
    <3> QED
      BY <3>3, <3>4 DEF Init
  <2>2. \A t \in Tokens : Successors(t) = 0
    BY <2>1, HeirsFinite, FS_EmptySet
  <2>3. SpentOnce
    BY <2>1, <2>2 DEF SpentOnce
  <2> QED
    BY <2>1, <2>3 DEF SpendInv, Unspent
<1>2. TypeOK /\ RowsExist /\ TypeOK' /\ SpendInv /\ [Next]_vars => SpendInv'
  <2>1. CASE UNCHANGED vars
    <3>1. \A t \in Tokens : /\ Heirs(t)' = Heirs(t) /\ Issuing(t)' = Issuing(t)
                            /\ Finders(t)' = Finders(t) /\ Successors(t)' = Successors(t)
      BY <2>1 DEF vars, history, Heirs, Issuing, Finders, Successors, At
    <3> QED
      BY <2>1, <3>1 DEF vars, history, SpendInv, Unspent, SpentOnce
  <2> QED
    BY <2>1, SpendStep
<1>3. SpendInv => SpentOnce
  BY DEF SpendInv
<1> QED
  BY <1>1, <1>2, <1>3, TypeCorrect, PTL DEF Spec

===============================================================================
