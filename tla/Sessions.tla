------------------------------- MODULE Sessions -------------------------------
(*****************************************************************************)
(* Accounts and sign-in sessions: registration, password and Google sign-in, *)
(* the rotation of refresh tokens with its reuse detection, logout, the      *)
(* admin's suspension of an account, and the job that clears old tokens.     *)
(*                                                                           *)
(* Each handler is cut at its awaits, as in Orders.  A client may present    *)
(* any token it was ever given: tabs share a cookie, and a response may be   *)
(* lost.                                                                     *)
(*****************************************************************************)
EXTENDS Integers, FiniteSets

CONSTANTS
    Users,      \* people who may have an account, each with one e-mail address
    Tokens,     \* refresh tokens (their jti)
    Requests,   \* slots for requests in flight
    None        \* a token issued by a sign-in comes from no other token

ASSUME NoneAssumption == None \notin Tokens
ASSUME FiniteAssumption == IsFiniteSet(Tokens) /\ IsFiniteSet(Requests)

VARIABLES
    users,      \* the User rows
    tokens,     \* the RefreshToken rows; the id of a deleted row is not used again
    expired,    \* tokens with a row whose time to live has passed
    req,        \* the continuation of each request in flight
    ended,      \* history: tokens revoked by a logout, a suspension or a reuse
    contested,  \* history: tokens revoked while another refresh had found them live
    overtaken,  \* history: requests whose account was suspended after they checked it
    missed      \* history: live tokens that a suspension did not reach

history == <<ended, contested, overtaken, missed>>
vars == <<users, tokens, expired, req, history>>

-------------------------------------------------------------------------------
(* Rows and continuations *)

AccountStatus == {"ABSENT", "ACTIVE", "SUSPENDED"}
TokenStatus == {"ABSENT", "LIVE", "REVOKED", "DELETED"}

Idle == [pc |-> "idle"]
UserPcs == {"register", "byEmail", "link", "signUp", "suspend", "revokeAll", "reactivate"}
Continuations ==
    {Idle}
    \cup [pc : UserPcs, user : Users]
    \cup [pc : {"checkUser", "rotate", "logout"}, token : Tokens]
    \cup [pc : {"issue"}, user : Users, from : Tokens \cup {None}]

At(r, pc) == req[r].pc = pc
Becomes(r, cont) == req' = [req EXCEPT ![r] = cont]
GoesTo(r, pc, u) == Becomes(r, [pc |-> pc, user |-> u])
Issues_Nobody(r, u, t) == Becomes(r, [pc |-> "issue", user |-> None, from |-> t])
Issues(r, u, t) == Becomes(r, [pc |-> "issue", user |-> u, from |-> t])
Presents(r, pc, t) == Becomes(r, [pc |-> pc, token |-> t])

LiveOf(u) == {t \in Tokens : tokens[t].status = "LIVE" /\ tokens[t].user = u}

Init ==
    /\ users = [u \in Users |-> [status |-> "ABSENT", password |-> FALSE, google |-> FALSE]]
    /\ tokens = [t \in Tokens |-> [status |-> "ABSENT", user |-> None, from |-> None]]
    /\ expired = {}
    /\ req = [r \in Requests |-> Idle]
    /\ ended = {} /\ contested = {} /\ overtaken = {} /\ missed = {}

-------------------------------------------------------------------------------
(* The conditions and writes that several handlers share.  Variants named     *)
(* <definition>_<fault> are the definition with one plausible fault; no       *)
(* action uses them.                                                          *)

MayEnter_Anyone(u) == users[u].status # "ABSENT"
MayEnter(u) == users[u].status = "ACTIVE"

Usable_AnyRow(t) == tokens[t].status \in {"LIVE", "REVOKED"}
Usable(t) == tokens[t].status = "LIVE"

\* A client presents a token it was given, not expired.  One whose row is deleted is
\* turned away with no effect.
HasRow(t) == tokens[t].status \in {"LIVE", "REVOKED"}
Verifies(t) == HasRow(t) /\ t \notin expired

Create(u, password) ==
    users' = [users EXCEPT ![u] =
                 [status |-> "ACTIVE", password |-> password, google |-> ~password]]

SetStatus(u, s) == users' = [users EXCEPT ![u] = [@ EXCEPT !.status = s]]

Revoke(T) ==
    tokens' = [t \in Tokens |->
        IF t \in T THEN [tokens[t] EXCEPT !.status = "REVOKED"] ELSE tokens[t]]

-------------------------------------------------------------------------------
(* AuthService: accounts and sign-in *)

StartRegister(r, u) ==
    /\ req[r] = Idle
    /\ users[u].status = "ABSENT"
    /\ GoesTo(r, "register", u)
    /\ UNCHANGED <<users, tokens, expired>>

\* The address may have been taken since; the unique index then refuses the row.
RegisterRow(r) ==
    /\ At(r, "register")
    /\ IF users[req[r].user].status = "ABSENT"
       THEN Create(req[r].user, TRUE) ELSE UNCHANGED users
    /\ Becomes(r, Idle)
    /\ UNCHANGED <<tokens, expired>>

\* One read of the account; the password is verified after it.
Login(r, u) ==
    /\ req[r] = Idle
    /\ users[u].password /\ MayEnter(u)
    /\ Issues(r, u, None)
    /\ UNCHANGED <<users, tokens, expired>>

\* validateGoogleUser looks for the Google id first ...
GoogleById(r, u) ==
    /\ req[r] = Idle
    /\ \/ users[u].google /\ MayEnter(u) /\ Issues(r, u, None)
       \/ ~users[u].google /\ GoesTo(r, "byEmail", u)
    /\ UNCHANGED <<users, tokens, expired>>

\* ... then for the address, which Google may not have verified.
GoogleByEmail(r, verified) ==
    /\ At(r, "byEmail")
    /\ LET u == req[r].user IN
       \/ users[u].status = "ABSENT" /\ GoesTo(r, "signUp", u)
       \/ users[u].status # "ABSENT" /\ verified /\ MayEnter(u) /\ GoesTo(r, "link", u)
       \/ users[u].status # "ABSENT" /\ ~(verified /\ MayEnter(u)) /\ Becomes(r, Idle)
    /\ UNCHANGED <<users, tokens, expired>>

GoogleLink(r) ==
    /\ At(r, "link")
    /\ users' = [users EXCEPT ![req[r].user] = [@ EXCEPT !.google = TRUE]]
    /\ Issues(r, req[r].user, None)
    /\ UNCHANGED <<tokens, expired>>

GoogleSignUp(r) ==
    /\ At(r, "signUp")
    /\ LET u == req[r].user IN
       \/ users[u].status = "ABSENT" /\ Create(u, FALSE) /\ Issues(r, u, None)
       \/ users[u].status # "ABSENT" /\ Becomes(r, Idle) /\ UNCHANGED users
    /\ UNCHANGED <<tokens, expired>>

\* issueTokens: the new row, and the answer with the token.
Issue(r) ==
    /\ At(r, "issue")
    /\ \E t \in Tokens :
         /\ tokens[t].status = "ABSENT"
         /\ tokens' = [tokens EXCEPT ![t] =
                [status |-> "LIVE", user |-> req[r].user, from |-> req[r].from]]
    /\ Becomes(r, Idle)
    /\ UNCHANGED <<users, expired>>

\* Bound: the model has no ids left.
OutOfIds(r) ==
    /\ At(r, "issue")
    /\ \A t \in Tokens : tokens[t].status # "ABSENT"
    /\ Becomes(r, Idle)
    /\ UNCHANGED <<users, tokens, expired>>

-------------------------------------------------------------------------------
(* AuthService: the life of a refresh token *)

\* refresh reads the row.  A revoked one is a reuse.
StartRefresh(r, t) ==
    /\ req[r] = Idle
    /\ Verifies(t)
    /\ \/ Usable(t) /\ Presents(r, "checkUser", t)
       \/ ~Usable(t) /\ tokens[t].status = "REVOKED" /\ GoesTo(r, "revokeAll", tokens[t].user)
    /\ UNCHANGED <<users, tokens, expired>>

RefreshUser(r) ==
    /\ At(r, "checkUser")
    /\ IF MayEnter(tokens[req[r].token].user)
       THEN Presents(r, "rotate", req[r].token) ELSE Becomes(r, Idle)
    /\ UNCHANGED <<users, tokens, expired>>

\* The update names the row by its id alone, and fails if the row is gone.
Rotate(r) ==
    /\ At(r, "rotate")
    /\ LET t == req[r].token IN
       \/ /\ tokens[t].status # "DELETED"
          /\ Revoke({t})
          /\ Issues(r, tokens[t].user, t)
       \/ tokens[t].status = "DELETED" /\ Becomes(r, Idle) /\ UNCHANGED tokens
    /\ UNCHANGED <<users, expired>>

\* The last step of a detected reuse, and of a suspension.
RevokeAll(r) ==
    /\ At(r, "revokeAll")
    /\ Revoke(LiveOf(req[r].user))
    /\ Becomes(r, Idle)
    /\ UNCHANGED <<users, expired>>

\* JwtAuthGuard lets an active account in; the cookie has the token.
StartLogout(r, u, t) ==
    /\ req[r] = Idle
    /\ MayEnter(u)
    /\ Verifies(t)
    /\ Presents(r, "logout", t)
    /\ UNCHANGED <<users, tokens, expired>>

LogoutRow(r) ==
    /\ At(r, "logout")
    /\ Revoke({req[r].token} \cap {t \in Tokens : tokens[t].status = "LIVE"})
    /\ Becomes(r, Idle)
    /\ UNCHANGED <<users, expired>>

\* Time to live passes.  For a revoked token that only takes behaviours away.
Expire(t) ==
    /\ tokens[t].status = "LIVE" /\ t \notin expired
    /\ expired' = expired \cup {t}
    /\ UNCHANGED <<users, tokens, req>>

Stale == {t \in Tokens : HasRow(t) /\ (tokens[t].status = "REVOKED" \/ t \in expired)}

\* The job that runs every night: one statement.
CleanupStaleRefreshTokens ==
    /\ Stale # {}
    /\ tokens' = [t \in Tokens |->
           IF t \in Stale THEN [tokens[t] EXCEPT !.status = "DELETED"] ELSE tokens[t]]
    /\ expired' = expired \ Stale
    /\ UNCHANGED <<users, req>>

-------------------------------------------------------------------------------
(* UsersService: the admin *)

StartSuspend(r, u) ==
    /\ req[r] = Idle
    /\ users[u].status = "ACTIVE"
    /\ GoesTo(r, "suspend", u)
    /\ UNCHANGED <<users, tokens, expired>>

SuspendRow_KeepsTokens(r) ==
    /\ At(r, "suspend")
    /\ SetStatus(req[r].user, "SUSPENDED")
    /\ Becomes(r, Idle)
    /\ UNCHANGED <<tokens, expired>>
SuspendRow(r) ==
    /\ At(r, "suspend")
    /\ SetStatus(req[r].user, "SUSPENDED")
    /\ GoesTo(r, "revokeAll", req[r].user)
    /\ UNCHANGED <<tokens, expired>>

StartReactivate(r, u) ==
    /\ req[r] = Idle
    /\ users[u].status = "SUSPENDED"
    /\ GoesTo(r, "reactivate", u)
    /\ UNCHANGED <<users, tokens, expired>>

ReactivateRow(r) ==
    /\ At(r, "reactivate")
    /\ SetStatus(req[r].user, "ACTIVE")
    /\ Becomes(r, Idle)
    /\ UNCHANGED <<tokens, expired>>

\* The process dies, or the store fails, at an await.
Abort(r) ==
    /\ req[r] # Idle
    /\ Becomes(r, Idle)
    /\ UNCHANGED <<users, tokens, expired>>

-------------------------------------------------------------------------------
(* What the history variables see of a step; they never enable or block one. *)

Moves(r) == req'[r] # req[r]
Rotates(r, t) == At(r, "rotate") /\ req[r].token = t /\ Moves(r)
HasFoundLive(r, t) ==
    (At(r, "checkUser") \/ At(r, "rotate")) /\ req[r].token = t /\ ~Moves(r)

\* r has passed the last check of u's account.
HasEntered(r, u) ==
    \/ (At(r, "issue") \/ At(r, "link")) /\ req[r].user = u
    \/ At(r, "rotate") /\ tokens[req[r].token].user = u

Observe ==
    LET revoked == {t \in Tokens : tokens[t].status = "LIVE" /\ tokens'[t].status = "REVOKED"}
        issued(r) == {t \in Tokens : At(r, "issue") /\ Moves(r)
                                     /\ tokens'[t].status # tokens[t].status}
        left(r) == IF At(r, "revokeAll") THEN LiveOf(req[r].user) ELSE {}
    IN
    /\ ended' = ended \cup {t \in revoked : \A r \in Requests : ~Rotates(r, t)}
    /\ contested' = contested \cup
           {t \in revoked : \E r \in Requests : HasFoundLive(r, t)}
    /\ overtaken' = {r \in Requests : req'[r] # Idle /\
           \/ r \in overtaken
           \/ \E u \in Users : /\ users[u].status = "ACTIVE"
                               /\ users'[u].status = "SUSPENDED"
                               /\ HasEntered(r, u)}
    /\ missed' = {t \in Tokens : tokens'[t].status = "LIVE" /\
           \/ t \in missed
           \/ \E r \in overtaken : t \in issued(r)
           \/ \E r \in Requests : Moves(r) /\ t \in left(r)}

Handle(r) ==
    \/ \E u \in Users :
         \/ StartRegister(r, u) \/ Login(r, u) \/ GoogleById(r, u)
         \/ StartSuspend(r, u) \/ StartReactivate(r, u)
         \/ \E t \in Tokens : StartLogout(r, u, t)
    \/ \E t \in Tokens : StartRefresh(r, t)
    \/ \E verified \in BOOLEAN : GoogleByEmail(r, verified)
    \/ RegisterRow(r) \/ GoogleLink(r) \/ GoogleSignUp(r) \/ Issue(r) \/ OutOfIds(r)
    \/ RefreshUser(r) \/ Rotate(r) \/ RevokeAll(r) \/ LogoutRow(r)
    \/ SuspendRow(r) \/ ReactivateRow(r) \/ Abort(r)

Step ==
    \/ \E r \in Requests : Handle(r)
    \/ \E t \in Tokens : Expire(t)
    \/ CleanupStaleRefreshTokens

Next == Step /\ Observe

Spec == Init /\ [][Next]_vars

-------------------------------------------------------------------------------
(* Properties *)

\* Rows and continuations have the shapes of schema.prisma and of the handlers.
TypeOK ==
    /\ users \in [Users -> [status : AccountStatus, password : BOOLEAN, google : BOOLEAN]]
    /\ tokens \in [Tokens -> [status : TokenStatus, user : Users \cup {None},
                              from : Tokens \cup {None}]]
    /\ req \in [Requests -> Continuations]
    /\ expired \cup ended \cup contested \cup missed \subseteq Tokens
    /\ overtaken \subseteq Requests

\* A refresh token is spent once: it was rotated into one successor, or a logout, a
\* suspension or a reuse ended it, and never both.  The exception are the tokens that
\* two requests had read before either wrote, because the update of refresh does not
\* look at revokedAt again.
Successors(t) ==
    Cardinality({s \in Tokens : tokens[s].status # "ABSENT" /\ tokens[s].from = t})
    + Cardinality({r \in Requests : At(r, "issue") /\ req[r].from = t})
SpentOnce ==
    \A t \in Tokens \ contested : Successors(t) + (IF t \in ended THEN 1 ELSE 0) <= 1

\* A suspended account has no usable session, once the suspension has revoked its
\* tokens, but those of requests the suspension overtook, and those it left when it
\* died between its two writes.
SuspendedIsSignedOut ==
    \A u \in Users : users[u].status = "SUSPENDED" =>
        \/ LiveOf(u) \subseteq missed
        \/ \E r \in Requests : At(r, "revokeAll") /\ req[r].user = u

\* A request never gains a session for an account that is suspended when it is
\* checked: what is about to issue for a suspended account was overtaken.
NoEntryWhileSuspended ==
    \A r \in Requests, u \in Users :
        users[u].status = "SUSPENDED" /\ HasEntered(r, u) => r \in overtaken

===============================================================================
