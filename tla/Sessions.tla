------------------------------- MODULE Sessions -------------------------------
(***************************************************************************)
(* Operators' sessions: registration, login, rotation of the refresh token *)
(* and logout (auth/service.go, api/auth.go), over the table               *)
(* refresh_tokens and the cookie each browser keeps.                       *)
(*                                                                         *)
(* Every query is one step, and so is the arrival of an answer: two tabs   *)
(* of one browser may present the same cookie, and answers may come in     *)
(* another order than the requests were sent.  Access tokens are signed    *)
(* and kept nowhere; they change no state and are left out.                *)
(***************************************************************************)
EXTENDS Naturals, FiniteSets

CONSTANTS
    None,
    Users,       \* e-mail addresses; an operator account per address
    Browsers,    \* each keeps one refresh cookie
    Requests,    \* requests the API serves at a time
    MaxTokens,   \* bound on refresh tokens ever issued
    RefreshTTL,  \* lifetime of a refresh token
    Horizon,     \* bound on the clock
    MaxFaults    \* bound on failed calls and lost answers

Tokens == 1..MaxTokens

\* A row of refresh_tokens.
TokenRow == [user : Users, parent : Tokens \cup {None},
             expires : RefreshTTL..Horizon + RefreshTTL, revoked : BOOLEAN]

ASSUME SessionConstants ==
    /\ None \notin Users \cup Browsers \cup Tokens \cup TokenRow
    /\ MaxTokens \in Nat /\ RefreshTTL \in Nat /\ Horizon \in Nat /\ MaxFaults \in Nat

VARIABLES
    users,     \* user -> "none", "active" or "inactive"
    tokens,    \* token -> row, None when not issued
    cookie,    \* browser -> refresh token or None
    req,       \* requests in progress
    now,       \* the clock
    signedIn,  \* history: browsers that were given a session and did not end it
    ended,     \* history: tokens whose browser was told it is logged out
    overlapped,\* history: tokens two requests presented at the same time
    crossed,   \* history: browsers that had two requests under way
    faults     \* failed calls and lost answers so far

vars == <<users, tokens, cookie, req, now, signedIn, ended, overlapped, crossed, faults>>

history == <<signedIn, ended, overlapped, crossed>>

Row(u, parent, exp) == [user |-> u, parent |-> parent, expires |-> exp, revoked |-> FALSE]

NoRequest == [pc |-> "idle", browser |-> None, token |-> None, user |-> None, made |-> None]

Init ==
    /\ users = [u \in Users |-> "none"]
    /\ tokens = [t \in Tokens |-> None]
    /\ cookie = [b \in Browsers |-> None]
    /\ req = [r \in Requests |-> NoRequest]
    /\ now = 0
    /\ signedIn = {} /\ ended = {} /\ overlapped = {} /\ crossed = {}
    /\ faults = 0

-----------------------------------------------------------------------------
(* The store. *)

Issued == {t \in Tokens : tokens[t] # None}

\* Mutant: a revoked token is good until it expires.
IsUnexpired(t) == now < tokens[t].expires

\* RefreshTokenRecord.IsActive: not revoked and strictly before its expiry.
IsActive(t) == ~tokens[t].revoked /\ now < tokens[t].expires

\* Tokens are random: the next one has never been given.
NextToken == CHOOSE t \in Tokens : t \notin Issued

CreateRefreshToken(u, parent) ==
    /\ Issued # Tokens
    /\ tokens' = [tokens EXCEPT ![NextToken] = Row(u, parent, now + RefreshTTL)]

\* Mutant: rotation ends every session of the user.
RevokeAllUserRefreshTokens(t) ==
    tokens' = [s \in Tokens |->
        IF s \in Issued /\ tokens[s].user = tokens[t].user
        THEN [tokens[s] EXCEPT !.revoked = TRUE] ELSE tokens[s]]

CreateUser(u) == users' = [users EXCEPT ![u] = "active"]
GetUserByEmail(u) == users[u]
GetUserByID(u) == users[u]
GetRefreshToken(t) == tokens[t]

\* UPDATE ... WHERE token_hash AND revoked_at IS NULL.
RevokeRefreshToken(t) ==
    tokens' = [tokens EXCEPT ![t].revoked = TRUE]

-----------------------------------------------------------------------------
(* Requests.  `made' is the token issued for the answer. *)

Busy(b) == \E r \in Requests : req[r].browser = b

Presented(t) == \E r \in Requests : req[r].token = t

Begin(r, b, pc, t, u) ==
    /\ req[r].pc = "idle"
    /\ req' = [req EXCEPT ![r] = [pc |-> pc, browser |-> b, token |-> t,
                                  user |-> u, made |-> None]]
    /\ crossed' = IF Busy(b) THEN crossed \cup {b} ELSE crossed
    /\ overlapped' = IF t # None /\ Presented(t) THEN overlapped \cup {t} ELSE overlapped

Goto(r, pc) == req' = [req EXCEPT ![r].pc = pc]

\* CreateUserWithAccount is one transaction; the address is unique.
Register(u) == GetUserByEmail(u) = "none" /\ CreateUser(u)

\* The right password of an active user; anything else is refused.
Login(u) == GetUserByEmail(u) = "active"

handleRegister(r, b, u) ==
    /\ Register(u)
    /\ Begin(r, b, "issue", None, u)
    /\ UNCHANGED <<tokens, cookie, now, signedIn, ended, faults>>

handleLogin(r, b, u) ==
    /\ Login(u)
    /\ Begin(r, b, "issue", None, u)
    /\ UNCHANGED <<users, tokens, cookie, now, signedIn, ended, faults>>

\* The cookie goes out with the request.
handleRefresh(r, b) ==
    /\ cookie[b] # None
    /\ Begin(r, b, "lookup", cookie[b], None)
    /\ UNCHANGED <<users, tokens, cookie, now, signedIn, ended, faults>>

handleLogout(r, b) ==
    /\ cookie[b] # None
    /\ Begin(r, b, "logout", cookie[b], None)
    /\ signedIn' = signedIn \ {b}
    /\ UNCHANGED <<users, tokens, cookie, now, ended, faults>>

\* Refresh reads the row and tests it ...
RefreshTokenByHash(r) ==
    /\ req[r].pc = "lookup"
    /\ Goto(r, IF IsActive(req[r].token) THEN "rotate" ELSE "deny")
    /\ UNCHANGED <<users, tokens, cookie, now, history, faults>>

\* ... revokes it whether or not somebody else has done so since ...
Rotate(r) ==
    /\ req[r].pc = "rotate"
    /\ RevokeRefreshToken(req[r].token)
    /\ Goto(r, "user")
    /\ UNCHANGED <<users, cookie, now, history, faults>>

\* ... loads its user ...
UserByID(r) ==
    /\ req[r].pc = "user"
    /\ LET u == GetRefreshToken(req[r].token).user IN
       req' = [req EXCEPT ![r].pc = IF GetUserByID(u) = "active" THEN "issue" ELSE "deny",
                          ![r].user = u]
    /\ UNCHANGED <<users, tokens, cookie, now, history, faults>>

\* ... and issues a pair, as registration and login do.
issueTokens(r) ==
    /\ req[r].pc = "issue"
    /\ CreateRefreshToken(req[r].user, req[r].token)
    /\ req' = [req EXCEPT ![r].pc = "grant", ![r].made = NextToken]
    /\ UNCHANGED <<users, cookie, now, history, faults>>

\* Mutant: logging out forgets the cookie and leaves the token.
LogoutKeepsToken(r) ==
    /\ req[r].pc = "logout"
    /\ Goto(r, "bye")
    /\ UNCHANGED <<users, tokens, cookie, now, history, faults>>

Logout(r) ==
    /\ req[r].pc = "logout"
    /\ RevokeRefreshToken(req[r].token)
    /\ Goto(r, "bye")
    /\ UNCHANGED <<users, cookie, now, history, faults>>

Answer(r) == req' = [req EXCEPT ![r] = NoRequest]

\* writeAuthResult: the cookie arrives.
writeAuthResult(r) ==
    /\ req[r].pc = "grant"
    /\ cookie' = [cookie EXCEPT ![req[r].browser] = req[r].made]
    /\ signedIn' = signedIn \cup {req[r].browser}
    /\ Answer(r)
    /\ UNCHANGED <<users, tokens, now, ended, overlapped, crossed, faults>>

\* clearRefreshCookie, after 401 on refresh and after logout.
clearRefreshCookie(r) ==
    /\ req[r].pc \in {"deny", "bye"}
    /\ cookie' = [cookie EXCEPT ![req[r].browser] = None]
    /\ ended' = IF req[r].pc = "bye" THEN ended \cup {req[r].token} ELSE ended
    /\ Answer(r)
    /\ UNCHANGED <<users, tokens, now, signedIn, overlapped, crossed, faults>>

\* A query fails (500, the cookie stays) or the answer is lost on its way.
RequestFails(r) ==
    /\ req[r].pc # "idle"
    /\ faults < MaxFaults /\ faults' = faults + 1
    /\ Answer(r)
    /\ UNCHANGED <<users, tokens, cookie, now, history>>

\* The user is switched off in the database; no handler does it.
Deactivate(u) ==
    /\ users[u] = "active"
    /\ users' = [users EXCEPT ![u] = "inactive"]
    /\ UNCHANGED <<tokens, cookie, req, now, history, faults>>

Tick ==
    /\ now < Horizon /\ now' = now + 1
    /\ UNCHANGED <<users, tokens, cookie, req, history, faults>>

-----------------------------------------------------------------------------

Serve(r) ==
    \/ RefreshTokenByHash(r) \/ Rotate(r) \/ UserByID(r) \/ issueTokens(r)
    \/ Logout(r) \/ writeAuthResult(r) \/ clearRefreshCookie(r)

Next ==
    \/ \E r \in Requests :
         \/ \E b \in Browsers :
              \/ \E u \in Users : handleRegister(r, b, u) \/ handleLogin(r, b, u)
              \/ handleRefresh(r, b) \/ handleLogout(r, b)
         \/ Serve(r) \/ RequestFails(r)
    \/ \E u \in Users : Deactivate(u)
    \/ Tick

Spec == Init /\ [][Next]_vars

-----------------------------------------------------------------------------
(* Properties. *)

\* The type of the state.
TypeOK ==
    /\ users \in [Users -> {"none", "active", "inactive"}]
    /\ tokens \in [Tokens -> {None} \cup TokenRow]
    /\ cookie \in [Browsers -> Issued \cup {None}]
    /\ req \in [Requests ->
         [pc : {"idle", "lookup", "rotate", "user", "issue", "grant", "deny", "logout", "bye"},
          browser : Browsers \cup {None}, token : Issued \cup {None},
          user : Users \cup {None}, made : Issued \cup {None}]]
    /\ now \in 0..Horizon /\ faults \in 0..MaxFaults
    /\ signedIn \subseteq Browsers /\ crossed \subseteq Browsers
    /\ ended \subseteq Tokens /\ overlapped \subseteq Tokens

Children(t) == {c \in Issued : tokens[c].parent = t}

(***************************************************************************)
(* A refresh token is worth one successor: a second one exists only when   *)
(* two requests presented the token at the same time, both finding it      *)
(* unrevoked (Service.Refresh reads, then revokes whatever it finds).      *)
(***************************************************************************)
ForksCostOverlap ==
    \A t \in Issued : t \notin overlapped => Cardinality(Children(t)) <= 1

(***************************************************************************)
(* Rotation never signs out who did nothing wrong: a browser that was      *)
(* given a session, ended none, never had two requests under way and lost  *)
(* no answer holds a token nobody has revoked, as long as its user is      *)
(* active and the token has not expired, whatever the other browsers of    *)
(* that user do (Service.Refresh, handleRefresh).                          *)
(***************************************************************************)
SessionIsKept ==
    \A b \in signedIn \ crossed :
        (faults = 0 /\ ~Busy(b)) =>
            \/ cookie[b] # None /\ ~tokens[cookie[b]].revoked
            \/ cookie[b] = None /\ \/ \E u \in Users : users[u] = "inactive"
                                   \/ now >= RefreshTTL

\* t and the tokens it was rotated into.
Line(t) == {t} \cup Children(t) \cup UNION {Children(c) : c \in Children(t)}

(***************************************************************************)
(* Logging out ends the session: once the browser is told so, neither the  *)
(* token it presented nor one it was rotated into is active, unless a      *)
(* refresh with the same token was under way or an answer was lost         *)
(* (Service.Logout revokes the presented token alone).                     *)
(***************************************************************************)
LogoutEndsSession ==
    faults = 0 => \A t \in ended \ overlapped : \A s \in Line(t) : ~IsActive(s)

=============================================================================
