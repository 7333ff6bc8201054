--------------------------- MODULE SessionsProofs ---------------------------
(***************************************************************************)
(* Theorems about Sessions, for any number of users, browsers, concurrent  *)
(* requests and tokens.                                                    *)
(***************************************************************************)
EXTENDS Sessions, FiniteSetTheorems, TLAPS

-----------------------------------------------------------------------------
(* The inductive invariant.                                                *)

\* The requests of the type invariant, by the tokens issued so far.
Call(issued) ==
    [pc : {"idle", "lookup", "rotate", "user", "issue", "grant", "deny", "logout", "bye"},
     browser : Browsers \cup {None}, token : issued \cup {None},
     user : Users \cup {None}, made : issued \cup {None}]

\* What the place of a request says about the rest of it.
Shape(r) ==
    /\ req[r].pc = "idle" => req[r] = NoRequest
    /\ req[r].pc # "idle" => req[r].browser \in Browsers
    /\ req[r].pc \in {"lookup", "rotate", "user", "deny", "logout", "bye"} => req[r].token # None
    /\ req[r].pc = "issue" => req[r].user # None
    /\ req[r].pc = "grant" <=> req[r].made # None
    /\ req[r].pc = "bye" => tokens[req[r].token].revoked

\* Sessions are of users who have registered, and tokens come of tokens.
Registered ==
    /\ \A t \in Issued : /\ users[tokens[t].user] # "none"
                         /\ tokens[t].parent \in Issued \cup {None}
    /\ \A r \in Requests : req[r].user # None => users[req[r].user] # "none"
    /\ ended \subseteq Issued

Childless(t) == \A c \in Issued : tokens[c].parent # t

\* A token that is on its way to the browser is nowhere else yet.
Unseen(r, t) ==
    req[r].made = t =>
        /\ ~tokens[t].revoked /\ t \notin ended /\ Childless(t)
        /\ \A b \in Browsers : cookie[b] # t
        /\ \A s \in Requests : req[s].token # t /\ (req[s].made = t => s = r)

\* No token is ever in the hands of two browsers.
Exclusive ==
    /\ \A b, c \in Browsers : cookie[b] = cookie[c] => cookie[b] = None \/ b = c
    /\ \A r \in Requests : \A b \in Browsers :
         req[r].token = cookie[b] => cookie[b] = None \/ req[r].browser = b
    /\ \A r, s \in Requests :
         req[r].token = req[s].token => req[r].token = None \/ req[r].browser = req[s].browser

\* The requests that found the token good have still to issue its successor.
Rotating == {"rotate", "user", "issue"}
Rotation(t) ==
    /\ \A r, s \in Requests : req[r].token = t /\ req[s].token = t => r = s
    /\ \A r \in Requests : req[r].token = t /\ req[r].pc \in {"user", "issue"} => tokens[t].revoked
    /\ Childless(t) \/ tokens[t].revoked
    /\ \A r \in Requests : req[r].token = t /\ req[r].pc \in Rotating => Childless(t)
    /\ \A c, d \in Issued : tokens[c].parent = t /\ tokens[d].parent = t => c = d

\* Without faults: a token that has a successor is in its browser only as
\* long as the answer is under way, so whoever logs out has the last one.
Ending(t) ==
    /\ \A b \in Browsers : cookie[b] = t =>
         Childless(t) \/ \E r \in Requests : req[r].token = t /\ req[r].pc = "grant"
    /\ \A r \in Requests : req[r].token = t /\ req[r].pc \in {"logout", "bye"} => Childless(t)
    /\ t \in ended =>
         /\ tokens[t].revoked /\ Childless(t)
         /\ \A r \in Requests : req[r].token = t => req[r].pc \notin Rotating

\* Without faults: what a browser whose requests never cross has in hand.
Over == (\E u \in Users : users[u] = "inactive") \/ now >= RefreshTTL
Good(b) == IF cookie[b] = None THEN Over ELSE ~tokens[cookie[b]].revoked
Lone(b) == \A r, s \in Requests : req[r].browser = b /\ req[s].browser = b => r = s
Kept(b) ==
    /\ ~Busy(b) => Good(b)
    /\ \A r \in Requests : req[r].browser = b =>
         /\ req[r].pc \notin {"logout", "bye"}
         /\ req[r].pc \in {"lookup", "rotate"} => Good(b) /\ req[r].token = cookie[b]
         /\ req[r].pc = "issue" /\ req[r].token = None => Good(b)
         /\ req[r].pc = "deny" => Over

Tracked ==
    /\ TypeOK
    /\ \A r \in Requests : Shape(r)
    /\ Registered
    /\ \A r \in Requests : \A t \in Issued : Unseen(r, t)
    /\ Exclusive
Rotations == \A t \in Issued \ overlapped : Rotation(t)
Endings == faults = 0 => \A t \in Issued \ overlapped : Ending(t)
Keeping ==
    /\ \A b \in Browsers \ crossed : Lone(b)
    /\ faults = 0 => \A b \in signedIn \ crossed : Kept(b)
Inv == Tracked /\ Rotations /\ Endings /\ Keeping

-----------------------------------------------------------------------------
(* The rows of refresh_tokens.                                             *)

LEMMA Facts ==
    ASSUME Tracked
    PROVE  /\ Issued \subseteq Tokens /\ None \notin Issued
           /\ tokens \in [Tokens -> {None} \cup TokenRow]
           /\ \A t \in Issued : tokens[t] \in TokenRow
           /\ req \in [Requests -> Call(Issued)]
           /\ cookie \in [Browsers -> Issued \cup {None}]
           /\ None \notin Browsers /\ None \notin Users
BY SessionConstants DEF Tracked, TypeOK, Issued, Call

\* Revocation changes one flag of one row.
LEMMA RevokedRow ==
    ASSUME Tracked, NEW t \in Issued, RevokeRefreshToken(t)
    PROVE  /\ Issued' = Issued /\ tokens' \in [Tokens -> {None} \cup TokenRow]
           /\ \A s \in Issued : /\ tokens'[s].user = tokens[s].user
                                /\ tokens'[s].parent = tokens[s].parent
                                /\ s # t => tokens'[s] = tokens[s]
           /\ tokens'[t].revoked = TRUE
<1>1. /\ Issued \subseteq Tokens /\ tokens[t] \in TokenRow /\ None \notin TokenRow
      /\ tokens \in [Tokens -> {None} \cup TokenRow]
  BY Facts, SessionConstants
<1> DEFINE new == [tokens[t] EXCEPT !.revoked = TRUE]
<1>2. /\ new \in TokenRow /\ new.user = tokens[t].user /\ new.parent = tokens[t].parent
      /\ new.revoked = TRUE
  BY <1>1 DEF TokenRow
<1> HIDE DEF new
<1>3. tokens' = [tokens EXCEPT ![t] = new]
  BY DEF RevokeRefreshToken, new
<1>4. tokens'[t] = new /\ (\A s \in Tokens : s # t => tokens'[s] = tokens[s])
      /\ tokens' \in [Tokens -> {None} \cup TokenRow]
  BY <1>1, <1>2, <1>3
<1>5. Issued' = Issued
  BY <1>1, <1>2, <1>4 DEF Issued
<1> QED BY <1>1, <1>2, <1>4, <1>5

\* A new row is of a token never given before.
LEMMA CreatedRow ==
    ASSUME Tracked, NEW u \in Users, NEW p \in Issued \cup {None}, CreateRefreshToken(u, p)
    PROVE  \E n \in Tokens :
             /\ n = NextToken /\ n \notin Issued /\ Issued' = Issued \cup {n}
             /\ tokens' \in [Tokens -> {None} \cup TokenRow]
             /\ \A s \in Issued : tokens'[s] = tokens[s]
             /\ tokens'[n].user = u /\ tokens'[n].parent = p /\ tokens'[n].revoked = FALSE
<1>1. /\ Issued \subseteq Tokens /\ None \notin TokenRow /\ tokens \in [Tokens -> {None} \cup TokenRow]
  BY Facts, SessionConstants
<1>2. NextToken \in Tokens /\ NextToken \notin Issued
  <2>1. \E t \in Tokens : t \notin Issued
    BY <1>1 DEF CreateRefreshToken
  <2> QED BY <2>1 DEF NextToken
<1>3. PICK n \in Tokens : n = NextToken
  BY <1>2
<1> DEFINE new == Row(u, p, now + RefreshTTL)
<1>4. now + RefreshTTL \in RefreshTTL..Horizon + RefreshTTL
  BY SessionConstants DEF Tracked, TypeOK
<1>5. new \in TokenRow /\ new.user = u /\ new.parent = p /\ new.revoked = FALSE
  BY <1>1, <1>4 DEF Row, TokenRow
<1> HIDE DEF new
<1>6. tokens' = [tokens EXCEPT ![n] = new]
  BY <1>3 DEF CreateRefreshToken, new
<1>7. tokens'[n] = new /\ (\A s \in Tokens : s # n => tokens'[s] = tokens[s])
      /\ tokens' \in [Tokens -> {None} \cup TokenRow]
  BY <1>1, <1>5, <1>6
<1>8. Issued' = Issued \cup {n}
  BY <1>1, <1>5, <1>7 DEF Issued
<1> QED BY <1>1, <1>2, <1>3, <1>5, <1>7, <1>8

-----------------------------------------------------------------------------
(* Every step keeps the invariant.                                         *)

\* A request begins: register, login, refresh and logout.
LEMMA BeginKeepsInv ==
    ASSUME Inv, NEW r \in Requests, NEW b \in Browsers, NEW pc \in {"issue", "lookup", "logout"},
           NEW t \in Issued \cup {None}, NEW u \in Users \cup {None}, Begin(r, b, pc, t, u),
           UNCHANGED <<tokens, cookie, now, ended, faults>>,
           users' \in [Users -> {"none", "active", "inactive"}],
           \A v \in Users : users[v] # "none" => users'[v] = users[v],
           pc = "issue" => t = None /\ u # None /\ users'[u] # "none",
           pc # "issue" => t = cookie[b] /\ t # None /\ u = None,
           signedIn' \subseteq signedIn, pc = "logout" => b \notin signedIn'
    PROVE  Inv'
<1> DEFINE new == [pc |-> pc, browser |-> b, token |-> t, user |-> u, made |-> None]
<1>0. /\ Issued' = Issued /\ Issued \subseteq Tokens /\ None \notin Issued
      /\ req \in [Requests -> Call(Issued)] /\ None \notin Browsers
      /\ req[r].pc = "idle" /\ req[r] = NoRequest
  BY Facts DEF Issued, Inv, Tracked, Shape, Begin
<1>1. new \in Call(Issued) /\ new.pc = pc /\ new.browser = b /\ new.token = t /\ new.user = u
      /\ new.made = None
  BY DEF Call
<1> HIDE DEF new
<1>2. /\ req' \in [Requests -> Call(Issued)] /\ req'[r] = new
      /\ \A s \in Requests : s # r => req'[s] = req[s]
  BY <1>0, <1>1 DEF Begin, new
<1>3. /\ crossed \subseteq crossed' /\ crossed' \subseteq Browsers
      /\ overlapped \subseteq overlapped' /\ overlapped' \subseteq Tokens
      /\ b \notin crossed' => ~Busy(b)
      /\ t = None \/ t \in overlapped' \/ ~Presented(t)
  BY <1>0 DEF Begin, Inv, Tracked, TypeOK
<1>4. TypeOK'
  BY <1>0, <1>2, <1>3 DEF Inv, Tracked, TypeOK, Call
<1>5. \A s \in Requests : Shape(s)'
  BY <1>0, <1>1, <1>2 DEF Inv, Tracked, Shape
<1>6. Registered'
  <2>1. \A x \in Issued : tokens[x].user \in Users
    BY Facts DEF Inv, TokenRow
  <2>2. \A s \in Requests : req[s].user \in Users \cup {None}
    BY <1>0 DEF Call
  <2> QED BY <1>0, <1>1, <1>2, <2>1, <2>2 DEF Inv, Tracked, Registered
<1>7. \A s \in Requests : \A x \in Issued : Unseen(s, x)'
  BY <1>0, <1>1, <1>2 DEF Inv, Tracked, Unseen, Childless
<1>8. Exclusive'
  BY <1>0, <1>1, <1>2 DEF Inv, Tracked, Exclusive
<1>9. Rotations'
  BY <1>0, <1>1, <1>2, <1>3 DEF Inv, Rotations, Rotation, Childless, Rotating, Presented
<1>10. Endings'
  BY <1>0, <1>1, <1>2, <1>3 DEF Inv, Endings, Ending, Childless, Rotating, Presented, NoRequest
<1>11. Keeping'
  <2>1. \A c \in Browsers \ crossed' : Lone(c)'
    BY <1>0, <1>1, <1>2, <1>3 DEF Inv, Keeping, Lone, Busy
  <2>2. \A c \in Browsers : Good(c) => Good(c)'
    BY DEF Good, Over
  <2>3. Over => Over'
    BY DEF Over
  <2>4. ASSUME faults = 0, NEW c \in signedIn' \ crossed' PROVE Kept(c)'
    <3>1. Kept(c) /\ c \in Browsers
      BY <1>3, <2>4 DEF Inv, Keeping, Tracked, TypeOK
    <3>2. CASE c = b
      BY <1>0, <1>1, <1>2, <1>3, <2>2, <3>1, <3>2, <2>4 DEF Kept, Busy
    <3>3. CASE c # b
      BY <1>0, <1>1, <1>2, <2>2, <2>3, <3>1, <3>3 DEF Kept, Busy, NoRequest
    <3> QED BY <3>2, <3>3
  <2> QED BY <2>1, <2>4 DEF Keeping
<1> QED BY <1>0, <1>4, <1>5, <1>6, <1>7, <1>8, <1>9, <1>10, <1>11 DEF Inv, Tracked

\* A request goes on, and reads or changes nothing but the row of the token it
\* presented: the test of Refresh, the revocations, the lookup of the user.
LEMMA GoesOnKeepsInv ==
    ASSUME Inv, NEW r \in Requests, NEW from, NEW to \in {"rotate", "deny", "user", "issue", "bye"},
           req[r].pc = from,
           <<from, to>> \in {<<"lookup", "rotate">>, <<"lookup", "deny">>, <<"rotate", "user">>,
                             <<"user", "issue">>, <<"user", "deny">>, <<"logout", "bye">>},
           to \in {"user", "bye"} => RevokeRefreshToken(req[r].token),
           to \notin {"user", "bye"} => UNCHANGED tokens,
           to = "rotate" => IsActive(req[r].token),
           <<from, to>> = <<"lookup", "deny">> => ~IsActive(req[r].token),
           NEW u \in {req[r].user, tokens[req[r].token].user},
           from # "user" => u = req[r].user, from = "user" => u = tokens[req[r].token].user,
           <<from, to>> = <<"user", "deny">> => users[u] # "active",
           req' = [req EXCEPT ![r].pc = to, ![r].user = u],
           UNCHANGED <<users, cookie, now, history, faults>>
    PROVE  Inv'
<1> DEFINE t == req[r].token
           new == [req[r] EXCEPT !.pc = to, !.user = u]
<1>0. /\ Issued \subseteq Tokens /\ None \notin Issued /\ req \in [Requests -> Call(Issued)]
      /\ None \notin Browsers /\ None \notin Users /\ tokens \in [Tokens -> {None} \cup TokenRow]
      /\ \A x \in Issued : tokens[x] \in TokenRow
  BY Facts DEF Inv
<1>1. t \in Issued /\ req[r].browser \in Browsers /\ req[r].made = None
  <2>1. Shape(r)
    BY DEF Inv, Tracked
  <2>2. req[r] \in Call(Issued)
    BY <1>0
  <2> QED BY <2>1, <2>2 DEF Shape, Call
<1>2. /\ Issued' = Issued /\ tokens' \in [Tokens -> {None} \cup TokenRow]
      /\ \A s \in Issued : /\ tokens'[s].user = tokens[s].user
                           /\ tokens'[s].parent = tokens[s].parent
                           /\ s # t => tokens'[s] = tokens[s]
      /\ to \in {"user", "bye"} => tokens'[t].revoked
      /\ to \notin {"user", "bye"} => tokens'[t] = tokens[t]
  <2>1. CASE to \in {"user", "bye"}
    BY <1>1, <2>1, RevokedRow DEF Inv
  <2>2. CASE to \notin {"user", "bye"}
    BY <1>0, <1>1, <2>2 DEF Issued
  <2> QED BY <2>1, <2>2
<1>3. u \in Users \cup {None} /\ (to = "issue" => u \in Users) /\ (u # None => users[u] # "none")
  <2>1. tokens[t].user \in Users /\ users[tokens[t].user] # "none"
    BY <1>0, <1>1 DEF TokenRow, Inv, Tracked, Registered
  <2>2. req[r].user \in Users \cup {None} /\ (req[r].user # None => users[req[r].user] # "none")
    BY <1>0 DEF Call, Inv, Tracked, Registered
  <2> QED BY <2>1, <2>2
<1>4. /\ new \in Call(Issued) /\ new.pc = to /\ new.browser = req[r].browser /\ new.token = t
      /\ new.user = u /\ new.made = None
  BY <1>0, <1>1, <1>3 DEF Call
<1>5. /\ req' \in [Requests -> Call(Issued)] /\ req'[r] = new
      /\ \A s \in Requests : s # r => req'[s] = req[s]
  <2>1. req' = [req EXCEPT ![r] = new]
    BY <1>0
  <2> HIDE DEF new
  <2> QED BY ZenonT(60), <1>0, <1>4, <2>1
<1> HIDE DEF new
<1>6. TypeOK'
  BY <1>0, <1>2, <1>5 DEF Inv, Tracked, TypeOK, Call, history
<1>7. \A s \in Requests : Shape(s)'
  <2>1. \A s \in Requests : req[s].token \in Issued \cup {None}
    BY <1>0 DEF Call
  <2> QED BY <1>0, <1>1, <1>2, <1>3, <1>4, <1>5, <2>1 DEF Inv, Tracked, Shape
<1>8. Registered'
  BY <1>0, <1>2, <1>3, <1>4, <1>5 DEF Inv, Tracked, Registered, history
<1>9. \A s \in Requests : \A x \in Issued : Unseen(s, x)'
  BY <1>0, <1>1, <1>2, <1>4, <1>5 DEF Inv, Tracked, Unseen, Childless, history
<1>10. Exclusive'
  BY <1>0, <1>4, <1>5 DEF Inv, Tracked, Exclusive
<1>11. \A x \in Issued : Childless(x)' <=> Childless(x)
  BY <1>2 DEF Childless
<1>12. Rotations'
  <2>1. SUFFICES ASSUME NEW x \in Issued \ overlapped PROVE Rotation(x)'
    BY <1>2 DEF Rotations, history
  <2>2. Rotation(x)
    BY DEF Inv, Rotations
  <2>3. CASE x # t
    BY <1>2, <1>4, <1>5, <1>11, <2>2, <2>3 DEF Rotation, Rotating
  <2>4. CASE x = t
    <3>1. to = "rotate" => Childless(x)
      BY <2>2, <2>4 DEF Rotation, IsActive
    <3> QED BY <1>2, <1>4, <1>5, <1>11, <2>2, <2>4, <3>1 DEF Rotation, Rotating
  <2> QED BY <2>3, <2>4
<1>13. Endings'
  <2>1. SUFFICES ASSUME faults = 0, NEW x \in Issued \ overlapped PROVE Ending(x)'
    BY <1>2 DEF Endings, history
  <2>2. Ending(x) /\ Rotation(x)
    BY <2>1 DEF Inv, Endings, Rotations
  <2>3. CASE x # t
    BY <1>2, <1>4, <1>5, <1>11, <2>2, <2>3 DEF Ending, Rotating, history
  <2>4. CASE x = t
    <3>1. to = "rotate" => ~tokens[x].revoked
      BY <2>4 DEF IsActive
    <3> QED BY <1>2, <1>4, <1>5, <1>11, <2>2, <2>4, <3>1 DEF Ending, Rotating, history
  <2> QED BY <2>3, <2>4
<1>14. Keeping'
  <2>1. \A c \in Browsers \ crossed' : Lone(c)'
    BY <1>4, <1>5 DEF Inv, Keeping, Lone, history
  <2>2. ASSUME faults = 0, NEW c \in signedIn \ crossed PROVE Kept(c)'
    <3>0. Kept(c) /\ Lone(c) /\ c \in Browsers /\ cookie[c] \in Issued \cup {None}
      BY <2>2 DEF Inv, Keeping, Tracked, TypeOK
    <3>1. Over' <=> Over
      BY DEF Over
    <3>2. CASE c # req[r].browser
      <4>1. cookie[c] # t
        BY <1>0, <1>1, <3>0, <3>2 DEF Inv, Tracked, Exclusive
      <4>2. Good(c)' <=> Good(c)
        BY <1>0, <1>2, <3>0, <3>1, <4>1 DEF Good
      <4>3. Busy(c)' <=> Busy(c)
        BY <1>4, <1>5 DEF Busy
      <4> QED BY <1>4, <1>5, <3>0, <3>1, <3>2, <4>2, <4>3 DEF Kept
    <3>3. CASE c = req[r].browser
      <4>1. Busy(c)' /\ \A s \in Requests : req'[s].browser = c => s = r
        BY <1>4, <1>5, <3>0, <3>3 DEF Busy, Lone
      <4>2. from # "logout" /\ (from \in {"lookup", "rotate"} => Good(c) /\ t = cookie[c])
        BY <3>0, <3>3 DEF Kept
      <4>3. to = "rotate" => Good(c)'
        BY <1>0, <1>2, <3>0, <3>1, <4>2 DEF Good
      <4>4. to = "deny" => Over
        <5>1. CASE from = "lookup" /\ to = "deny"
          <6>1. ~tokens[t].revoked /\ tokens[t].expires \in RefreshTTL..Horizon + RefreshTTL
            BY <1>0, <1>1, <4>2, <5>1 DEF Good, TokenRow
          <6>2. now >= tokens[t].expires /\ now \in Nat
            BY <1>0, <1>1, <5>1, <6>1, SessionConstants DEF IsActive, Inv, Tracked, TypeOK
          <6> QED BY <6>1, <6>2, SessionConstants DEF Over
        <5>2. CASE from = "user" /\ to = "deny"
          <6>1. u \in Users /\ users[u] # "none" /\ users[u] # "active"
            BY <1>0, <1>1, <1>3, <5>2 DEF TokenRow
          <6> QED BY <6>1 DEF Over, Inv, Tracked, TypeOK
        <5> QED BY <5>1, <5>2
      <4> QED BY <1>1, <1>4, <1>5, <3>0, <3>1, <4>1, <4>2, <4>3, <4>4, <1>0 DEF Kept
    <3> QED BY <3>2, <3>3
  <2> QED BY <2>1, <2>2 DEF Keeping, history
<1> QED BY <1>2, <1>6, <1>7, <1>8, <1>9, <1>10, <1>12, <1>13, <1>14 DEF Inv, Tracked

\* A successor is issued.
LEMMA IssueKeepsInv ==
    ASSUME Inv, NEW r \in Requests, issueTokens(r)
    PROVE  Inv'
<1> DEFINE t == req[r].token
<1>0. /\ Issued \subseteq Tokens /\ None \notin Issued /\ req \in [Requests -> Call(Issued)]
      /\ None \notin Browsers /\ None \notin Users /\ cookie \in [Browsers -> Issued \cup {None}]
      /\ \A x \in Issued : tokens[x] \in TokenRow
      /\ \A s \in Requests : /\ req[s].token \in Issued \cup {None}
                             /\ req[s].made \in Issued \cup {None}
  BY Facts DEF Inv, Call
<1>1. /\ req[r].pc = "issue" /\ req[r].user \in Users /\ users[req[r].user] # "none"
      /\ t \in Issued \cup {None} /\ req[r].browser \in Browsers
      /\ CreateRefreshToken(req[r].user, t) /\ UNCHANGED <<users, cookie, now, history, faults>>
  <2>1. Shape(r) /\ req[r].pc = "issue"
    BY DEF Inv, Tracked, issueTokens
  <2> QED BY <1>0, <2>1 DEF Shape, Call, issueTokens, Inv, Tracked, Registered
<1>2. PICK n \in Tokens :
             /\ n = NextToken /\ n \notin Issued /\ Issued' = Issued \cup {n}
             /\ tokens' \in [Tokens -> {None} \cup TokenRow]
             /\ \A s \in Issued : tokens'[s] = tokens[s]
             /\ tokens'[n].user = req[r].user /\ tokens'[n].parent = t /\ tokens'[n].revoked = FALSE
  <2>1. Tracked
    BY DEF Inv
  <2>2. \A u \in Users : \A p \in Issued \cup {None} : CreateRefreshToken(u, p) =>
          \E n \in Tokens :
             /\ n = NextToken /\ n \notin Issued /\ Issued' = Issued \cup {n}
             /\ tokens' \in [Tokens -> {None} \cup TokenRow]
             /\ \A s \in Issued : tokens'[s] = tokens[s]
             /\ tokens'[n].user = u /\ tokens'[n].parent = p /\ tokens'[n].revoked = FALSE
    BY <2>1, CreatedRow
  <2> HIDE DEF t
  <2> QED BY <1>1, <2>2
<1> DEFINE new == [req[r] EXCEPT !.pc = "grant", !.made = n]
<1>3. /\ new \in Call(Issued \cup {n}) /\ new.pc = "grant" /\ new.browser = req[r].browser
      /\ new.token = t /\ new.user = req[r].user /\ new.made = n
  BY <1>0, <1>1 DEF Call
<1>4. /\ req' \in [Requests -> Call(Issued')] /\ req'[r] = new
      /\ \A s \in Requests : s # r => req'[s] = req[s]
  <2>1. req' = [req EXCEPT ![r] = new]
    BY <1>0, <1>2 DEF issueTokens
  <2>2. \A s \in Requests : req[s] \in Call(Issued \cup {n})
    BY <1>0 DEF Call
  <2> HIDE DEF new
  <2>3. req' \in [Requests -> Call(Issued \cup {n})]
    BY <1>0, <1>3, <2>1, <2>2
  <2> QED BY <1>0, <1>2, <2>1, <2>3
<1> HIDE DEF new
<1>5. TypeOK'
  BY <1>0, <1>1, <1>2, <1>4 DEF Inv, Tracked, TypeOK, Call, history
<1>6. \A s \in Requests : Shape(s)'
  <2>1. n # None
    BY SessionConstants
  <2> QED BY <1>0, <1>1, <1>2, <1>3, <1>4, <2>1 DEF Inv, Tracked, Shape
<1>7. Registered'
  BY <1>0, <1>1, <1>2, <1>3, <1>4 DEF Inv, Tracked, Registered, history
<1>8. n # None /\ n # t /\ (\A x \in Issued : tokens[x].parent # n) /\ n \notin ended
  <2>1. n # None
    BY SessionConstants
  <2>2. n \notin ended
    BY <1>0, <1>2 DEF Inv, Tracked, Registered
  <2> QED BY <1>0, <1>1, <1>2, <2>1, <2>2 DEF Inv, Tracked, Registered
<1>9. Childless(n)' /\ \A x \in Issued : x # t => (Childless(x)' <=> Childless(x))
  BY <1>1, <1>2, <1>8 DEF Childless
<1>10. \A s \in Requests : \A x \in Issued' : Unseen(s, x)'
  <2>1. SUFFICES ASSUME NEW s \in Requests, NEW x \in Issued', req'[s].made = x PROVE Unseen(s, x)'
    BY DEF Unseen
  <2>2. CASE x = n
    BY <1>0, <1>1, <1>2, <1>3, <1>4, <1>8, <1>9, <2>1, <2>2 DEF Unseen, history
  <2>3. CASE x # n
    <3>1. x \in Issued /\ s # r /\ req[s].made = x /\ Unseen(s, x)
      BY <1>2, <1>3, <1>4, <2>1, <2>3 DEF Inv, Tracked
    <3>2. x # t
      BY <3>1 DEF Unseen
    <3> QED BY <1>1, <1>2, <1>3, <1>4, <1>9, <2>3, <3>1, <3>2 DEF Unseen, history
  <2> QED BY <2>2, <2>3
<1>11. Exclusive'
  BY <1>0, <1>1, <1>3, <1>4 DEF Inv, Tracked, Exclusive
<1>12. Rotations'
  <2>1. SUFFICES ASSUME NEW x \in Issued' \ overlapped PROVE Rotation(x)'
    BY <1>1 DEF Rotations, history
  <2>2. CASE x = n
    <3>1. \A s \in Requests : req'[s].token # n
      BY <1>0, <1>1, <1>2, <1>3, <1>4, <1>8
    <3> QED BY <1>9, <2>2, <3>1 DEF Rotation, Childless
  <2>3. CASE x # n /\ x # t
    <3>1. x \in Issued /\ Rotation(x)
      BY <1>2, <2>1, <2>3 DEF Inv, Rotations
    <3> QED BY <1>1, <1>2, <1>3, <1>4, <1>9, <2>3, <3>1 DEF Rotation, Rotating
  <2>4. CASE x = t
    <3>1. x \in Issued /\ Rotation(x)
      BY <1>1, <1>2, <1>8, <2>1, <2>4 DEF Inv, Rotations
    <3>2. Childless(x) /\ tokens[x].revoked /\ \A s \in Requests : req[s].token = x => s = r
      BY <1>1, <2>4, <3>1 DEF Rotation, Rotating
    <3> QED BY <1>2, <1>3, <1>4, <2>4, <3>1, <3>2 DEF Rotation, Rotating, Childless
  <2> QED BY <2>2, <2>3, <2>4
<1>13. Endings'
  <2>1. SUFFICES ASSUME faults = 0, NEW x \in Issued' \ overlapped PROVE Ending(x)'
    BY <1>1 DEF Endings, history
  <2>2. CASE x = n
    BY <1>0, <1>1, <1>2, <1>3, <1>4, <1>8, <1>9, <2>2 DEF Ending, history
  <2>3. CASE x # n
    <3>1. x \in Issued /\ Ending(x) /\ Rotation(x)
      BY <1>2, <2>1, <2>3 DEF Inv, Endings, Rotations
    <3>2. CASE x # t
      BY <1>1, <1>2, <1>3, <1>4, <1>9, <3>1, <3>2 DEF Ending, Rotating, history
    <3>3. CASE x = t
      <4>1. (\A s \in Requests : req[s].token = x => s = r) /\ x \notin ended
        BY <1>1, <3>1, <3>3 DEF Rotation, Ending, Rotating
      <4> QED BY <1>1, <1>3, <1>4, <3>3, <4>1 DEF Ending, history
    <3> QED BY <3>2, <3>3
  <2> QED BY <2>2, <2>3
<1>14. Keeping'
  <2>1. \A c \in Browsers \ crossed' : Lone(c)'
    BY <1>1, <1>3, <1>4 DEF Inv, Keeping, Lone, history
  <2>2. ASSUME faults = 0, NEW c \in signedIn \ crossed PROVE Kept(c)'
    <3>0. Kept(c) /\ Lone(c) /\ c \in Browsers /\ cookie[c] \in Issued \cup {None}
      BY <2>2 DEF Inv, Keeping, Tracked, TypeOK
    <3>1. (Over' <=> Over) /\ (Good(c)' <=> Good(c)) /\ (Busy(c)' <=> Busy(c))
      BY <1>1, <1>2, <1>3, <1>4, <3>0 DEF Over, Good, Busy
    <3> QED BY <1>1, <1>3, <1>4, <3>0, <3>1 DEF Kept
  <2> QED BY <1>1, <2>1, <2>2 DEF Keeping, history
<1> QED BY <1>5, <1>6, <1>7, <1>10, <1>11, <1>12, <1>13, <1>14 DEF Inv, Tracked

\* A request is over: the answer arrives, or is lost.  c is the cookie it
\* leaves in the browser.
LEMMA AnswerKeepsInv ==
    ASSUME Inv, NEW r \in Requests, req[r].pc # "idle", Answer(r), NEW c \in Issued \cup {None},
           cookie' = [cookie EXCEPT ![req[r].browser] = c], UNCHANGED <<users, tokens, now, overlapped, crossed>>,
           faults' \in 0..MaxFaults,
           \/ /\ req[r].pc = "grant" /\ c = req[r].made /\ signedIn' = signedIn \cup {req[r].browser}
              /\ UNCHANGED <<ended, faults>>
           \/ /\ req[r].pc = "deny" /\ c = None /\ UNCHANGED <<signedIn, ended, faults>>
           \/ /\ req[r].pc = "bye" /\ c = None /\ ended' = ended \cup {req[r].token}
              /\ UNCHANGED <<signedIn, faults>>
           \/ c = cookie[req[r].browser] /\ UNCHANGED <<signedIn, ended>> /\ faults' # 0
    PROVE  Inv'
<1> DEFINE b == req[r].browser
           t == req[r].token
<1>0. /\ Issued' = Issued /\ Issued \subseteq Tokens /\ None \notin Issued
      /\ req \in [Requests -> Call(Issued)] /\ cookie \in [Browsers -> Issued \cup {None}]
      /\ None \notin Browsers /\ b \in Browsers
      /\ \A s \in Requests : /\ req[s].token \in Issued \cup {None}
                             /\ req[s].made \in Issued \cup {None}
  <2>1. Shape(r)
    BY DEF Inv, Tracked
  <2> QED BY <2>1, Facts DEF Inv, Call, Shape, Issued
<1>1. /\ NoRequest \in Call(Issued) /\ NoRequest.pc = "idle" /\ NoRequest.browser = None
      /\ NoRequest.token = None /\ NoRequest.made = None /\ NoRequest.user = None
  BY DEF NoRequest, Call
<1>2. /\ req' \in [Requests -> Call(Issued)] /\ req'[r] = NoRequest
      /\ \A s \in Requests : s # r => req'[s] = req[s]
  BY <1>0, <1>1 DEF Answer
<1>3. /\ cookie' \in [Browsers -> Issued \cup {None}] /\ cookie'[b] = c
      /\ \A d \in Browsers : d # b => cookie'[d] = cookie[d]
  BY <1>0
<1>4. /\ req[r].pc = "grant" => req[r].made \in Issued /\ Unseen(r, req[r].made)
      /\ req[r].pc = "bye" => t \in Issued /\ tokens[t].revoked
  <2>1. Shape(r)
    BY DEF Inv, Tracked
  <2> QED BY <1>0, <2>1 DEF Shape, Inv, Tracked
<1>5. TypeOK'
  BY <1>0, <1>2, <1>3, <1>4 DEF Inv, Tracked, TypeOK, Call
<1>6. \A s \in Requests : Shape(s)'
  BY <1>0, <1>1, <1>2 DEF Inv, Tracked, Shape
<1>7. Registered'
  BY <1>0, <1>1, <1>2, <1>4 DEF Inv, Tracked, Registered
<1>8. \A x \in Issued : Childless(x)' <=> Childless(x)
  BY <1>0 DEF Childless
<1>9. \A s \in Requests : \A x \in Issued : Unseen(s, x)'
  <2>1. SUFFICES ASSUME NEW s \in Requests, NEW x \in Issued, req'[s].made = x PROVE Unseen(s, x)'
    BY DEF Unseen
  <2>2. s # r /\ req[s].made = x /\ Unseen(s, x)
    BY <1>0, <1>1, <1>2, <2>1 DEF Inv, Tracked
  <2>3. cookie'[b] # x /\ x \notin ended'
    BY <1>0, <1>3, <1>4, <2>2 DEF Unseen
  <2> QED BY <1>0, <1>1, <1>2, <1>3, <1>8, <2>1, <2>2, <2>3 DEF Unseen
<1>10. Exclusive'
  <2>1. CASE c = None \/ c = cookie[b]
    BY <1>0, <1>1, <1>2, <1>3, <2>1 DEF Inv, Tracked, Exclusive
  <2>2. CASE req[r].pc = "grant" /\ c = req[r].made
    <3>1. (\A d \in Browsers : cookie[d] # c) /\ \A s \in Requests : req[s].token # c
      BY <1>4, <2>2 DEF Unseen
    <3> QED BY <1>0, <1>1, <1>2, <1>3, <1>4, <2>2, <3>1 DEF Inv, Tracked, Exclusive
  <2> QED BY <2>1, <2>2
<1>11. Rotations'
  <2>1. SUFFICES ASSUME NEW x \in Issued \ overlapped PROVE Rotation(x)'
    BY <1>0 DEF Rotations
  <2>2. Rotation(x)
    BY DEF Inv, Rotations
  <2> QED BY <1>0, <1>1, <1>2, <1>8, <2>2 DEF Rotation, Rotating
<1>12. Endings'
  <2>1. SUFFICES ASSUME faults = 0, faults' = 0, NEW x \in Issued \ overlapped PROVE Ending(x)'
    BY <1>0 DEF Endings, Inv, Tracked, TypeOK
  <2>2. Ending(x) /\ Rotation(x)
    BY <2>1 DEF Inv, Endings, Rotations
  <2>3. ASSUME NEW d \in Browsers, cookie'[d] = x
        PROVE  (Childless(x) \/ \E s \in Requests : req[s].token = x /\ req[s].pc = "grant")'
    <3>1. CASE d = b
      <4>1. req[r].pc = "grant" /\ x = req[r].made
        BY <1>0, <1>3, <2>1, <2>3, <3>1
      <4> QED BY <1>4, <1>8, <4>1 DEF Unseen
    <3>2. CASE d # b
      <4>1. cookie[d] = x /\ t # x
        BY <1>0, <1>3, <2>3, <3>2 DEF Inv, Tracked, Exclusive
      <4> QED BY <1>2, <1>8, <2>2, <4>1 DEF Ending
    <3> QED BY <3>1, <3>2
  <2>4. \A s \in Requests : req'[s].token = x /\ req'[s].pc \in {"logout", "bye"} => Childless(x)'
    BY <1>1, <1>2, <1>8, <2>2 DEF Ending
  <2>5. ASSUME x \in ended'
        PROVE  /\ tokens'[x].revoked /\ Childless(x)'
               /\ \A s \in Requests : req'[s].token = x => req'[s].pc \notin Rotating
    <3>1. CASE x \in ended
      BY <1>0, <1>1, <1>2, <1>8, <2>2, <3>1 DEF Ending, Rotating
    <3>2. CASE x \notin ended
      <4>1. req[r].pc = "bye" /\ x = t
        BY <2>1, <2>5, <3>2
      <4> QED BY <1>0, <1>1, <1>2, <1>4, <1>8, <2>2, <4>1 DEF Ending, Rotation, Rotating
    <3> QED BY <3>1, <3>2
  <2> QED BY <2>3, <2>4, <2>5 DEF Ending
<1>13. Keeping'
  <2>1. \A d \in Browsers \ crossed' : Lone(d)'
    BY <1>0, <1>1, <1>2 DEF Inv, Keeping, Lone
  <2>2. ASSUME faults = 0, faults' = 0, NEW d \in signedIn' \ crossed PROVE Kept(d)'
    <3>0. d \in Browsers /\ Lone(d) /\ (d # b => d \in signedIn)
      BY <1>0, <2>2 DEF Inv, Keeping, Tracked, TypeOK
    <3>1. Over' <=> Over
      BY DEF Over
    <3>2. CASE d # b
      <4>1. Kept(d) /\ (Good(d)' <=> Good(d)) /\ (Busy(d)' <=> Busy(d))
        BY <1>0, <1>1, <1>2, <1>3, <2>2, <3>0, <3>1, <3>2 DEF Inv, Keeping, Good, Busy
      <4> QED BY <1>0, <1>1, <1>2, <1>3, <3>0, <3>1, <3>2, <4>1 DEF Kept
    <3>3. CASE d = b
      <4>1. \A s \in Requests : req'[s].browser # d
        BY <1>0, <1>1, <1>2, <3>0, <3>3 DEF Lone
      <4>2. Good(d)'
        <5>1. CASE req[r].pc = "grant" /\ c = req[r].made
          BY <1>0, <1>3, <1>4, <3>3, <5>1 DEF Good, Unseen
        <5>2. CASE req[r].pc \in {"deny", "bye"} /\ c = None /\ signedIn' = signedIn
          <6>1. Kept(d)
            BY <2>2, <5>2 DEF Inv, Keeping
          <6>2. Over
            BY <3>3, <5>2, <6>1 DEF Kept
          <6> QED BY <1>3, <3>1, <3>3, <5>2, <6>2 DEF Good
        <5> QED BY <2>2, <5>1, <5>2
      <4> QED BY <4>1, <4>2 DEF Kept, Busy
    <3> QED BY <3>2, <3>3
  <2> QED BY <2>1, <2>2 DEF Keeping, Inv, Tracked, TypeOK
<1> QED BY <1>0, <1>5, <1>6, <1>7, <1>9, <1>10, <1>11, <1>12, <1>13 DEF Inv, Tracked

\* Time passes, or a user is switched off.
LEMMA WorldKeepsInv ==
    ASSUME Inv, Tick \/ \E u \in Users : Deactivate(u)
    PROVE  Inv'
<1>1. /\ UNCHANGED <<tokens, cookie, req, history, faults>> /\ Issued' = Issued
      /\ users' \in [Users -> {"none", "active", "inactive"}] /\ now' \in 0..Horizon
      /\ \A v \in Users : /\ users[v] # "none" => users'[v] # "none"
                          /\ users[v] = "inactive" => users'[v] = "inactive"
      /\ now' >= now /\ now \in Nat /\ now' \in Nat
  BY SessionConstants DEF Tick, Deactivate, Inv, Tracked, TypeOK, Issued
<1>2. TypeOK'
  BY <1>1 DEF Inv, Tracked, TypeOK, history
<1>3. Registered'
  <2>1. (\A t \in Issued : tokens[t].user \in Users) /\ \A r \in Requests : req[r].user \in Users \cup {None}
    BY Facts DEF Inv, TokenRow, Call
  <2> QED BY <1>1, <2>1 DEF Inv, Tracked, Registered, history
<1>4. (\A r \in Requests : Shape(r)') /\ (\A r \in Requests : \A t \in Issued : Unseen(r, t)') /\ Exclusive'
  BY <1>1 DEF Inv, Tracked, Shape, Unseen, Exclusive, Childless, history
<1>5. Rotations' /\ Endings'
  BY <1>1 DEF Inv, Rotations, Rotation, Endings, Ending, Childless, history
<1>6. Keeping'
  <2>1. Over => Over'
    BY <1>1, SessionConstants DEF Over
  <2>2. \A b \in Browsers : (Good(b) => Good(b)') /\ (Busy(b)' <=> Busy(b))
    BY <1>1, <2>1 DEF Good, Busy
  <2>3. signedIn \subseteq Browsers
    BY DEF Inv, Tracked, TypeOK
  <2> QED BY <1>1, <2>1, <2>2, <2>3 DEF Inv, Keeping, Lone, Kept, history
<1> QED BY <1>1, <1>2, <1>3, <1>4, <1>5, <1>6 DEF Inv, Tracked

-----------------------------------------------------------------------------
LEMMA InitInv == Init => Inv
<1> SUFFICES ASSUME Init PROVE Inv
  OBVIOUS
<1>1. /\ Issued = {} /\ \A r \in Requests : req[r] = NoRequest
      /\ NoRequest \in Call({}) /\ NoRequest.pc = "idle" /\ NoRequest.browser = None
      /\ NoRequest.token = None /\ NoRequest.made = None /\ NoRequest.user = None
  BY DEF Init, Issued, NoRequest, Call
<1>2. TypeOK
  BY <1>1, SessionConstants DEF Init, TypeOK, Call
<1>3. (\A r \in Requests : Shape(r)) /\ Registered /\ Exclusive
  BY <1>1 DEF Init, Shape, Registered, Exclusive
<1>4. \A b \in Browsers : Lone(b)
  BY <1>1, SessionConstants DEF Lone
<1> QED BY <1>1, <1>2, <1>3, <1>4 DEF Init, Inv, Tracked, Rotations, Endings, Keeping

LEMMA StepInv == Inv /\ [Next]_vars => Inv'
<1> SUFFICES ASSUME Inv, [Next]_vars PROVE Inv'
  OBVIOUS
<1>0. /\ req \in [Requests -> Call(Issued)] /\ cookie \in [Browsers -> Issued \cup {None}]
      /\ users \in [Users -> {"none", "active", "inactive"}] /\ None \notin Users
      /\ signedIn \subseteq Browsers
  BY Facts DEF Inv, Tracked, TypeOK
<1>1. CASE UNCHANGED vars
  <2>1. Issued' = Issued /\ \A b \in Browsers : (Busy(b)' <=> Busy(b)) /\ (Good(b)' <=> Good(b))
    BY <1>1 DEF vars, Issued, Busy, Good, Over
  <2>2. TypeOK' /\ (\A r \in Requests : Shape(r)') /\ Registered' /\ Exclusive'
    BY <1>1, <2>1 DEF vars, Inv, Tracked, TypeOK, Shape, Registered, Exclusive
  <2>3. \A r \in Requests : \A t \in Issued : Unseen(r, t)'
    BY <1>1, <2>1 DEF vars, Inv, Tracked, Unseen, Childless
  <2>4. Rotations' /\ Endings'
    BY <1>1, <2>1 DEF vars, Inv, Rotations, Rotation, Endings, Ending, Childless
  <2>5. Keeping'
    BY <1>0, <1>1, <2>1 DEF vars, Inv, Keeping, Lone, Kept, Over
  <2> QED BY <2>1, <2>2, <2>3, <2>4, <2>5 DEF Inv, Tracked
<1>2. ASSUME NEW r \in Requests, NEW b \in Browsers, NEW u \in Users,
             handleRegister(r, b, u) \/ handleLogin(r, b, u)
      PROVE  Inv'
  <2>1. /\ Begin(r, b, "issue", None, u) /\ UNCHANGED <<tokens, cookie, now, signedIn, ended, faults>>
        /\ users' \in [Users -> {"none", "active", "inactive"}] /\ users'[u] # "none"
        /\ \A v \in Users : users[v] # "none" => users'[v] = users[v]
    <3>1. CASE handleRegister(r, b, u)
      BY <1>0, <3>1 DEF handleRegister, Register, CreateUser, GetUserByEmail
    <3>2. CASE handleLogin(r, b, u)
      BY <1>0, <3>2 DEF handleLogin, Login, GetUserByEmail
    <3> QED BY <1>2, <3>1, <3>2
  <2>2. u # None
    BY <1>0
  <2> QED BY <2>1, <2>2, BeginKeepsInv
<1>3. ASSUME NEW r \in Requests, NEW b \in Browsers, handleRefresh(r, b)
      PROVE  Inv'
  <2>1. Begin(r, b, "lookup", cookie[b], None) /\ cookie[b] # None /\ cookie[b] \in Issued
    BY <1>0, <1>3 DEF handleRefresh
  <2>2. UNCHANGED <<users, tokens, cookie, now, signedIn, ended, faults>>
    BY <1>3 DEF handleRefresh
  <2> QED BY <1>0, <2>1, <2>2, BeginKeepsInv
<1>4. ASSUME NEW r \in Requests, NEW b \in Browsers, handleLogout(r, b)
      PROVE  Inv'
  <2>1. Begin(r, b, "logout", cookie[b], None) /\ cookie[b] # None /\ cookie[b] \in Issued
    BY <1>0, <1>4 DEF handleLogout
  <2>2. UNCHANGED <<users, tokens, cookie, now, ended, faults>> /\ signedIn' = signedIn \ {b}
    BY <1>4 DEF handleLogout
  <2> QED BY <1>0, <2>1, <2>2, BeginKeepsInv
<1>5. ASSUME NEW r \in Requests, Serve(r)
      PROVE  Inv'
  <2>0. req[r] \in Call(Issued)
    BY <1>0
  <2>1. ASSUME NEW pc
        PROVE  [req EXCEPT ![r].pc = pc] = [req EXCEPT ![r].pc = pc, ![r].user = req[r].user]
    <3>1. [req[r] EXCEPT !.pc = pc] = [req[r] EXCEPT !.pc = pc, !.user = req[r].user]
      BY <2>0 DEF Call
    <3>2. /\ [req EXCEPT ![r].pc = pc] = [req EXCEPT ![r] = [req[r] EXCEPT !.pc = pc]]
          /\ [req EXCEPT ![r].pc = pc, ![r].user = req[r].user]
             = [req EXCEPT ![r] = [req[r] EXCEPT !.pc = pc, !.user = req[r].user]]
      BY <1>0
    <3> QED BY <3>1, <3>2
  <2>2. CASE RefreshTokenByHash(r)
    <3>1. /\ req[r].pc = "lookup" /\ UNCHANGED <<users, tokens, cookie, now, history, faults>>
          /\ req' = [req EXCEPT ![r].pc = IF IsActive(req[r].token) THEN "rotate" ELSE "deny"]
      BY <2>2 DEF RefreshTokenByHash, Goto
    <3>2. CASE IsActive(req[r].token)
      <4>1. req' = [req EXCEPT ![r].pc = "rotate", ![r].user = req[r].user]
        BY <2>1, <3>1, <3>2
      <4> QED BY <3>1, <3>2, <4>1, GoesOnKeepsInv
    <3>3. CASE ~IsActive(req[r].token)
      <4>1. req' = [req EXCEPT ![r].pc = "deny", ![r].user = req[r].user]
        BY <2>1, <3>1, <3>3
      <4> QED BY <3>1, <3>3, <4>1, GoesOnKeepsInv
    <3> QED BY <3>2, <3>3
  <2>3. CASE Rotate(r)
    <3>1. /\ req[r].pc = "rotate" /\ UNCHANGED <<users, cookie, now, history, faults>>
          /\ req' = [req EXCEPT ![r].pc = "user", ![r].user = req[r].user]
          /\ RevokeRefreshToken(req[r].token)
      BY <2>1, <2>3 DEF Rotate, Goto
    <3> QED BY <3>1, GoesOnKeepsInv
  <2>4. CASE UserByID(r)
    <3> DEFINE u == tokens[req[r].token].user
    <3>1. /\ req[r].pc = "user" /\ UNCHANGED <<users, tokens, cookie, now, history, faults>>
          /\ req' = [req EXCEPT ![r].pc = IF users[u] = "active" THEN "issue" ELSE "deny",
                                ![r].user = u]
      BY <2>4 DEF UserByID, GetRefreshToken, GetUserByID
    <3>2. CASE users[u] = "active"
      <4>1. req' = [req EXCEPT ![r].pc = "issue", ![r].user = u]
        BY <3>1, <3>2
      <4> QED BY <3>1, <3>2, <4>1, GoesOnKeepsInv
    <3>3. CASE users[u] # "active"
      <4>1. req' = [req EXCEPT ![r].pc = "deny", ![r].user = u]
        BY <3>1, <3>3
      <4> QED BY <3>1, <3>3, <4>1, GoesOnKeepsInv
    <3> QED BY <3>2, <3>3
  <2>5. CASE issueTokens(r)
    BY <2>5, IssueKeepsInv
  <2>6. CASE Logout(r)
    <3>1. /\ req[r].pc = "logout" /\ UNCHANGED <<users, cookie, now, history, faults>>
          /\ req' = [req EXCEPT ![r].pc = "bye", ![r].user = req[r].user]
          /\ RevokeRefreshToken(req[r].token)
      BY <2>1, <2>6 DEF Logout, Goto
    <3> QED BY <3>1, GoesOnKeepsInv
  <2>7. CASE writeAuthResult(r)
    <3>1. req[r].made \in Issued \cup {None} /\ faults \in 0..MaxFaults
      BY <2>0 DEF Call, Inv, Tracked, TypeOK
    <3> QED BY <2>7, <3>1, AnswerKeepsInv DEF writeAuthResult
  <2>8. CASE clearRefreshCookie(r)
    <3>1. faults \in 0..MaxFaults
      BY DEF Inv, Tracked, TypeOK
    <3> QED BY <2>8, <3>1, AnswerKeepsInv DEF clearRefreshCookie
  <2> QED BY <1>5, <2>2, <2>3, <2>4, <2>5, <2>6, <2>7, <2>8 DEF Serve
<1>6. ASSUME NEW r \in Requests, RequestFails(r)
      PROVE  Inv'
  <2>1. req[r].browser \in Browsers /\ faults' \in 0..MaxFaults /\ faults' # 0
    BY <1>6, SessionConstants DEF RequestFails, Inv, Tracked, Shape, TypeOK
  <2>2. cookie' = [cookie EXCEPT ![req[r].browser] = cookie[req[r].browser]]
        /\ cookie[req[r].browser] \in Issued \cup {None}
    BY <1>0, <1>6, <2>1 DEF RequestFails
  <2> QED BY <1>6, <2>1, <2>2, AnswerKeepsInv DEF RequestFails, history
<1> QED BY <1>1, <1>2, <1>3, <1>4, <1>5, <1>6, WorldKeepsInv DEF Next

LEMMA AlwaysInv == Spec => []Inv
BY InitInv, StepInv, PTL DEF Spec

\* The tables, the cookies and the requests keep their types; no cookie and no
\* request ever holds a token that was not issued.
THEOREM TypeCorrect == Spec => []TypeOK
<1>1. Inv => TypeOK
  BY DEF Inv, Tracked
<1> QED BY <1>1, AlwaysInv, PTL

\* Refresh reads the row, tests it and revokes it in three steps, and yet a
\* token that no two requests presented at a time is worth one successor.
THEOREM OneSuccessor == Spec => []ForksCostOverlap
<1>1. Inv => ForksCostOverlap
  <2> SUFFICES ASSUME Inv, NEW t \in Issued, t \notin overlapped
               PROVE  Cardinality(Children(t)) <= 1
    BY DEF ForksCostOverlap
  <2>1. \A c, d \in Children(t) : c = d
    BY DEF Inv, Rotations, Rotation, Children
  <2>2. CASE Children(t) = {}
    BY <2>2, FS_EmptySet
  <2>3. ASSUME NEW c \in Children(t)
        PROVE  Cardinality(Children(t)) <= 1
    <3>1. Children(t) = {c}
      BY <2>1
    <3> QED BY <3>1, FS_Singleton
  <2> QED BY <2>2, <2>3
<1> QED BY <1>1, AlwaysInv, PTL

\* Whatever the other browsers of the user do, a browser whose requests do
\* not cross and whose answers arrive keeps its session.
THEOREM SessionsAreKept == Spec => []SessionIsKept
<1>1. Inv => SessionIsKept
  BY DEF Inv, Keeping, Kept, Good, Over, SessionIsKept
<1> QED BY <1>1, AlwaysInv, PTL

\* Logout revokes one token, and that is enough: the browser that logs out
\* has the last token of its session, or a refresh with the same one is under
\* way, or an answer was lost.
THEOREM LogoutIsEnough == Spec => []LogoutEndsSession
<1>1. Inv => LogoutEndsSession
  <2> SUFFICES ASSUME Inv, faults = 0, NEW t \in ended, t \notin overlapped, NEW s \in Line(t)
               PROVE  ~IsActive(s)
    BY DEF LogoutEndsSession
  <2>1. t \in Issued /\ Ending(t)
    BY DEF Inv, Tracked, Registered, Endings
  <2>2. Children(t) = {} /\ tokens[t].revoked
    BY <2>1 DEF Ending, Childless, Children
  <2>3. s = t
    BY <2>2 DEF Line
  <2> QED BY <2>2, <2>3 DEF IsActive
<1> QED BY <1>1, AlwaysInv, PTL
=============================================================================
