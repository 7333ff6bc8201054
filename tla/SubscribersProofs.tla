-------------------------- MODULE SubscribersProofs --------------------------
(***************************************************************************)
(* Theorems about Subscribers, for any pages, addresses, numbers of        *)
(* requests at a time, of inputs and of crashes of the bot.                *)
(***************************************************************************)
EXTENDS Subscribers, SequenceTheorems, TLAPS

-----------------------------------------------------------------------------
(* The inductive invariant of the table and the API.                       *)

\* What a request still has to say about the row it found: the row has gone,
\* or it is the row of the request's key, and nobody has the id again.
Shape(r) ==
    /\ req[r].pc = "idle" => req[r] = NoRequest
    /\ req[r].pc \in {"create", "reissue", "mail"} =>
         req[r].key \in EmailKeys /\ req[r].token # None /\ req[r].scope # None
    /\ req[r].pc \in {"reissue", "mail"} =>
         req[r].id # None /\ (rows[req[r].id] = None \/ rows[req[r].id].key = req[r].key)
    /\ req[r].pc = "confirm" =>
         /\ req[r].id # None
         /\ rows[req[r].id] = None \/ (rows[req[r].id].key = req[r].key /\ req[r].key \in agreed)
    /\ req[r].pc = "vouch" => req[r].key # None /\ req[r].scope # None

\* The unique index.
Unique == \A i, j \in Present : rows[i].key = rows[j].key => i = j

\* A confirmation token is about one key, wherever it is.
About(t, k) ==
    \/ \E i \in Present : rows[i].token = t /\ rows[i].key = k
    \/ [token |-> t, key |-> k] \in inbox
    \/ \E r \in Requests : req[r].token = t /\ req[r].key = k
Tags ==
    \A t \in Tokens : \A k \in Keys : About(t, k) =>
        t <= inputs /\ \A j \in Keys : About(t, j) => j = k

\* The letter for an unconfirmed row is in the inbox or about to be sent.
Lettered(i) ==
    \/ [token |-> rows[i].token, key |-> rows[i].key] \in inbox
    \/ \E r \in Requests : req[r].pc = "mail" /\ req[r].id = i /\ req[r].token = rows[i].token
Letters ==
    faults = 0 => \A i \in Present :
        rows[i].key.channel = "email" /\ ~rows[i].confirmed => Lettered(i)

\* Where the bot is in the commands of the chat.
BotShape ==
    /\ bot.pc = "batch" => bot.offset \in 1..bot.got
    /\ bot.pc \in {"create", "delete"} => bot.offset >= 2 /\ acked + 1 < bot.offset
    /\ bot.pc = "create" => sent[bot.offset - 1] = [cmd |-> "/start", arg |-> bot.page]
    /\ bot.pc = "delete" => sent[bot.offset - 1].cmd = "/stop"
    /\ bot.pc # "delete" => bot.ids = {}
    /\ bot.offset # 0 => acked < bot.offset

TableOK ==
    /\ \A r \in Requests : Shape(r)
    /\ Unique /\ Tags /\ ConsentGiven /\ Letters

Inv == TypeOK /\ BotShape /\ TableOK

-----------------------------------------------------------------------------
(* The inductive invariant of the bot.                                     *)

ChatKey(p) == Key(p, "telegram", Chat)
Subs(p) == SubscriberByPageChannelAddress(ChatKey(p))

\* The commands this run of the bot has dealt with, or is dealing with.
Done == Start - 1

\* Command n is about page p.
Concerns(n, p) == sent[n].arg \in {p, None}

\* What the first n commands of the chat ask for.
WantsAt(n, p) ==
    \E j \in 1..n :
        /\ sent[j] = [cmd |-> "/start", arg |-> p]
        /\ \A m \in j + 1..n : sent[m].cmd = "/stop" => ~Concerns(m, p)

\* After d commands the chat has what it asked for, or the bot, having looked, is
\* about to give it: the row is still to be inserted, or is among those to delete.
Settled(d, p) ==
    IF bot.pc = "create" /\ bot.page = p THEN WantsAt(d, p)
    ELSE IF bot.pc = "delete" /\ Concerns(d, p) THEN ~WantsAt(d, p) /\ Subs(p) \subseteq bot.ids
    ELSE Subs(p) # {} <=> WantsAt(d, p)

\* A command about the page is still to come: one not read yet, or one that a bot
\* that died has run and that Telegram will deliver again.
Pending(d, p) == \E m \in d + 1..Len(sent) : Concerns(m, p)

\* The ids the bot has still to delete are of rows the command is about.
Targets(d) ==
    \A i \in bot.ids : i \in Present =>
        \E p \in Pages : rows[i].key = ChatKey(p) /\ Concerns(d, p)

BotInv ==
    \A d \in Nat : d = Done =>
        /\ bot.pc = "delete" => Targets(d)
        /\ faults = 0 => \A p \in live :
             ChatKey(p) \notin meddled => Settled(d, p) \/ Pending(d, p)

-----------------------------------------------------------------------------
(* Keys, requests and rows.                                                *)

\* The type of a request in progress.
ReqRec ==
    [pc : {"idle", "create", "reissue", "mail", "confirm", "vouch"},
     key : Keys \cup {None}, id : Ids \cup {None},
     token : Tokens \cup {None}, scope : Scopes \cup {None}]

\* The channel tells the three kinds of key apart.
LEMMA KeyKinds ==
    ASSUME NEW k \in Keys
    PROVE  /\ k \in EmailKeys <=> k.channel = "email"
           /\ k \in ChatKeys <=> k.channel = "telegram"
           /\ k.page \in Pages
           /\ k.channel = "telegram" => k = Key(k.page, "telegram", Chat)
  BY DEF Keys, EmailKeys, SlackKeys, ChatKeys, Key

\* The chat has one key per page.
LEMMA ChatKeyKinds ==
    ASSUME NEW p \in Pages
    PROVE  /\ ChatKey(p) \in ChatKeys /\ ChatKey(p) \in Keys
           /\ ChatKey(p).channel = "telegram" /\ ChatKey(p).address = Chat
           /\ ChatKey(p).page = p
  BY DEF ChatKey, Keys, ChatKeys, Key

LEMMA SlackKeyKinds ==
    ASSUME NEW p \in Pages, NEW h \in Hooks
    PROVE  Key(p, "slack", h) \in Keys
  BY DEF Keys, SlackKeys, Key

\* One request changes.
LEMMA RequestStep ==
    ASSUME TypeOK, NEW r \in Requests, NEW q \in ReqRec, req' = [req EXCEPT ![r] = q]
    PROVE  /\ req' \in [Requests -> ReqRec] /\ req'[r] = q
           /\ \A u \in Requests \ {r} : req'[u] = req[u]
  BY DEF TypeOK, ReqRec

LEMMA NoRequestKinds ==
    /\ NoRequest \in ReqRec
    /\ NoRequest.pc = "idle" /\ NoRequest.key = None /\ NoRequest.id = None
    /\ NoRequest.token = None /\ NoRequest.scope = None
  BY DEF NoRequest, ReqRec

\* A request is answered.
LEMMA Answered ==
    ASSUME TypeOK, NEW r \in Requests, Answer(r)
    PROVE  /\ req' \in [Requests -> ReqRec] /\ req'[r] = NoRequest
           /\ \A u \in Requests \ {r} : req'[u] = req[u]
  BY RequestStep, NoRequestKinds DEF Answer

\* What each query does to the table, row by row.
LEMMA Created ==
    ASSUME TypeOK, NEW row \in Rows, CreateSubscriber(row)
    PROVE  /\ FreshId \in Ids /\ rows[FreshId] = None /\ FreshId \notin bot.ids
           /\ \A u \in Requests : req[u].id # FreshId
           /\ rows' \in [Ids -> Rows \cup {None}]
           /\ rows'[FreshId] = row
           /\ \A i \in Ids : i # FreshId => rows'[i] = rows[i]
<1>1. FreshId \in FreshIds
  BY DEF FreshId, CreateSubscriber
<1>2. FreshId \in Ids /\ FreshId \notin Present /\ FreshId \notin bot.ids
      /\ \A u \in Requests : req[u].id # FreshId
  BY <1>1 DEF FreshIds
<1> HIDE DEF FreshId
<1>3. rows' \in [Ids -> Rows \cup {None}] /\ rows'[FreshId] = row
      /\ \A i \in Ids : i # FreshId => rows'[i] = rows[i]
  BY <1>2 DEF CreateSubscriber, TypeOK
<1> QED
  BY <1>2, <1>3 DEF Present

LEMMA Tokened ==
    ASSUME TypeOK, NEW i \in Ids, rows[i] # None, NEW t \in Tokens, NEW s \in Scopes,
           SetSubscriberConfirmToken(i, t, s)
    PROVE  /\ rows' \in [Ids -> Rows \cup {None}]
           /\ rows'[i] \in Rows /\ rows'[i].key = rows[i].key
           /\ rows'[i].confirmed = rows[i].confirmed /\ rows'[i].token = t
           /\ \A j \in Ids : j # i => rows'[j] = rows[j]
<1> DEFINE w == [rows[i] EXCEPT !.token = t, !.scope = s]
<1>1. rows[i] \in Rows /\ rows \in [Ids -> Rows \cup {None}]
  BY DEF TypeOK
<1>2. w \in Rows /\ w.key = rows[i].key /\ w.confirmed = rows[i].confirmed /\ w.token = t
  BY <1>1 DEF Rows
<1>3. rows' = [rows EXCEPT ![i] = w]
  BY <1>1 DEF SetSubscriberConfirmToken
<1> HIDE DEF w
<1> QED
  BY <1>1, <1>2, <1>3

LEMMA Confirmed ==
    ASSUME TypeOK, NEW i \in Ids, ConfirmSubscriber(i)
    PROVE  /\ rows' \in [Ids -> Rows \cup {None}]
           /\ rows[i] = None => rows'[i] = None
           /\ rows[i] # None =>
                /\ rows'[i] \in Rows /\ rows'[i].key = rows[i].key
                /\ rows'[i].confirmed = TRUE /\ rows'[i].token = None
           /\ \A j \in Ids : j # i => rows'[j] = rows[j]
<1> DEFINE w == [rows[i] EXCEPT !.confirmed = TRUE, !.token = None]
<1>1. rows \in [Ids -> Rows \cup {None}]
  BY DEF TypeOK
<1>2. CASE rows[i] = None
  BY <1>1, <1>2 DEF ConfirmSubscriber
<1>3. CASE rows[i] # None
  <2>1. rows[i] \in Rows
    BY <1>1, <1>3
  <2>2. w \in Rows /\ w.key = rows[i].key /\ w.confirmed = TRUE /\ w.token = None
    BY <2>1 DEF Rows
  <2>3. rows' = [rows EXCEPT ![i] = w]
    BY <1>1, <1>3 DEF ConfirmSubscriber
  <2> HIDE DEF w
  <2> QED
    BY <1>1, <1>3, <2>2, <2>3
<1> QED
  BY <1>2, <1>3

LEMMA Deleted ==
    ASSUME TypeOK, NEW i \in Ids, DeleteSubscriber(i)
    PROVE  /\ rows' \in [Ids -> Rows \cup {None}] /\ rows'[i] = None
           /\ \A j \in Ids : j # i => rows'[j] = rows[j]
  BY DEF TypeOK, DeleteSubscriber

\* The fields of a row as the insertions write it.
LEMMA RowKinds ==
    ASSUME NEW k \in Keys, NEW c \in BOOLEAN, NEW t \in Tokens \cup {None}, NEW s \in Scopes
    PROVE  /\ Row(k, c, t, s) \in Rows
           /\ Row(k, c, t, s).key = k /\ Row(k, c, t, s).confirmed = c
           /\ Row(k, c, t, s).token = t /\ Row(k, c, t, s).scope = s
  BY DEF Row, Rows

-----------------------------------------------------------------------------
(* The table and the API: steps that share an argument.                    *)

LEMMA BotUntouched ==
    ASSUME Inv, UNCHANGED botVars
    PROVE  BotShape'
  BY DEF Inv, BotShape, botVars

\* No token gets a second key.
LEMMA TagsKept ==
    ASSUME TypeOK, Tags, inputs' \in Nat, inputs' >= inputs,
           \A t \in Tokens : \A k \in Keys : About(t, k)' => About(t, k)
    PROVE  Tags'
  BY DEF Tags, TypeOK, Tokens

\* Nothing the table or the API keeps has changed, unless a call failed.
LEMMA TableUntouched ==
    ASSUME Inv, rows' = rows, inbox' = inbox, req' = req, agreed' = agreed,
           inputs' \in Nat, inputs' >= inputs, faults' = 0 => faults = 0
    PROVE  TableOK'
<1>1. \A t \in Tokens : \A k \in Keys : About(t, k)' => About(t, k)
  BY DEF About, Present
<1>2. Tags'
  BY <1>1, TagsKept DEF Inv, TableOK
<1>3. \A r \in Requests : Shape(r)'
  BY DEF Inv, TableOK, Shape
<1>4. Unique' /\ ConsentGiven' /\ Letters'
  BY DEF Inv, TableOK, Unique, ConsentGiven, Letters, Lettered, Present
<1> QED
  BY <1>2, <1>3, <1>4 DEF TableOK

\* One request goes on without a token and without touching the table.
LEMMA RequestMoves ==
    ASSUME Inv, NEW r \in Requests, NEW q \in ReqRec, req' = [req EXCEPT ![r] = q],
           q.token = None, Shape(r)', rows' = rows, inbox' = inbox, agreed \subseteq agreed',
           inputs' \in Nat, inputs' >= inputs,
           faults' = 0 => faults = 0 /\ req[r].pc # "mail"
    PROVE  TableOK'
<1>0. /\ req'[r] = q /\ \A u \in Requests \ {r} : req'[u] = req[u]
  BY RequestStep DEF Inv
<1>a. \A i \in Ids : rows'[i] = rows[i]
  OBVIOUS
<1>1. ASSUME NEW t \in Tokens, NEW k \in Keys, About(t, k)'
      PROVE  About(t, k)
  <2>1. t # None
    BY SubscriberConstants
  <2> QED
    BY <1>0, <1>1, <2>1 DEF About, Present
<1>2. Tags'
  BY <1>1, TagsKept DEF Inv, TableOK
<1>3. ASSUME NEW u \in Requests
      PROVE  Shape(u)'
  <2>1. CASE u = r
    BY <2>1
  <2>2. CASE u # r
    BY <1>0, <2>2 DEF Inv, TableOK, Shape
  <2> QED
    BY <2>1, <2>2
<1>4. Unique' /\ ConsentGiven'
  BY DEF Inv, TableOK, Unique, ConsentGiven, Present
<1>5. ASSUME faults' = 0, NEW i \in Present', rows'[i].key.channel = "email", ~rows'[i].confirmed
      PROVE  Lettered(i)'
  <2>1. Lettered(i)
    BY <1>5 DEF Inv, TableOK, Letters, Present
  <2> QED
    BY <1>0, <1>5, <2>1 DEF Lettered
<1>6. Letters'
  BY <1>5 DEF Letters
<1> QED
  BY <1>2, <1>3, <1>4, <1>6 DEF TableOK

\* ... in particular when it is answered, other than by the letter.
LEMMA RequestEnds ==
    ASSUME Inv, NEW r \in Requests, Answer(r), rows' = rows, inbox' = inbox,
           agreed' = agreed, inputs' = inputs,
           faults' = 0 => faults = 0 /\ req[r].pc # "mail"
    PROVE  TableOK'
<1>1. Shape(r)'
  BY Answered, NoRequestKinds DEF Inv, Shape
<1>2. inputs' \in Nat /\ inputs' >= inputs
  BY SubscriberConstants DEF Inv, TypeOK
<1>3. agreed \subseteq agreed' /\ req' = [req EXCEPT ![r] = NoRequest]
  BY DEF Answer
<1> QED
  BY <1>1, <1>2, <1>3, NoRequestKinds, RequestMoves

-----------------------------------------------------------------------------
(* The public form.                                                        *)

LEMMA FormLookup ==
    ASSUME Inv, NEW r \in Requests, NEW k \in EmailKeys, NEW s \in Scopes,
           handleSubscribe(r, k, s)
    PROVE  Inv'
<1> DEFINE found == SubscriberByPageChannelAddress(k)
<1> DEFINE q == [pc |-> IF found = {} THEN "create" ELSE "reissue", key |-> k,
                 id |-> IF found = {} THEN None ELSE CHOOSE i \in found : TRUE,
                 token |-> inputs + 1, scope |-> s]
<1>0. /\ TypeOK /\ k \in Keys /\ UNCHANGED botVars
      /\ inputs' = inputs + 1 /\ inputs' \in Tokens /\ inputs' \in Nat /\ inputs' >= inputs
  BY SubscriberConstants DEF Inv, TypeOK, handleSubscribe, Input, Keys, Tokens
<1>1. CASE req' = req
  <2>1. TableOK'
    BY <1>0, <1>1, TableUntouched DEF handleSubscribe
  <2>2. TypeOK'
    BY <1>0, <1>1 DEF TypeOK, handleSubscribe, Input, botVars, Tokens
  <2> QED
    BY <2>1, <2>2, <1>0, BotUntouched DEF Inv
<1>2. CASE req' = [req EXCEPT ![r] = q]
  <2>1. found \subseteq Present /\ \A i \in found : rows[i].key = k
    BY DEF SubscriberByPageChannelAddress
  <2>2. found # {} => (CHOOSE i \in found : TRUE) \in found
    OBVIOUS
  <2>3. Present \subseteq Ids /\ \A i \in Present : rows[i] # None
    BY DEF Present
  <2>4. q \in ReqRec /\ q.pc \in {"create", "reissue"} /\ q.key = k /\ q.token = inputs + 1 /\ q.scope = s
    BY <1>0, <2>1, <2>2, <2>3 DEF ReqRec
  <2>5. q.pc = "reissue" => q.id \in Ids /\ rows[q.id].key = k
    BY <2>1, <2>2, <2>3
  <2> HIDE DEF q, found
  <2>6. /\ req' \in [Requests -> ReqRec] /\ req'[r] = q
        /\ \A u \in Requests \ {r} : req'[u] = req[u]
    BY <1>0, <1>2, <2>4, RequestStep
  <2>7. /\ rows' = rows /\ inbox' = inbox /\ agreed' = agreed /\ faults' = faults
        /\ req[r].pc = "idle"
    BY DEF handleSubscribe
  <2>8. TypeOK'
    BY <1>0, <2>6 DEF TypeOK, handleSubscribe, Input, botVars, Tokens, ReqRec
  <2>9. ASSUME NEW u \in Requests
        PROVE  Shape(u)'
    <3>1. CASE u = r
      BY <3>1, <2>4, <2>5, <2>6, <2>7, <1>0, SubscriberConstants DEF Shape
    <3>2. CASE u # r
      BY <3>2, <2>6, <2>7 DEF Inv, TableOK, Shape
    <3> QED
      BY <3>1, <3>2
  <2>10. \A t \in Tokens : \A j \in Keys : About(t, j)' => About(t, j) \/ (t = inputs + 1 /\ j = k)
    BY <2>4, <2>6, <2>7 DEF About, Present
  <2>11. Tags'
    BY <2>10, <1>0 DEF Tags, Inv, TableOK, TypeOK, Tokens
  <2>12. Unique' /\ ConsentGiven'
    BY <2>7 DEF Inv, TableOK, Unique, ConsentGiven, Present
  <2>13. Letters'
    BY <2>6, <2>7 DEF Inv, TableOK, Letters, Lettered, Present
  <2> QED
    BY <2>8, <2>9, <2>11, <2>12, <2>13, <1>0, BotUntouched DEF Inv, TableOK
<1> QED
  BY <1>1, <1>2 DEF handleSubscribe

LEMMA FormCreate ==
    ASSUME Inv, NEW r \in Requests, SubscribeCreate(r)
    PROVE  Inv'
<1> DEFINE k == req[r].key
           row == Row(req[r].key, FALSE, req[r].token, req[r].scope)
<1>0. /\ TypeOK /\ UNCHANGED botVars /\ inbox' = inbox /\ agreed' = agreed /\ faults' = faults
      /\ inputs' = inputs /\ req[r].pc = "create" /\ req[r] \in ReqRec
  BY DEF Inv, TypeOK, SubscribeCreate, ReqRec
<1>1. k \in EmailKeys /\ k \in Keys /\ req[r].token \in Tokens /\ req[r].scope \in Scopes
  BY <1>0 DEF Inv, TableOK, Shape, ReqRec, Keys
<1>2. CASE AddressTaken(k)
  <2>1. Answer(r) /\ rows' = rows
    BY <1>2 DEF SubscribeCreate
  <2>2. TableOK'
    BY <1>0, <2>1, RequestEnds
  <2>3. TypeOK'
    BY <1>0, <2>1, Answered DEF TypeOK, SubscribeCreate, botVars, ReqRec
  <2> QED
    BY <2>2, <2>3, <1>0, BotUntouched DEF Inv
<1>3. CASE ~AddressTaken(k)
  <2> DEFINE q == [req[r] EXCEPT !.pc = "mail", !.id = FreshId]
  <2>1. row \in Rows /\ row.key = k /\ row.confirmed = FALSE /\ row.token = req[r].token
    BY <1>1 DEF Row, Rows
  <2> HIDE DEF row
  <2>2. CreateSubscriber(row) /\ req' = [req EXCEPT ![r].pc = "mail", ![r].id = FreshId]
    <3>1. req[r].pc = "create" /\ ~AddressTaken(req[r].key)
      BY <1>0, <1>3
    <3> QED
      BY <3>1 DEF SubscribeCreate, row
  <2>3. PICK n \in Ids :
           /\ n = FreshId /\ rows[n] = None /\ \A u \in Requests : req[u].id # n
           /\ rows' \in [Ids -> Rows \cup {None}]
           /\ rows'[n] = row
           /\ \A i \in Ids : i # n => rows'[i] = rows[i]
    BY <1>0, <2>1, <2>2, Created
  <2>4. q \in ReqRec /\ q.pc = "mail" /\ q.id = n /\ q.key = k /\ q.token = req[r].token
        /\ q.scope = req[r].scope
    BY <1>0, <2>3 DEF ReqRec
  <2>5. req' = [req EXCEPT ![r] = q]
    BY <1>0, <2>2 DEF TypeOK
  <2> HIDE DEF q
  <2>6. /\ req' \in [Requests -> ReqRec] /\ req'[r] = q
        /\ \A u \in Requests \ {r} : req'[u] = req[u]
    BY <1>0, <2>5, <2>4, RequestStep
  <2>7. row # None /\ \A i \in Present : rows[i].key # k
    BY <2>1, <1>3, SubscriberConstants DEF AddressTaken, SubscriberByPageChannelAddress
  <2>8. TypeOK'
    BY <1>0, <2>3, <2>6 DEF TypeOK, SubscribeCreate, botVars, ReqRec
  <2>9. ASSUME NEW u \in Requests
        PROVE  Shape(u)'
    <3>1. CASE u = r
      BY <3>1, <2>1, <2>3, <2>4, <2>6, <1>0, <1>1, SubscriberConstants DEF Shape
    <3>2. CASE u # r
      <4>1. req'[u] = req[u] /\ req[u].id # n /\ req[u].id \in Ids \cup {None}
        BY <3>2, <2>3, <2>6, <1>0 DEF TypeOK
      <4> QED
        BY <4>1, <2>3, <1>0 DEF Inv, TableOK, Shape
    <3> QED
      BY <3>1, <3>2
  <2>10. ASSUME NEW t \in Tokens, NEW j \in Keys, About(t, j)'
         PROVE  About(t, j)
    BY <2>10, <2>1, <2>3, <2>4, <2>6, <1>0 DEF About, Present
  <2>11. Tags'
    <3>1. inputs' \in Nat /\ inputs' >= inputs
      BY <1>0 DEF TypeOK
    <3> QED
      BY <3>1, <2>10, <1>0, TagsKept DEF Inv, TableOK
  <2>12. Unique'
    BY <2>1, <2>3, <2>7 DEF Inv, TableOK, Unique, Present
  <2>13. ConsentGiven'
    BY <2>1, <2>3, <1>0 DEF Inv, TableOK, ConsentGiven, Present
  <2>14. ASSUME faults' = 0, NEW i \in Present', rows'[i].key.channel = "email", ~rows'[i].confirmed
         PROVE  Lettered(i)'
    <3>1. CASE i = n
      BY <3>1, <2>1, <2>3, <2>4, <2>6 DEF Lettered
    <3>2. CASE i # n
      <4>1. Lettered(i) /\ rows'[i] = rows[i]
        BY <3>2, <2>14, <2>3, <1>0 DEF Inv, TableOK, Letters, Present
      <4> QED
        BY <4>1, <2>6, <1>0 DEF Lettered
    <3> QED
      BY <3>1, <3>2
  <2> QED
    BY <2>8, <2>9, <2>11, <2>12, <2>13, <2>14, <1>0, BotUntouched DEF Inv, TableOK, Letters
<1> QED
  BY <1>2, <1>3

LEMMA FormReissue ==
    ASSUME Inv, NEW r \in Requests, ReissueConfirmToken(r)
    PROVE  Inv'
<1>0. /\ TypeOK /\ UNCHANGED botVars /\ inbox' = inbox /\ agreed' = agreed /\ faults' = faults
      /\ inputs' = inputs /\ req[r].pc = "reissue" /\ req[r] \in ReqRec
  BY DEF Inv, TypeOK, ReissueConfirmToken, ReqRec
<1>1. PICK i \in Ids : i = req[r].id
  BY <1>0 DEF Inv, TableOK, Shape, ReqRec
<1>2. CASE rows[i] = None
  <2>1. Answer(r) /\ rows' = rows
    BY <1>1, <1>2 DEF ReissueConfirmToken
  <2>2. TableOK'
    BY <1>0, <2>1, RequestEnds
  <2>3. TypeOK'
    BY <1>0, <2>1, Answered DEF TypeOK, ReissueConfirmToken, botVars, ReqRec
  <2> QED
    BY <2>2, <2>3, <1>0, BotUntouched DEF Inv
<1>3. CASE rows[i] # None
  <2> DEFINE q == [req[r] EXCEPT !.pc = "mail"]
  <2>1. PICK t \in Tokens, s \in Scopes : t = req[r].token /\ s = req[r].scope
    BY <1>0 DEF Inv, TableOK, Shape, ReqRec
  <2>a. rows[i].key = req[r].key /\ req[r].key \in EmailKeys
    BY <1>0, <1>1, <1>3 DEF Inv, TableOK, Shape
  <2>2. SetSubscriberConfirmToken(i, t, s) /\ req' = [req EXCEPT ![r].pc = "mail"]
    BY <1>1, <1>3, <2>1 DEF ReissueConfirmToken
  <2>3. /\ rows' \in [Ids -> Rows \cup {None}]
        /\ rows'[i] \in Rows /\ rows'[i].key = rows[i].key
        /\ rows'[i].confirmed = rows[i].confirmed /\ rows'[i].token = t
        /\ \A j \in Ids : j # i => rows'[j] = rows[j]
    BY <1>0, <1>3, <2>2, Tokened
  <2>4. q \in ReqRec /\ q.pc = "mail" /\ q.id = i /\ q.key = rows[i].key /\ q.token = t
        /\ q.scope = s
    BY <1>0, <1>1, <2>1, <2>a DEF ReqRec
  <2>5. req' = [req EXCEPT ![r] = q]
    BY <1>0, <2>2 DEF TypeOK
  <2> HIDE DEF q
  <2>6. /\ req' \in [Requests -> ReqRec] /\ req'[r] = q
        /\ \A u \in Requests \ {r} : req'[u] = req[u]
    BY <1>0, <2>5, <2>4, RequestStep
  <2>7. Present' = Present /\ i \in Present /\ \A j \in Present : rows'[j].key = rows[j].key
    BY <1>3, <2>3, SubscriberConstants DEF Present
  <2>8. TypeOK'
    BY <1>0, <2>3, <2>6 DEF TypeOK, ReissueConfirmToken, botVars, ReqRec
  <2>9. ASSUME NEW u \in Requests
        PROVE  Shape(u)'
    <3>1. CASE u = r
      BY <3>1, <2>a, <2>3, <2>4, <2>6, SubscriberConstants DEF Shape
    <3>2. CASE u # r
      <4>1. req'[u] = req[u] /\ req[u].id \in Ids \cup {None} /\ Shape(u)
        BY <3>2, <2>6, <1>0 DEF TypeOK, Inv, TableOK
      <4>2. \A j \in Ids : (rows[j] = None <=> rows'[j] = None) /\ (rows[j] # None => rows'[j].key = rows[j].key)
        BY <2>7 DEF Present
      <4> QED
        BY <4>1, <4>2, <1>0 DEF Shape
    <3> QED
      BY <3>1, <3>2
  <2>10. ASSUME NEW v \in Tokens, NEW j \in Keys, About(v, j)'
         PROVE  About(v, j)
    BY <2>10, <2>1, <2>a, <2>3, <2>4, <2>6, <2>7, <1>0 DEF About, Present
  <2>11. Tags'
    <3>1. inputs' \in Nat /\ inputs' >= inputs
      BY <1>0 DEF TypeOK
    <3> QED
      BY <3>1, <2>10, <1>0, TagsKept DEF Inv, TableOK
  <2>12. Unique'
    BY <2>7 DEF Inv, TableOK, Unique
  <2>13. ConsentGiven'
    <3>1. \A j \in Present : rows'[j].confirmed = rows[j].confirmed
      BY <2>3 DEF Present
    <3> QED
      BY <3>1, <2>7, <1>0 DEF Inv, TableOK, ConsentGiven
  <2>14. ASSUME faults' = 0, NEW j \in Present', rows'[j].key.channel = "email", ~rows'[j].confirmed
         PROVE  Lettered(j)'
    <3>1. CASE j = i
      BY <3>1, <2>3, <2>4, <2>6 DEF Lettered
    <3>2. CASE j # i
      <4>1. rows'[j] = rows[j] /\ j \in Present
        BY <3>2, <2>14, <2>3, <2>7 DEF Present
      <4>2. Lettered(j)
        BY <4>1, <2>14, <1>0 DEF Inv, TableOK, Letters
      <4> QED
        BY <4>1, <4>2, <2>6, <1>0 DEF Lettered
    <3> QED
      BY <3>1, <3>2
  <2> QED
    BY <2>8, <2>9, <2>11, <2>12, <2>13, <2>14, <1>0, BotUntouched DEF Inv, TableOK, Letters
<1> QED
  BY <1>2, <1>3

LEMMA FormMail ==
    ASSUME Inv, NEW r \in Requests, SendConfirmation(r)
    PROVE  Inv'
<1> DEFINE l == [token |-> req[r].token, key |-> req[r].key]
<1>0. /\ TypeOK /\ UNCHANGED botVars /\ rows' = rows /\ agreed' = agreed /\ faults' = faults
      /\ inputs' = inputs /\ req[r].pc = "mail" /\ req[r] \in ReqRec /\ Answer(r)
      /\ inbox' = inbox \cup {l}
  BY DEF Inv, TypeOK, SendConfirmation, ReqRec
<1>1. /\ req[r].token \in Tokens /\ req[r].key \in EmailKeys /\ req[r].id \in Ids
      /\ rows[req[r].id] # None => rows[req[r].id].key = req[r].key
  BY <1>0 DEF Inv, TableOK, Shape, ReqRec
<1>2. /\ req' \in [Requests -> ReqRec] /\ req'[r] = NoRequest
      /\ \A u \in Requests \ {r} : req'[u] = req[u]
  BY <1>0, Answered
<1>3. TypeOK'
  BY <1>0, <1>1, <1>2 DEF TypeOK, SendConfirmation, botVars, ReqRec
<1>4. ASSUME NEW u \in Requests
      PROVE  Shape(u)'
  <2>1. CASE u = r
    BY <2>1, <1>2, NoRequestKinds DEF Shape
  <2>2. CASE u # r
    BY <2>2, <1>2, <1>0 DEF Inv, TableOK, Shape
  <2> QED
    BY <2>1, <2>2
<1>5. ASSUME NEW t \in Tokens, NEW k \in Keys, About(t, k)'
      PROVE  About(t, k)
  <2>1. t # None
    BY SubscriberConstants
  <2> QED
    BY <1>5, <2>1, <1>0, <1>2, NoRequestKinds DEF About, Present
<1>6. Tags'
  <2>1. inputs' \in Nat /\ inputs' >= inputs
    BY <1>0 DEF TypeOK
  <2> QED
    BY <2>1, <1>5, <1>0, TagsKept DEF Inv, TableOK
<1>7. Unique' /\ ConsentGiven'
  BY <1>0 DEF Inv, TableOK, Unique, ConsentGiven, Present
<1>8. ASSUME faults' = 0, NEW i \in Present', rows'[i].key.channel = "email", ~rows'[i].confirmed
      PROVE  Lettered(i)'
  <2>1. Lettered(i) /\ i \in Present
    BY <1>8, <1>0 DEF Inv, TableOK, Letters, Present
  <2>2. CASE req[r].id = i /\ req[r].token = rows[i].token
    BY <2>1, <2>2, <1>0, <1>1 DEF Lettered, Present
  <2>3. CASE ~(req[r].id = i /\ req[r].token = rows[i].token)
    BY <2>1, <2>3, <1>0, <1>2 DEF Lettered
  <2> QED
    BY <2>2, <2>3
<1> QED
  BY <1>3, <1>4, <1>6, <1>7, <1>8, <1>0, BotUntouched DEF Inv, TableOK, Letters

LEMMA LetterFollowed ==
    ASSUME Inv, NEW r \in Requests, NEW letter \in inbox, handleConfirmSubscribe(r, letter)
    PROVE  Inv'
<1>0. /\ TypeOK /\ UNCHANGED botVars /\ rows' = rows /\ inbox' = inbox /\ faults' = faults
      /\ req[r].pc = "idle" /\ agreed' = agreed \cup {letter.key}
      /\ inputs' \in Nat /\ inputs' >= inputs /\ inputs' \in 0..MaxInputs
      /\ letter.token \in Tokens /\ letter.key \in EmailKeys /\ letter.key \in Keys
  BY SubscriberConstants DEF Inv, TypeOK, handleConfirmSubscribe, Input, Keys
<1>1. PICK i \in SubscriberByConfirmTokenHash(letter.token) :
         req' = [req EXCEPT ![r] = [NoRequest EXCEPT !.pc = "confirm", !.id = i, !.key = letter.key]]
  BY DEF handleConfirmSubscribe
<1>2. i \in Ids /\ rows[i] # None /\ rows[i].token = letter.token /\ rows[i].key \in Keys
  BY <1>0 DEF SubscriberByConfirmTokenHash, Present, TypeOK, Rows
<1>3. rows[i].key = letter.key
  <2>1. About(letter.token, rows[i].key)
    BY <1>2 DEF About, Present
  <2>2. letter = [token |-> letter.token, key |-> letter.key]
    BY <1>0 DEF TypeOK
  <2>3. About(letter.token, letter.key)
    BY <2>2 DEF About
  <2> QED
    BY <2>1, <2>3, <1>0, <1>2 DEF Inv, TableOK, Tags
<1> DEFINE q == [NoRequest EXCEPT !.pc = "confirm", !.id = i, !.key = letter.key]
<1>4. q \in ReqRec /\ q.pc = "confirm" /\ q.id = i /\ q.key = letter.key /\ q.token = None
  BY <1>0, <1>2 DEF NoRequest, ReqRec
<1> HIDE DEF q
<1>5. req' = [req EXCEPT ![r] = q]
  BY <1>1 DEF q
<1>6. /\ req' \in [Requests -> ReqRec] /\ req'[r] = q
  BY <1>0, <1>4, <1>5, RequestStep
<1>7. Shape(r)'
  BY <1>0, <1>2, <1>3, <1>4, <1>6, SubscriberConstants DEF Shape
<1>8. TableOK'
  BY <1>0, <1>4, <1>5, <1>7, RequestMoves
<1>9. TypeOK'
  BY <1>0, <1>6 DEF TypeOK, handleConfirmSubscribe, botVars, ReqRec
<1> QED
  BY <1>0, <1>8, <1>9, BotUntouched DEF Inv

LEMMA LetterConfirms ==
    ASSUME Inv, NEW r \in Requests, ConfirmFound(r)
    PROVE  Inv'
<1>0. /\ TypeOK /\ UNCHANGED botVars /\ inbox' = inbox /\ agreed' = agreed /\ faults' = faults
      /\ inputs' = inputs /\ req[r].pc = "confirm" /\ req[r] \in ReqRec /\ Answer(r)
  BY DEF Inv, TypeOK, ConfirmFound, ReqRec
<1>1. PICK i \in Ids : i = req[r].id
  BY <1>0 DEF Inv, TableOK, Shape, ReqRec
<1>2. rows[i] # None => rows[i].key \in agreed
  BY <1>0, <1>1 DEF Inv, TableOK, Shape
<1>3. /\ rows' \in [Ids -> Rows \cup {None}]
      /\ rows[i] = None => rows'[i] = None
      /\ rows[i] # None =>
            /\ rows'[i] \in Rows /\ rows'[i].key = rows[i].key
            /\ rows'[i].confirmed = TRUE /\ rows'[i].token = None
      /\ \A j \in Ids : j # i => rows'[j] = rows[j]
  <2>1. ConfirmSubscriber(i)
    BY <1>1 DEF ConfirmFound
  <2> QED
    BY <1>0, <2>1, Confirmed
<1>4. /\ req' \in [Requests -> ReqRec] /\ req'[r] = NoRequest
      /\ \A u \in Requests \ {r} : req'[u] = req[u]
  BY <1>0, Answered
<1>5. Present' = Present /\ \A j \in Present : rows'[j].key = rows[j].key
  BY <1>3, SubscriberConstants DEF Present
<1>6. TypeOK'
  BY <1>0, <1>3, <1>4 DEF TypeOK, ConfirmFound, botVars, ReqRec
<1>7. ASSUME NEW u \in Requests
      PROVE  Shape(u)'
  <2>1. CASE u = r
    BY <2>1, <1>4, NoRequestKinds DEF Shape
  <2>2. CASE u # r
    <3>1. req'[u] = req[u] /\ req[u].id \in Ids \cup {None} /\ Shape(u)
      BY <2>2, <1>4, <1>0 DEF TypeOK, Inv, TableOK
    <3>2. \A j \in Ids : (rows[j] = None <=> rows'[j] = None) /\ (rows[j] # None => rows'[j].key = rows[j].key)
      BY <1>5 DEF Present
    <3> QED
      BY <3>1, <3>2, <1>0 DEF Shape
  <2> QED
    BY <2>1, <2>2
<1>8. ASSUME NEW t \in Tokens, NEW k \in Keys, About(t, k)'
      PROVE  About(t, k)
  <2>1. t # None
    BY SubscriberConstants
  <2> QED
    BY <1>8, <2>1, <1>0, <1>3, <1>4, <1>5, NoRequestKinds DEF About, Present
<1>9. Tags'
  <2>1. inputs' \in Nat /\ inputs' >= inputs
    BY <1>0 DEF TypeOK
  <2> QED
    BY <2>1, <1>8, <1>0, TagsKept DEF Inv, TableOK
<1>10. Unique'
  BY <1>5 DEF Inv, TableOK, Unique
<1>11. ConsentGiven'
  BY <1>0, <1>2, <1>3, <1>5 DEF Inv, TableOK, ConsentGiven, Present
<1>12. ASSUME faults' = 0, NEW j \in Present', rows'[j].key.channel = "email", ~rows'[j].confirmed
       PROVE  Lettered(j)'
  <2>1. j # i
    BY <1>12, <1>3 DEF Present
  <2>2. rows'[j] = rows[j] /\ j \in Present
    BY <2>1, <1>12, <1>3 DEF Present
  <2>3. Lettered(j)
    BY <2>2, <1>12, <1>0 DEF Inv, TableOK, Letters
  <2> QED
    BY <2>2, <2>3, <1>0, <1>4 DEF Lettered
<1> QED
  BY <1>6, <1>7, <1>9, <1>10, <1>11, <1>12, <1>0, BotUntouched DEF Inv, TableOK, Letters

-----------------------------------------------------------------------------
(* Deletions, and the keys that are vouched for.                           *)

\* A row goes; if its key loses its consent, no other row had it.
LEMMA TableDeletes ==
    ASSUME Inv, NEW i \in Ids, DeleteSubscriber(i), req' = req, inbox' = inbox,
           faults' = faults, inputs' \in Nat, inputs' >= inputs,
           agreed' = agreed \/ (i \in Present /\ agreed' = agreed \ {rows[i].key})
    PROVE  TableOK'
<1>0. TypeOK
  BY DEF Inv
<1>1. /\ rows' \in [Ids -> Rows \cup {None}] /\ rows'[i] = None
      /\ \A j \in Ids : j # i => rows'[j] = rows[j]
  BY <1>0, Deleted
<1>2. ASSUME NEW j \in Present, j # i, rows[j].key \in agreed
      PROVE  rows[j].key \in agreed'
  BY <1>2 DEF Inv, TableOK, Unique
<1>3. ASSUME NEW u \in Requests
      PROVE  Shape(u)'
  <2>1. Shape(u) /\ req[u].id \in Ids \cup {None}
    BY <1>0 DEF Inv, TableOK, TypeOK
  <2>2. CASE req[u].id = i
    BY <2>1, <2>2, <1>1 DEF Shape
  <2>3. CASE req[u].id \in Ids /\ req[u].id # i
    BY <2>1, <2>3, <1>1, <1>2 DEF Shape, Present
  <2>4. CASE req[u].id = None
    BY <2>1, <2>4 DEF Shape
  <2> QED
    BY <2>1, <2>2, <2>3, <2>4
<1>4. \A t \in Tokens : \A k \in Keys : About(t, k)' => About(t, k)
  BY <1>1 DEF About, Present
<1>5. Tags'
  BY <1>0, <1>4, TagsKept DEF Inv, TableOK
<1>6. Unique'
  BY <1>1 DEF Inv, TableOK, Unique, Present
<1>7. ConsentGiven'
  BY <1>1, <1>2 DEF Inv, TableOK, ConsentGiven, Present
<1>8. ASSUME faults' = 0, NEW j \in Present', rows'[j].key.channel = "email", ~rows'[j].confirmed
      PROVE  Lettered(j)'
  <2>1. rows'[j] = rows[j] /\ j \in Present
    BY <1>8, <1>1 DEF Present
  <2>2. Lettered(j)
    BY <2>1, <1>8 DEF Inv, TableOK, Letters
  <2> QED
    BY <2>1, <2>2 DEF Lettered
<1> QED
  BY <1>3, <1>5, <1>6, <1>7, <1>8 DEF TableOK, Letters

\* A confirmed row comes, for a key that had none.
LEMMA TableInserts ==
    ASSUME Inv, NEW row \in Rows, CreateSubscriber(row), row.confirmed, row.token = None,
           ~AddressTaken(row.key), agreed \subseteq agreed',
           row.key.channel = "email" => row.key \in agreed',
           inbox' = inbox, faults' = faults, inputs' = inputs,
           \A u \in Requests : req'[u] = req[u] \/ (req'[u] = NoRequest /\ req[u].pc # "mail")
    PROVE  TableOK'
<1>0. TypeOK /\ row # None
  BY SubscriberConstants DEF Inv
<1>1. PICK n \in Ids :
         /\ rows[n] = None /\ \A u \in Requests : req[u].id # n
         /\ rows' \in [Ids -> Rows \cup {None}]
         /\ rows'[n] = row
         /\ \A i \in Ids : i # n => rows'[i] = rows[i]
  BY <1>0, Created
<1>2. \A i \in Present : rows[i].key # row.key
  BY DEF AddressTaken, SubscriberByPageChannelAddress
<1>3. ASSUME NEW u \in Requests
      PROVE  Shape(u)'
  <2>1. Shape(u) /\ req[u].id \in Ids \cup {None} /\ req[u].id # n
    BY <1>0, <1>1 DEF Inv, TableOK, TypeOK
  <2>2. CASE req'[u] = req[u]
    BY <2>1, <2>2, <1>1 DEF Shape
  <2>3. CASE req'[u] = NoRequest
    BY <2>3, NoRequestKinds DEF Shape
  <2> QED
    BY <2>2, <2>3
<1>4. ASSUME NEW t \in Tokens, NEW k \in Keys, About(t, k)'
      PROVE  About(t, k)
  <2>1. t # None
    BY SubscriberConstants
  <2> QED
    BY <1>4, <2>1, <1>1, NoRequestKinds DEF About, Present
<1>5. Tags'
  <2>1. inputs' \in Nat /\ inputs' >= inputs
    BY <1>0 DEF TypeOK
  <2> QED
    BY <2>1, <1>4, <1>0, TagsKept DEF Inv, TableOK
<1>6. Unique'
  BY <1>1, <1>2 DEF Inv, TableOK, Unique, Present
<1>7. ConsentGiven'
  BY <1>1 DEF Inv, TableOK, ConsentGiven, Present
<1>8. ASSUME faults' = 0, NEW j \in Present', rows'[j].key.channel = "email", ~rows'[j].confirmed
      PROVE  Lettered(j)'
  <2>1. rows'[j] = rows[j] /\ j \in Present
    BY <1>8, <1>1 DEF Present
  <2>2. Lettered(j)
    BY <2>1, <1>8 DEF Inv, TableOK, Letters
  <2> QED
    BY <2>1, <2>2 DEF Lettered
<1> QED
  BY <1>3, <1>5, <1>6, <1>7, <1>8 DEF TableOK, Letters

LEMMA Vouched ==
    ASSUME Inv, NEW r \in Requests, VouchedCreate(r)
    PROVE  Inv'
<1>0. /\ TypeOK /\ UNCHANGED botVars /\ inbox' = inbox /\ faults' = faults
      /\ inputs' = inputs /\ req[r].pc = "vouch" /\ req[r] \in ReqRec /\ Answer(r)
  BY DEF Inv, TypeOK, VouchedCreate, ReqRec
<1>1. PICK k \in Keys, s \in Scopes : k = req[r].key /\ s = req[r].scope
  BY <1>0 DEF Inv, TableOK, Shape, ReqRec
<1>2. /\ req' \in [Requests -> ReqRec] /\ req'[r] = NoRequest
      /\ \A u \in Requests \ {r} : req'[u] = req[u]
  BY <1>0, Answered
<1>3. CASE AddressTaken(k)
  <2>1. rows' = rows /\ agreed' = agreed /\ meddled' = meddled
    BY <1>1, <1>3 DEF VouchedCreate
  <2>2. TableOK'
    BY <1>0, <2>1, RequestEnds
  <2>3. TypeOK'
    BY <1>0, <2>1, <1>2 DEF TypeOK, VouchedCreate, botVars, ReqRec
  <2> QED
    BY <2>2, <2>3, <1>0, BotUntouched DEF Inv
<1>4. CASE ~AddressTaken(k)
  <2> DEFINE row == Row(k, TRUE, None, s)
  <2>1. row \in Rows /\ row.key = k /\ row.confirmed = TRUE /\ row.token = None
    BY DEF Row, Rows
  <2> HIDE DEF row
  <2>2. /\ CreateSubscriber(row)
        /\ agreed' = agreed \cup ({k} \cap EmailKeys) /\ meddled' = meddled \cup ({k} \cap ChatKeys)
    <3>1. ~AddressTaken(req[r].key)
      BY <1>1, <1>4
    <3> QED
      BY <1>1, <3>1 DEF VouchedCreate, row
  <2>3. k.channel = "email" => k \in agreed'
    BY <2>2, KeyKinds
  <2>4. TableOK'
    BY <1>0, <1>2, <1>4, <2>1, <2>2, <2>3, TableInserts
  <2>5. rows' \in [Ids -> Rows \cup {None}]
    BY <1>0, <2>1, <2>2, Created
  <2>6. TypeOK'
    BY <1>0, <1>2, <2>2, <2>5 DEF TypeOK, VouchedCreate, botVars, ReqRec
  <2> QED
    BY <2>4, <2>6, <1>0, BotUntouched DEF Inv
<1> QED
  BY <1>3, <1>4

\* The operator and the return from Slack start a request for a key.
LEMMA VouchStarts ==
    ASSUME Inv, NEW r \in Requests, NEW k \in Keys, NEW s \in Scopes,
           req[r].pc = "idle", Input,
           req' = [req EXCEPT ![r] = [NoRequest EXCEPT !.pc = "vouch", !.key = k, !.scope = s]],
           UNCHANGED <<rows, inbox, live, oauth, botVars, agreed, meddled, faults>>
    PROVE  Inv'
<1> DEFINE q == [NoRequest EXCEPT !.pc = "vouch", !.key = k, !.scope = s]
<1>0. /\ TypeOK /\ inputs' \in Nat /\ inputs' >= inputs /\ inputs' \in 0..MaxInputs
  BY SubscriberConstants DEF Inv, TypeOK, Input
<1>1. q \in ReqRec /\ q.pc = "vouch" /\ q.key = k /\ q.scope = s /\ q.token = None
  BY DEF NoRequest, ReqRec
<1> HIDE DEF q
<1>2. req' = [req EXCEPT ![r] = q]
  BY DEF q
<1>3. req' \in [Requests -> ReqRec] /\ req'[r] = q
  BY <1>0, <1>1, <1>2, RequestStep
<1>4. Shape(r)'
  BY <1>1, <1>3, SubscriberConstants DEF Shape
<1>5. TableOK'
  BY <1>0, <1>1, <1>2, <1>4, RequestMoves
<1>6. TypeOK'
  BY <1>0, <1>3 DEF TypeOK, botVars, ReqRec
<1> QED
  BY <1>5, <1>6, BotUntouched DEF Inv

LEMMA Fails ==
    ASSUME Inv, NEW r \in Requests, RequestFails(r)
    PROVE  Inv'
<1>0. /\ TypeOK /\ UNCHANGED botVars /\ rows' = rows /\ inbox' = inbox /\ agreed' = agreed
      /\ inputs' = inputs /\ Answer(r) /\ faults' # 0 /\ faults' \in 0..MaxFaults
  BY SubscriberConstants DEF Inv, TypeOK, RequestFails
<1>1. TableOK'
  BY <1>0, RequestEnds
<1>2. TypeOK'
  BY <1>0, Answered DEF TypeOK, RequestFails, botVars, ReqRec
<1> QED
  BY <1>0, <1>1, <1>2, BotUntouched DEF Inv

LEMMA Unsubscribed ==
    ASSUME Inv, NEW i \in Ids, handleUnsubscribe(i)
    PROVE  Inv'
<1>0. /\ TypeOK /\ UNCHANGED botVars /\ inbox' = inbox /\ req' = req /\ faults' = faults
      /\ i \in Present /\ DeleteSubscriber(i) /\ agreed' = agreed \ {rows[i].key}
      /\ inputs' \in Nat /\ inputs' >= inputs /\ inputs' \in 0..MaxInputs
  BY SubscriberConstants DEF Inv, TypeOK, handleUnsubscribe, Input, apiVars
<1>1. TableOK'
  BY <1>0, TableDeletes
<1>2. TypeOK'
  BY <1>0, Deleted DEF TypeOK, handleUnsubscribe, botVars, apiVars
<1> QED
  BY <1>0, <1>1, <1>2, BotUntouched DEF Inv

-----------------------------------------------------------------------------
(* Pages, and the chat's side.                                             *)

LEMMA SlackStarts ==
    ASSUME Inv, NEW p \in Pages, handleSlackStart(p) \/ DeletePage(p)
    PROVE  Inv'
<1>0. /\ TypeOK /\ UNCHANGED botVars /\ rows' = rows /\ inbox' = inbox /\ req' = req
      /\ agreed' = agreed /\ faults' = faults
      /\ inputs' \in Nat /\ inputs' >= inputs /\ inputs' \in 0..MaxInputs
  BY SubscriberConstants DEF Inv, TypeOK, handleSlackStart, DeletePage, Input, apiVars
<1>1. TableOK'
  BY <1>0, TableUntouched
<1>2. TypeOK'
  BY <1>0 DEF TypeOK, handleSlackStart, DeletePage, botVars, apiVars
<1> QED
  BY <1>0, <1>1, <1>2, BotUntouched DEF Inv

\* The bot when n commands have been sent.
BotRec(n) ==
    [pc : {"poll", "batch", "create", "delete"}, offset : 0..n + 1,
     got : 0..n, page : Pages \cup {None}, ids : SUBSET Ids]

LEMMA LoopKinds ==
    ASSUME NEW n \in Nat, NEW b \in BotRec(n), b.offset >= 1
    PROVE  /\ Loop(b) \in BotRec(n)
           /\ Loop(b).offset = b.offset /\ Loop(b).got = b.got /\ Loop(b).ids = {}
           /\ Loop(b).pc \in {"poll", "batch"}
           /\ Loop(b).pc = "batch" => b.offset <= b.got
<1> DEFINE c == IF b.offset > b.got THEN "poll" ELSE "batch"
<1>1. /\ c \in {"poll", "batch"}
      /\ c = "batch" => b.offset <= b.got
      /\ {} \in SUBSET Ids /\ b.offset \in 0..n + 1 /\ b.got \in 0..n
  BY DEF BotRec
<1> HIDE DEF c
<1>a. Loop(b) = [b EXCEPT !.pc = c, !.page = None, !.ids = {}]
  BY DEF Loop, c
<1>2. Loop(b) = [pc |-> c, offset |-> b.offset, got |-> b.got, page |-> None, ids |-> {}]
  BY <1>a DEF BotRec
<1> QED
  BY <1>1, <1>2 DEF BotRec

\* What the invariant says of the command in hand.
LEMMA BotFacts ==
    ASSUME Inv
    PROVE  /\ Len(sent) \in Nat /\ bot \in BotRec(Len(sent)) /\ acked \in 0..Len(sent)
           /\ \A n \in 1..Len(sent) :
                /\ sent[n] \in Commands
                /\ sent[n].cmd \in {"/start", "/stop"} /\ sent[n].arg \in Pages \cup {None}
                /\ sent[n].cmd = "/start" =>
                     sent[n] = [cmd |-> "/start", arg |-> sent[n].arg] /\ sent[n].arg \in Pages
           /\ bot.pc = "batch" => bot.offset \in 1..Len(sent) /\ bot.offset <= bot.got
           /\ bot.pc \in {"create", "delete"} =>
                bot.offset >= 2 /\ bot.offset - 1 \in 1..Len(sent)
           /\ bot.pc = "create" => bot.page \in Pages
<1>1. sent \in Seq(Commands) /\ Len(sent) \in Nat /\ bot \in BotRec(Len(sent)) /\ acked \in 0..Len(sent)
  BY DEF Inv, TypeOK, BotRec
<1>2. ASSUME NEW n \in 1..Len(sent)
      PROVE  /\ sent[n] \in Commands
             /\ sent[n].cmd \in {"/start", "/stop"} /\ sent[n].arg \in Pages \cup {None}
             /\ sent[n].cmd = "/start" =>
                  sent[n] = [cmd |-> "/start", arg |-> sent[n].arg] /\ sent[n].arg \in Pages
  <2>1. sent[n] \in Commands
    BY <1>1
  <2> QED
    BY <2>1 DEF Commands
<1>3. /\ bot.pc = "batch" => bot.offset \in 1..Len(sent) /\ bot.offset <= bot.got
      /\ bot.pc \in {"create", "delete"} => bot.offset >= 2 /\ bot.offset - 1 \in 1..Len(sent)
  BY <1>1 DEF Inv, BotShape, BotRec
<1>4. bot.pc = "create" => bot.page \in Pages
  <2> SUFFICES ASSUME bot.pc = "create" PROVE bot.page \in Pages
    OBVIOUS
  <2>1. sent[bot.offset - 1] = [cmd |-> "/start", arg |-> bot.page]
    BY DEF Inv, BotShape
  <2> QED
    BY <2>1, <1>2, <1>3
<1> QED
  BY <1>1, <1>2, <1>3, <1>4

LEMMA GetStep ==
    ASSUME Inv, GetUpdates
    PROVE  /\ bot' \in BotRec(Len(sent)) /\ BotShape' /\ acked' \in 0..Len(sent)
           /\ bot.pc = "poll" /\ bot'.pc = "batch" /\ bot'.offset = Start /\ bot'.offset >= 1
<1>1. /\ Len(sent) \in Nat /\ bot \in BotRec(Len(sent)) /\ acked \in 0..Len(sent)
      /\ bot.pc = "poll" /\ Start <= Len(sent) /\ acked' = Start - 1 /\ sent' = sent
      /\ bot' = [bot EXCEPT !.pc = "batch", !.offset = Start, !.got = Len(sent)]
  BY BotFacts DEF GetUpdates
<1>2. Start \in 1..Len(sent)
  BY <1>1 DEF Start, BotRec
<1> HIDE DEF Start
<1>a. bot' = [pc |-> "batch", offset |-> Start, got |-> Len(sent), page |-> bot.page, ids |-> bot.ids]
  BY <1>1 DEF BotRec
<1>b. Start \in 0..Len(sent) + 1 /\ Len(sent) \in 0..Len(sent)
      /\ bot.page \in Pages \cup {None} /\ bot.ids \in SUBSET Ids
  BY <1>1, <1>2 DEF BotRec
<1>3. /\ bot' \in BotRec(Len(sent)) /\ bot'.pc = "batch" /\ bot'.offset = Start
      /\ bot'.got = Len(sent) /\ bot'.ids = bot.ids
  BY <1>a, <1>b DEF BotRec
<1>4. BotShape'
  BY <1>1, <1>2, <1>3 DEF Inv, BotShape
<1> QED
  BY <1>1, <1>2, <1>3, <1>4

LEMMA StartStep ==
    ASSUME Inv, handleStart
    PROVE  /\ bot' \in BotRec(Len(sent)) /\ BotShape'
           /\ bot.pc = "batch" /\ bot'.offset = bot.offset + 1
           /\ bot.offset \in 1..Len(sent)
           /\ sent[bot.offset].arg \in Pages
           /\ sent[bot.offset] = [cmd |-> "/start", arg |-> sent[bot.offset].arg]
           /\ bot'.ids = {}
           /\ \/ /\ bot'.pc \in {"poll", "batch"}
                 /\ \/ sent[bot.offset].arg \notin live
                    \/ AddressTaken(ChatKey(sent[bot.offset].arg))
              \/ /\ bot'.pc = "create" /\ bot'.page = sent[bot.offset].arg
                 /\ ~AddressTaken(ChatKey(sent[bot.offset].arg))
<1>1. /\ Len(sent) \in Nat /\ bot \in BotRec(Len(sent)) /\ acked \in 0..Len(sent)
      /\ bot.pc = "batch" /\ sent[bot.offset].cmd = "/start" /\ sent' = sent /\ acked' = acked
      /\ bot.offset \in 1..Len(sent) /\ bot.offset <= bot.got /\ acked < bot.offset /\ bot.ids = {}
  BY BotFacts DEF handleStart, Inv, BotShape
<1>2. PICK p \in Pages : p = sent[bot.offset].arg /\ sent[bot.offset] = [cmd |-> "/start", arg |-> p]
  BY <1>1, BotFacts
<1> DEFINE b == [bot EXCEPT !.offset = @ + 1]
<1>3. /\ b \in BotRec(Len(sent)) /\ b.offset = bot.offset + 1 /\ b.got = bot.got /\ b.ids = {}
      /\ b.offset >= 1
  BY <1>1 DEF BotRec
<1>4. bot' = IF p \notin live \/ AddressTaken(ChatKey(p)) THEN Loop(b)
             ELSE [b EXCEPT !.pc = "create", !.page = p]
  BY <1>2 DEF handleStart, ChatKey
<1> HIDE DEF b
<1>5. CASE p \notin live \/ AddressTaken(ChatKey(p))
  <2>1. bot' = Loop(b)
    BY <1>4, <1>5
  <2>2. /\ bot' \in BotRec(Len(sent)) /\ bot'.offset = bot.offset + 1 /\ bot'.got = bot.got
        /\ bot'.ids = {} /\ bot'.pc \in {"poll", "batch"}
        /\ bot'.pc = "batch" => bot'.offset <= bot'.got
    BY <1>1, <1>3, <2>1, LoopKinds
  <2>3. BotShape'
    BY <1>1, <2>2 DEF BotShape, BotRec
  <2> QED
    BY <1>1, <1>2, <1>5, <2>2, <2>3
<1>6. CASE ~(p \notin live \/ AddressTaken(ChatKey(p)))
  <2>1. bot' = [b EXCEPT !.pc = "create", !.page = p]
    BY <1>4, <1>6
  <2>2. /\ bot' \in BotRec(Len(sent)) /\ bot'.offset = bot.offset + 1 /\ bot'.got = bot.got
        /\ bot'.ids = {} /\ bot'.pc = "create" /\ bot'.page = p
    BY <1>1, <1>3, <2>1 DEF BotRec
  <2>3. bot'.offset - 1 = bot.offset /\ bot'.offset >= 2 /\ acked' + 1 < bot'.offset
    BY <1>1, <2>2
  <2>4. sent'[bot'.offset - 1] = [cmd |-> "/start", arg |-> bot'.page]
    BY <1>1, <1>2, <2>2, <2>3
  <2>5. BotShape'
    BY <1>1, <2>2, <2>3, <2>4 DEF BotShape
  <2> QED
    BY <1>1, <1>2, <1>6, <2>2, <2>5
<1> QED
  BY <1>5, <1>6

\* What handleStop looks up for the command n.
Found(n) ==
    IF sent[n].arg = None THEN SubscribersByChannelAddress("telegram", Chat)
    ELSE IF sent[n].arg \in live THEN SubscriberByPageChannelAddress(ChatKey(sent[n].arg))
         ELSE {}

LEMMA StopStep ==
    ASSUME Inv, handleStop
    PROVE  /\ bot' \in BotRec(Len(sent)) /\ BotShape'
           /\ bot.pc = "batch" /\ bot'.offset = bot.offset + 1
           /\ bot.offset \in 1..Len(sent)
           /\ sent[bot.offset].cmd = "/stop"
           /\ bot'.ids = Found(bot.offset)
           /\ IF Found(bot.offset) = {} THEN bot'.pc \in {"poll", "batch"} ELSE bot'.pc = "delete"
<1>1. /\ Len(sent) \in Nat /\ bot \in BotRec(Len(sent)) /\ acked \in 0..Len(sent)
      /\ bot.pc = "batch" /\ sent[bot.offset].cmd = "/stop" /\ sent' = sent /\ acked' = acked
      /\ bot.offset \in 1..Len(sent) /\ bot.offset <= bot.got /\ acked < bot.offset /\ bot.ids = {}
  BY BotFacts DEF handleStop, Inv, BotShape
<1> DEFINE b == [bot EXCEPT !.offset = @ + 1]
           found == Found(bot.offset)
<1>2. /\ b \in BotRec(Len(sent)) /\ b.offset = bot.offset + 1 /\ b.got = bot.got /\ b.ids = {}
      /\ b.offset >= 1
  BY <1>1 DEF BotRec
<1>3. found \subseteq Ids
  BY DEF Found, SubscribersByChannelAddress, SubscriberByPageChannelAddress, Present
<1>4. bot' = IF found = {} THEN Loop(b) ELSE [b EXCEPT !.pc = "delete", !.ids = found]
  BY DEF handleStop, Found, ChatKey
<1> HIDE DEF b, found
<1>5. CASE found = {}
  <2>1. bot' = Loop(b)
    BY <1>4, <1>5
  <2>2. /\ bot' \in BotRec(Len(sent)) /\ bot'.offset = bot.offset + 1 /\ bot'.got = bot.got
        /\ bot'.ids = {} /\ bot'.pc \in {"poll", "batch"}
        /\ bot'.pc = "batch" => bot'.offset <= bot'.got
    BY <1>1, <1>2, <2>1, LoopKinds
  <2>3. BotShape'
    BY <1>1, <2>2 DEF BotShape, BotRec
  <2> QED
    BY <1>1, <1>5, <2>2, <2>3 DEF found
<1>6. CASE found # {}
  <2>1. bot' = [b EXCEPT !.pc = "delete", !.ids = found]
    BY <1>4, <1>6
  <2>2. /\ bot' \in BotRec(Len(sent)) /\ bot'.offset = bot.offset + 1 /\ bot'.got = bot.got
        /\ bot'.ids = found /\ bot'.pc = "delete"
    BY <1>1, <1>2, <1>3, <2>1 DEF BotRec
  <2>3. bot'.offset - 1 = bot.offset /\ bot'.offset >= 2 /\ acked' + 1 < bot'.offset
    BY <1>1, <2>2
  <2>4. BotShape'
    BY <1>1, <2>2, <2>3 DEF BotShape, BotRec
  <2> QED
    BY <1>1, <1>6, <2>2, <2>4 DEF found
<1> QED
  BY <1>5, <1>6

\* The bot goes back to the loop with the command it was running.
LEMMA LoopStep ==
    ASSUME Inv, bot.pc \in {"create", "delete"}, bot' = Loop(bot), sent' = sent, acked' = acked
    PROVE  /\ bot' \in BotRec(Len(sent)) /\ BotShape' /\ bot'.offset = bot.offset
           /\ bot'.pc \in {"poll", "batch"} /\ bot'.ids = {}
<1>1. /\ Len(sent) \in Nat /\ bot \in BotRec(Len(sent)) /\ acked \in 0..Len(sent)
      /\ bot.offset >= 2 /\ acked + 1 < bot.offset /\ bot.offset \in Nat
  BY BotFacts DEF Inv, BotShape, BotRec
<1>2. /\ bot' \in BotRec(Len(sent)) /\ bot'.offset = bot.offset /\ bot'.got = bot.got
      /\ bot'.ids = {} /\ bot'.pc \in {"poll", "batch"}
      /\ bot'.pc = "batch" => bot'.offset <= bot'.got
  BY <1>1, LoopKinds
<1>3. BotShape'
  BY <1>1, <1>2 DEF BotShape, BotRec
<1> QED
  BY <1>2, <1>3

\* One subscription less to delete.
LEMMA ShrinkStep ==
    ASSUME Inv, bot.pc = "delete", NEW i \in Ids, bot' = [bot EXCEPT !.ids = @ \ {i}],
           sent' = sent, acked' = acked
    PROVE  /\ bot' \in BotRec(Len(sent)) /\ BotShape' /\ bot'.offset = bot.offset
           /\ bot'.pc = "delete" /\ bot'.ids = bot.ids \ {i}
<1>1. bot \in BotRec(Len(sent))
  BY BotFacts
<1>2. /\ bot' \in BotRec(Len(sent)) /\ bot'.offset = bot.offset /\ bot'.got = bot.got
      /\ bot'.ids = bot.ids \ {i} /\ bot'.pc = "delete"
  BY <1>1 DEF BotRec
<1>3. BotShape'
  BY <1>2 DEF Inv, BotShape
<1> QED
  BY <1>2, <1>3

LEMMA FailStep ==
    ASSUME Inv, BotFails
    PROVE  bot' \in BotRec(Len(sent)) /\ BotShape' /\ faults' # 0 /\ faults' \in 0..MaxFaults
           /\ (bot'.pc = "delete" => bot'.ids \subseteq bot.ids /\ bot'.offset = bot.offset /\ bot.pc = "delete")
<1>0. /\ sent' = sent /\ acked' = acked /\ faults' # 0 /\ faults' \in 0..MaxFaults
      /\ bot.pc \in {"batch", "create", "delete"}
      /\ bot \in BotRec(Len(sent)) /\ Len(sent) \in Nat
  BY SMTT(30), BotFacts, SubscriberConstants DEF BotFails, Inv, TypeOK
<1>1. CASE bot.pc = "batch"
  <2> DEFINE b == [bot EXCEPT !.offset = @ + 1]
  <2>1. /\ bot.offset \in 1..Len(sent) /\ bot.offset <= bot.got /\ acked < bot.offset
        /\ acked \in 0..Len(sent)
    BY <1>1, BotFacts DEF Inv, BotShape
  <2>2. /\ b \in BotRec(Len(sent)) /\ b.offset = bot.offset + 1 /\ b.got = bot.got
        /\ b.offset >= 1
    BY <1>0, <2>1 DEF BotRec
  <2>3. bot' = Loop(b)
    BY <1>1 DEF BotFails
  <2> HIDE DEF b
  <2>4. /\ bot' \in BotRec(Len(sent)) /\ bot'.offset = bot.offset + 1 /\ bot'.got = bot.got
        /\ bot'.ids = {} /\ bot'.pc \in {"poll", "batch"}
        /\ bot'.pc = "batch" => bot'.offset <= bot'.got
    BY <1>0, <2>2, <2>3, LoopKinds
  <2>5. BotShape'
    BY <1>0, <2>1, <2>4 DEF BotShape, BotRec
  <2> QED
    BY <1>0, <2>4, <2>5
<1>2. CASE bot.pc = "create"
  <2>1. bot' = Loop(bot)
    BY <1>2 DEF BotFails
  <2> QED
    BY <1>0, <1>2, <2>1, LoopStep
<1>3. CASE bot.pc = "delete"
  <2>1. PICK i : i = CHOOSE k \in bot.ids : TRUE
    OBVIOUS
  <2>2. bot' = IF bot.ids = {i} THEN Loop(bot) ELSE [bot EXCEPT !.ids = @ \ {i}]
    BY <1>3, <2>1 DEF BotFails
  <2>3. CASE bot.ids = {i}
    BY <1>0, <1>3, <2>2, <2>3, LoopStep
  <2>4. CASE bot.ids # {i}
    <3>1. bot' = [bot EXCEPT !.ids = @ \ {i}]
      BY <2>2, <2>4
    <3>2. /\ bot' \in BotRec(Len(sent)) /\ bot'.offset = bot.offset /\ bot'.got = bot.got
          /\ bot'.ids = bot.ids \ {i} /\ bot'.pc = "delete"
      BY <1>0, <1>3, <3>1 DEF BotRec
    <3>3. BotShape'
      BY <1>0, <1>3, <3>2 DEF Inv, BotShape
    <3> QED
      BY <1>0, <1>3, <3>2, <3>3
  <2> QED
    BY <2>3, <2>4
<1> QED
  BY <1>0, <1>1, <1>2, <1>3

LEMMA CrashStep ==
    ASSUME Inv, BotCrash
    PROVE  /\ bot' \in BotRec(Len(sent)) /\ BotShape'
           /\ bot'.pc = "poll" /\ bot'.offset = 0 /\ bot'.ids = {}
  BY BotFacts DEF BotCrash, Polling, BotRec, BotShape

\* A command of the chat comes last and changes no earlier one.
LEMMA ChatStep ==
    ASSUME Inv, NEW c \in Commands, ChatSends(c)
    PROVE  /\ Len(sent') = Len(sent) + 1 /\ sent' \in Seq(Commands)
           /\ \A n \in 1..Len(sent) : sent'[n] = sent[n]
           /\ sent'[Len(sent) + 1] = c
           /\ bot' \in BotRec(Len(sent')) /\ BotShape'
<1>1. sent \in Seq(Commands) /\ sent' = Append(sent, c) /\ bot' = bot /\ acked' = acked
  BY DEF Inv, TypeOK, ChatSends
<1>2. /\ Len(sent') = Len(sent) + 1 /\ sent' \in Seq(Commands)
      /\ \A n \in 1..Len(sent) : sent'[n] = sent[n]
      /\ sent'[Len(sent) + 1] = c
  BY <1>1
<1>3. bot' \in BotRec(Len(sent'))
  <2>1. bot \in BotRec(Len(sent)) /\ Len(sent) \in Nat
    BY BotFacts
  <2> QED
    BY <1>1, <1>2, <2>1 DEF BotRec
<1>4. BotShape'
  <2>1. bot.pc \in {"create", "delete"} => sent'[bot.offset - 1] = sent[bot.offset - 1]
    BY <1>2, BotFacts
  <2> QED
    BY <1>1, <2>1 DEF Inv, BotShape
<1> QED
  BY <1>2, <1>3, <1>4

-----------------------------------------------------------------------------
(* Every step keeps the invariant.                                         *)

\* The bot moves without touching the table.
LEMMA BotMoves ==
    ASSUME Inv, GetUpdates \/ handleStart \/ handleStop \/ BotFails \/ BotCrash
    PROVE  Inv'
<1>0. /\ TypeOK /\ rows' = rows /\ inbox' = inbox /\ req' = req /\ agreed' = agreed
      /\ inputs' = inputs /\ inputs \in Nat /\ sent' = sent /\ meddled' = meddled
      /\ live' = live /\ oauth' = oauth
      /\ faults' = 0 => faults = 0
  BY SMTT(30), SubscriberConstants DEF Inv, TypeOK, GetUpdates, handleStart, handleStop, BotFails, BotCrash,
     apiVars
<1>1. TableOK'
  BY <1>0, TableUntouched
<1>2. bot' \in BotRec(Len(sent)) /\ BotShape'
  BY GetStep, StartStep, StopStep, FailStep, CrashStep
<1>3. acked' \in 0..Len(sent)
  BY <1>0, GetStep DEF TypeOK, handleStart, handleStop, BotFails, BotCrash
<1>4. faults' \in 0..MaxFaults
  BY <1>0, FailStep DEF TypeOK, GetUpdates, handleStart, handleStop, BotCrash
<1>5. crashes' \in 0..MaxCrashes
  BY <1>0, SubscriberConstants DEF TypeOK, GetUpdates, handleStart, handleStop, BotFails, BotCrash
<1>6. TypeOK'
  BY <1>0, <1>2, <1>3, <1>4, <1>5 DEF TypeOK, BotRec
<1> QED
  BY <1>1, <1>2, <1>6 DEF Inv

LEMMA BotInserts ==
    ASSUME Inv, BotCreate
    PROVE  Inv'
<1>0. /\ TypeOK /\ inbox' = inbox /\ req' = req /\ agreed' = agreed /\ faults' = faults
      /\ inputs' = inputs /\ inputs \in Nat /\ sent' = sent /\ acked' = acked
      /\ meddled' = meddled /\ live' = live /\ oauth' = oauth /\ crashes' = crashes
      /\ bot.pc = "create" /\ bot' = Loop(bot)
  BY DEF Inv, TypeOK, BotCreate, apiVars
<1>1. bot' \in BotRec(Len(sent)) /\ BotShape'
  BY <1>0, LoopStep
<1>2. PICK p \in Pages : p = bot.page
  BY <1>0, BotFacts
<1>3. TableOK' /\ rows' \in [Ids -> Rows \cup {None}]
  <2>1. CASE AddressTaken(ChatKey(p))
    <3>1. rows' = rows
      BY <1>2, <2>1 DEF BotCreate, ChatKey
    <3> QED
      BY <1>0, <3>1, TableUntouched DEF TypeOK
  <2>2. CASE ~AddressTaken(ChatKey(p))
    <3> DEFINE k == ChatKey(p)
               row == Row(k, TRUE, None, "page")
    <3>1. CreateSubscriber(row)
      BY <1>2, <2>2 DEF BotCreate, ChatKey
    <3>2. k \in Keys /\ k.channel = "telegram" /\ ~AddressTaken(k)
      BY <2>2, ChatKeyKinds
    <3> HIDE DEF k
    <3>3. row \in Rows /\ row.key = k /\ row.confirmed = TRUE /\ row.token = None
      BY <3>2, SubscriberConstants DEF Row, Rows
    <3> HIDE DEF row
    <3> QED
      BY <1>0, <3>1, <3>2, <3>3, TableInserts, Created
  <2> QED
    BY <2>1, <2>2
<1>4. TypeOK'
  BY <1>0, <1>1, <1>3 DEF TypeOK, BotRec
<1> QED
  BY <1>1, <1>3, <1>4 DEF Inv

LEMMA BotRemoves ==
    ASSUME Inv, BotDelete
    PROVE  Inv'
<1>0. /\ TypeOK /\ inbox' = inbox /\ req' = req /\ agreed' = agreed /\ faults' = faults
      /\ inputs' = inputs /\ inputs \in Nat /\ sent' = sent /\ acked' = acked
      /\ meddled' = meddled /\ live' = live /\ oauth' = oauth /\ crashes' = crashes
      /\ bot.pc = "delete"
  BY DEF Inv, TypeOK, BotDelete, apiVars
<1>1. PICK i \in bot.ids : /\ DeleteSubscriber(i)
                           /\ bot' = IF bot.ids = {i} THEN Loop(bot) ELSE [bot EXCEPT !.ids = @ \ {i}]
  BY DEF BotDelete
<1>2. i \in Ids
  BY <1>0 DEF TypeOK
<1>3. bot' \in BotRec(Len(sent)) /\ BotShape'
  BY <1>0, <1>1, <1>2, LoopStep, ShrinkStep
<1>4. TableOK'
  BY <1>0, <1>1, <1>2, TableDeletes
<1>5. TypeOK'
  BY <1>0, <1>1, <1>2, <1>3, Deleted DEF TypeOK, BotRec
<1> QED
  BY <1>3, <1>4, <1>5 DEF Inv

LEMMA ChatWrites ==
    ASSUME Inv, NEW c \in Commands, ChatSends(c)
    PROVE  Inv'
<1>0. /\ TypeOK /\ rows' = rows /\ inbox' = inbox /\ req' = req /\ agreed' = agreed
      /\ faults' = faults /\ inputs' \in Nat /\ inputs' >= inputs /\ inputs' \in 0..MaxInputs
      /\ acked' = acked /\ meddled' = meddled /\ live' = live /\ oauth' = oauth
      /\ crashes' = crashes
  BY SubscriberConstants DEF Inv, TypeOK, ChatSends, Input, apiVars
<1>1. TableOK'
  BY <1>0, TableUntouched
<1>2. TypeOK'
  <2>1. acked' \in 0..Len(sent')
    BY <1>0, ChatStep, BotFacts
  <2> QED
    BY <1>0, <2>1, ChatStep DEF TypeOK, BotRec
<1> QED
  BY <1>1, <1>2, ChatStep DEF Inv

LEMMA InvInit == Init => Inv
<1> SUFFICES ASSUME Init PROVE Inv
  OBVIOUS
<1>1. TypeOK
  BY SubscriberConstants DEF Init, TypeOK, NoRequest, Polling
<1>2. BotShape
  BY DEF Init, BotShape, Polling
<1>3. Present = {} /\ \A r \in Requests : req[r] = NoRequest
  BY DEF Init, Present
<1>4. TableOK
  <2>1. \A r \in Requests : Shape(r)
    BY <1>3, NoRequestKinds DEF Shape
  <2>2. \A t \in Tokens : \A k \in Keys : ~About(t, k)
    BY <1>3, NoRequestKinds, SubscriberConstants DEF About, Init
  <2>3. Unique /\ ConsentGiven /\ Letters
    BY <1>3 DEF Unique, ConsentGiven, Letters
  <2> QED
    BY <2>1, <2>2, <2>3 DEF TableOK, Tags
<1> QED
  BY <1>1, <1>2, <1>4 DEF Inv

LEMMA InvStep == Inv /\ [Next]_vars => Inv'
<1> SUFFICES ASSUME Inv, [Next]_vars PROVE Inv'
  OBVIOUS
<1>1. ASSUME NEW r \in Requests, \E k \in EmailKeys, s \in Scopes : handleSubscribe(r, k, s)
      PROVE  Inv'
  BY <1>1, FormLookup
<1>2. ASSUME NEW r \in Requests, \E letter \in inbox : handleConfirmSubscribe(r, letter)
      PROVE  Inv'
  BY <1>2, LetterFollowed
<1>3. ASSUME NEW r \in Requests, NEW k \in Keys, NEW s \in Scopes, handleCreateSubscriber(r, k, s)
      PROVE  Inv'
  BY <1>3, VouchStarts DEF handleCreateSubscriber
<1>4. ASSUME NEW r \in Requests, NEW p \in Pages, NEW h \in Hooks, handleSlackCallback(r, p, h)
      PROVE  Inv'
  <2>1. PICK k \in Keys : k = Key(p, "slack", h)
    BY SlackKeyKinds
  <2>2. req' = [req EXCEPT ![r] = [NoRequest EXCEPT !.pc = "vouch", !.key = k, !.scope = "page"]]
    <3>1. [NoRequest EXCEPT !.pc = "vouch", !.key = k, !.scope = "page"]
          = [NoRequest EXCEPT !.pc = "vouch", !.scope = "page", !.key = k]
      BY DEF NoRequest
    <3> QED
      BY <1>4, <2>1, <3>1 DEF handleSlackCallback
  <2> QED
    BY <1>4, <2>2, VouchStarts, SubscriberConstants DEF handleSlackCallback
<1>5. ASSUME NEW r \in Requests, Serve(r)
      PROVE  Inv'
  BY <1>5, FormCreate, FormReissue, FormMail, LetterConfirms, Vouched DEF Serve
<1>6. ASSUME NEW r \in Requests, RequestFails(r)
      PROVE  Inv'
  BY <1>6, Fails
<1>7. ASSUME NEW p \in Pages, handleSlackStart(p) \/ DeletePage(p)
      PROVE  Inv'
  BY <1>7, SlackStarts
<1>8. ASSUME NEW i \in Ids, handleUnsubscribe(i)
      PROVE  Inv'
  BY <1>8, Unsubscribed
<1>9. ASSUME NEW c \in Commands, ChatSends(c)
      PROVE  Inv'
  BY <1>9, ChatWrites
<1>10. CASE Run \/ BotFails \/ BotCrash
  BY <1>10, BotMoves, BotInserts, BotRemoves DEF Run
<1>11. CASE UNCHANGED vars
  <2>1. /\ rows' = rows /\ inbox' = inbox /\ req' = req /\ agreed' = agreed /\ faults' = faults
        /\ inputs' = inputs /\ inputs \in Nat /\ UNCHANGED botVars
    BY <1>11 DEF vars, botVars, Inv, TypeOK
  <2>2. TypeOK'
    BY <1>11 DEF Inv, TypeOK, vars
  <2> QED
    BY <2>1, <2>2, TableUntouched, BotUntouched DEF Inv
<1> QED
  BY <1>1, <1>2, <1>3, <1>4, <1>5, <1>6, <1>7, <1>8, <1>9, <1>10, <1>11 DEF Next

LEMMA InvHolds == Spec => []Inv
  BY InvInit, InvStep, PTL DEF Spec

(***************************************************************************)
(* The state keeps its type: in particular what the bot and the requests   *)
(* hold are ids of the table and commands the chat has sent.               *)
(***************************************************************************)
THEOREM TypeCorrect == Spec => []TypeOK
  BY InvHolds, PTL DEF Inv

(***************************************************************************)
(* No mail without consent, however confirmations, unsubscriptions and     *)
(* new requests for the same address overlap (handleConfirmSubscribe).     *)
(***************************************************************************)
THEOREM ConsentIsGiven == Spec => []ConsentGiven
<1>1. Inv => ConsentGiven
  BY DEF Inv, TableOK
<1> QED
  BY <1>1, InvHolds, PTL

(***************************************************************************)
(* An accepted subscription can be completed: the letter with the token    *)
(* the row holds has been sent (handleSubscribe).                          *)
(***************************************************************************)
THEOREM PendingIsCompletable == Spec => []PendingCanConfirm
<1>1. Inv => PendingCanConfirm
  <2> SUFFICES ASSUME Inv, NEW i \in Present, faults = 0, rows[i].key.channel = "email",
                      ~rows[i].confirmed, Quiet(i)
               PROVE  [token |-> rows[i].token, key |-> rows[i].key] \in inbox
    BY DEF PendingCanConfirm
  <2>1. Lettered(i)
    BY DEF Inv, TableOK, Letters
  <2> QED
    BY <2>1 DEF Lettered, Quiet
<1> QED
  BY <1>1, InvHolds, PTL

-----------------------------------------------------------------------------
(* What the commands ask for.                                              *)

\* Commands about other pages change nothing.
LEMMA WantsSkips ==
    ASSUME NEW p, NEW n \in Nat, NEW e \in Nat, n <= e,
           \A m \in n + 1..e : ~Concerns(m, p)
    PROVE  WantsAt(e, p) <=> WantsAt(n, p)
<1>1. ASSUME WantsAt(e, p) PROVE WantsAt(n, p)
  <2>1. PICK j \in 1..e : /\ sent[j] = [cmd |-> "/start", arg |-> p]
                          /\ \A m \in j + 1..e : sent[m].cmd = "/stop" => ~Concerns(m, p)
    BY <1>1 DEF WantsAt
  <2>2. Concerns(j, p)
    BY <2>1 DEF Concerns
  <2>3. j \in 1..n
    BY <2>2
  <2> QED
    BY <2>1, <2>3 DEF WantsAt
<1>2. ASSUME WantsAt(n, p) PROVE WantsAt(e, p)
  <2>1. PICK j \in 1..n : /\ sent[j] = [cmd |-> "/start", arg |-> p]
                          /\ \A m \in j + 1..n : sent[m].cmd = "/stop" => ~Concerns(m, p)
    BY <1>2 DEF WantsAt
  <2>2. \A m \in j + 1..e : sent[m].cmd = "/stop" => ~Concerns(m, p)
    <3> SUFFICES ASSUME NEW m \in j + 1..e, sent[m].cmd = "/stop" PROVE ~Concerns(m, p)
      OBVIOUS
    <3>1. CASE m <= n
      BY <2>1, <3>1
    <3>2. CASE m > n
      BY <3>2
    <3> QED
      BY <3>1, <3>2
  <2>3. j \in 1..e
    OBVIOUS
  <2> QED
    BY <2>1, <2>2, <2>3 DEF WantsAt
<1> QED
  BY <1>1, <1>2

LEMMA WantsStart ==
    ASSUME NEW p, NEW n \in Nat, n >= 1, sent[n] = [cmd |-> "/start", arg |-> p]
    PROVE  WantsAt(n, p)
<1>1. n \in 1..n /\ \A m \in n + 1..n : FALSE
  OBVIOUS
<1> QED
  BY <1>1 DEF WantsAt

LEMMA WantsStop ==
    ASSUME NEW p, NEW n \in Nat, n >= 1, sent[n].cmd = "/stop", Concerns(n, p)
    PROVE  ~WantsAt(n, p)
<1> SUFFICES ASSUME WantsAt(n, p) PROVE FALSE
  OBVIOUS
<1>1. PICK j \in 1..n : /\ sent[j] = [cmd |-> "/start", arg |-> p]
                        /\ \A m \in j + 1..n : sent[m].cmd = "/stop" => ~Concerns(m, p)
  BY DEF WantsAt
<1>2. j # n
  BY <1>1
<1>3. n \in j + 1..n
  BY <1>2
<1> QED
  BY <1>1, <1>3

\* Where the bot is.
LEMMA DoneFacts ==
    ASSUME Inv
    PROVE  /\ Done \in Nat /\ Done <= Len(sent) /\ acked <= Done
           /\ bot.offset >= 1 => Done = bot.offset - 1
           /\ bot.pc \in {"create", "delete"} => Done >= 1 /\ acked + 1 <= Done
           /\ bot.pc = "create" => sent[Done] = [cmd |-> "/start", arg |-> bot.page]
           /\ bot.pc = "delete" => sent[Done].cmd = "/stop"
<1>1. /\ Len(sent) \in Nat /\ bot \in BotRec(Len(sent)) /\ acked \in 0..Len(sent) /\ BotShape
  BY BotFacts DEF Inv
<1>2. bot.offset \in Nat /\ bot.offset <= Len(sent) + 1
  BY <1>1 DEF BotRec
<1> QED
  BY <1>1, <1>2 DEF Done, Start, BotShape

-----------------------------------------------------------------------------
(* Steps of the API leave the chat's subscriptions alone, or are meddling. *)

\* The steps that are not the chat's and not the bot's.
ApiStep ==
    \/ \E r \in Requests :
         \/ \E k \in EmailKeys, s \in Scopes : handleSubscribe(r, k, s)
         \/ \E letter \in inbox : handleConfirmSubscribe(r, letter)
         \/ \E k \in Keys, s \in Scopes : handleCreateSubscriber(r, k, s)
         \/ \E p \in Pages, h \in Hooks : handleSlackCallback(r, p, h)
         \/ Serve(r) \/ RequestFails(r)
    \/ \E p \in Pages : handleSlackStart(p) \/ DeletePage(p)
    \/ \E i \in Ids : handleUnsubscribe(i)
    \/ UNCHANGED vars

\* The rows of the chat's keys are the same, and the ids in hand are of the same rows.
ChatRowsKept ==
    /\ \A p \in Pages : ChatKey(p) \notin meddled' => Subs(p)' = Subs(p)
    /\ \A i \in bot.ids : i \in Present' => i \in Present /\ rows'[i].key = rows[i].key

\* A row that is inserted has a key of another channel, or meddles.
LEMMA ChatRowsInsert ==
    ASSUME Inv, NEW row \in Rows, CreateSubscriber(row),
           row.key.channel = "telegram" => row.key \in meddled'
    PROVE  ChatRowsKept
<1>1. PICK n \in Ids :
         /\ rows[n] = None /\ n \notin bot.ids
         /\ rows' \in [Ids -> Rows \cup {None}]
         /\ rows'[n] = row
         /\ \A i \in Ids : i # n => rows'[i] = rows[i]
  BY Created DEF Inv
<1>2. ASSUME NEW p \in Pages, ChatKey(p) \notin meddled' PROVE Subs(p)' = Subs(p)
  <2>1. row.key # ChatKey(p)
    BY <1>2, ChatKeyKinds
  <2> QED
    BY <1>1, <2>1 DEF Subs, SubscriberByPageChannelAddress, Present, ChatKey, Key
<1>3. \A i \in bot.ids : i \in Present' => i \in Present /\ rows'[i].key = rows[i].key
  BY <1>1 DEF Present
<1> QED
  BY <1>2, <1>3 DEF ChatRowsKept

\* Rows keep their keys.
LEMMA ChatRowsUpdate ==
    ASSUME Present' = Present, \A i \in Present : rows'[i].key = rows[i].key
    PROVE  ChatRowsKept
<1>1. \A p \in Pages : Subs(p)' = Subs(p)
  BY DEF Subs, SubscriberByPageChannelAddress, ChatKey, Key
<1> QED
  BY <1>1 DEF ChatRowsKept

LEMMA ApiKeepsChat ==
    ASSUME Inv, ApiStep
    PROVE  /\ UNCHANGED <<sent, acked, bot>> /\ live' \subseteq live
           /\ meddled \subseteq meddled'
           /\ faults' = 0 => faults = 0
           /\ ChatRowsKept
<1>0. TypeOK /\ \A r \in Requests : req[r] \in ReqRec /\ Shape(r)
  BY DEF Inv, TableOK, TypeOK, ReqRec
<1>1. ASSUME rows' = rows PROVE ChatRowsKept
  BY <1>1, ChatRowsUpdate DEF Present
<1>2. ASSUME NEW r \in Requests, SubscribeCreate(r) PROVE ChatRowsKept
  <2>1. PICK k \in Keys, t \in Tokens, s \in Scopes :
           k = req[r].key /\ k \in EmailKeys /\ t = req[r].token /\ s = req[r].scope
    <3>1. req[r].pc = "create"
      BY <1>2 DEF SubscribeCreate
    <3> QED
      BY <1>0, <3>1 DEF Shape, ReqRec, Keys
  <2>2. rows' = rows \/ CreateSubscriber(Row(k, FALSE, t, s))
    BY <1>2, <2>1 DEF SubscribeCreate
  <2>3. Row(k, FALSE, t, s) \in Rows /\ Row(k, FALSE, t, s).key = k /\ k.channel # "telegram"
    BY <2>1, KeyKinds DEF Row, Rows
  <2> QED
    BY <1>1, <2>2, <2>3, ChatRowsInsert
<1>3. ASSUME NEW r \in Requests, ReissueConfirmToken(r) PROVE ChatRowsKept
  <2>1. PICK i \in Ids, t \in Tokens, s \in Scopes :
           i = req[r].id /\ t = req[r].token /\ s = req[r].scope
    <3>1. req[r].pc = "reissue"
      BY <1>3 DEF ReissueConfirmToken
    <3> QED
      BY <1>0, <3>1 DEF Shape, ReqRec
  <2>2. rows' = rows \/ (rows[i] # None /\ SetSubscriberConfirmToken(i, t, s))
    BY <1>3, <2>1 DEF ReissueConfirmToken
  <2>3. CASE rows[i] # None /\ SetSubscriberConfirmToken(i, t, s)
    <3>1. /\ rows'[i] \in Rows /\ rows'[i].key = rows[i].key
          /\ \A j \in Ids : j # i => rows'[j] = rows[j]
      BY <1>0, <2>3, Tokened
    <3> QED
      BY <3>1, <2>3, ChatRowsUpdate, SubscriberConstants DEF Present
  <2> QED
    BY <1>1, <2>2, <2>3
<1>4. ASSUME NEW r \in Requests, ConfirmFound(r) PROVE ChatRowsKept
  <2>1. PICK i \in Ids : i = req[r].id
    <3>1. req[r].pc = "confirm"
      BY <1>4 DEF ConfirmFound
    <3> QED
      BY <1>0, <3>1 DEF Shape, ReqRec
  <2>2. ConfirmSubscriber(i)
    BY <1>4, <2>1 DEF ConfirmFound
  <2>3. /\ rows[i] = None => rows'[i] = None
        /\ rows[i] # None => rows'[i] \in Rows /\ rows'[i].key = rows[i].key
        /\ \A j \in Ids : j # i => rows'[j] = rows[j]
    BY <1>0, <2>2, Confirmed
  <2> QED
    BY <2>3, ChatRowsUpdate, SubscriberConstants DEF Present
<1>5. ASSUME NEW r \in Requests, VouchedCreate(r) PROVE ChatRowsKept
  <2>1. PICK k \in Keys, s \in Scopes : k = req[r].key /\ s = req[r].scope
    <3>1. req[r].pc = "vouch"
      BY <1>5 DEF VouchedCreate
    <3> QED
      BY <1>0, <3>1 DEF Shape, ReqRec
  <2>2. \/ rows' = rows
        \/ CreateSubscriber(Row(k, TRUE, None, s)) /\ meddled' = meddled \cup ({k} \cap ChatKeys)
    BY <1>5, <2>1 DEF VouchedCreate
  <2>3. Row(k, TRUE, None, s) \in Rows /\ Row(k, TRUE, None, s).key = k
        /\ (k.channel = "telegram" => k \in ChatKeys)
    BY <2>1, KeyKinds DEF Row, Rows
  <2> QED
    BY <1>1, <2>2, <2>3, ChatRowsInsert
<1>6. ASSUME NEW i \in Ids, handleUnsubscribe(i) PROVE ChatRowsKept
  <2>1. /\ i \in Present /\ rows'[i] = None /\ \A j \in Ids : j # i => rows'[j] = rows[j]
        /\ meddled' = meddled \cup ({rows[i].key} \cap ChatKeys)
    BY <1>0, <1>6, Deleted DEF handleUnsubscribe
  <2>2. ASSUME NEW p \in Pages, ChatKey(p) \notin meddled' PROVE Subs(p)' = Subs(p)
    <3>1. rows[i].key # ChatKey(p)
      BY <2>1, <2>2, ChatKeyKinds
    <3> QED
      BY <2>1, <3>1 DEF Subs, SubscriberByPageChannelAddress, Present, ChatKey, Key
  <2>3. \A j \in bot.ids : j \in Present' => j \in Present /\ rows'[j].key = rows[j].key
    BY <2>1 DEF Present
  <2> QED
    BY <2>2, <2>3 DEF ChatRowsKept
<1>7. ChatRowsKept
  BY <1>1, <1>2, <1>3, <1>4, <1>5, <1>6 DEF ApiStep, handleSubscribe, handleConfirmSubscribe,
     handleCreateSubscriber, handleSlackCallback, Serve, SendConfirmation, RequestFails,
     handleSlackStart, DeletePage, vars
<1>8. UNCHANGED <<sent, acked, bot>>
  BY DEF ApiStep, botVars, handleSubscribe, handleConfirmSubscribe,
     handleCreateSubscriber, handleSlackCallback, Serve, SendConfirmation, RequestFails,
     handleSlackStart, DeletePage, vars, SubscribeCreate, ReissueConfirmToken, ConfirmFound,
     VouchedCreate, handleUnsubscribe
<1>9. live' \subseteq live
  <2>1. ASSUME NEW p \in Pages, DeletePage(p) PROVE live' \subseteq live
    BY <2>1 DEF DeletePage
  <2>2. ASSUME NEW i \in Ids, handleUnsubscribe(i) PROVE live' \subseteq live
    BY <2>2 DEF handleUnsubscribe
  <2>3. ASSUME NEW r \in Requests, Serve(r) \/ RequestFails(r) PROVE live' \subseteq live
    BY <2>3 DEF Serve, SendConfirmation, RequestFails, SubscribeCreate, ReissueConfirmToken,
       ConfirmFound, VouchedCreate
  <2> QED
    BY <2>1, <2>2, <2>3 DEF ApiStep, handleSubscribe, handleConfirmSubscribe,
       handleCreateSubscriber, handleSlackCallback, handleSlackStart, vars
<1>11. meddled \subseteq meddled'
  <2>1. ASSUME NEW p \in Pages, DeletePage(p) PROVE meddled \subseteq meddled'
    BY <2>1 DEF DeletePage
  <2>2. ASSUME NEW i \in Ids, handleUnsubscribe(i) PROVE meddled \subseteq meddled'
    BY <2>2 DEF handleUnsubscribe
  <2>3. ASSUME NEW r \in Requests, Serve(r) \/ RequestFails(r) PROVE meddled \subseteq meddled'
    BY <2>3 DEF Serve, SendConfirmation, RequestFails, SubscribeCreate, ReissueConfirmToken,
       ConfirmFound, VouchedCreate
  <2> QED
    BY <2>1, <2>2, <2>3 DEF ApiStep, handleSubscribe, handleConfirmSubscribe,
       handleCreateSubscriber, handleSlackCallback, handleSlackStart, vars
<1>10. faults' = 0 => faults = 0
  <2>1. ASSUME NEW r \in Requests, RequestFails(r) PROVE faults' # 0
    BY <1>0, <2>1 DEF RequestFails, TypeOK
  <2>2. ASSUME NEW r \in Requests, Serve(r) PROVE faults' = faults
    BY <2>2 DEF Serve, SendConfirmation, SubscribeCreate, ReissueConfirmToken,
       ConfirmFound, VouchedCreate
  <2>3. ASSUME NEW i \in Ids, handleUnsubscribe(i) PROVE faults' = faults
    BY <2>3 DEF handleUnsubscribe
  <2> QED
    BY <2>1, <2>2, <2>3 DEF ApiStep, handleSubscribe, handleConfirmSubscribe,
       handleCreateSubscriber, handleSlackCallback, handleSlackStart, DeletePage, vars
<1> QED
  BY <1>7, <1>8, <1>9, <1>10, <1>11

-----------------------------------------------------------------------------
(* Every step keeps the invariant of the bot.                              *)

LEMMA BotInvApi ==
    ASSUME Inv, BotInv, ApiStep
    PROVE  BotInv'
<1>0. /\ UNCHANGED <<sent, acked, bot>> /\ live' \subseteq live /\ meddled \subseteq meddled'
      /\ (faults' = 0 => faults = 0) /\ ChatRowsKept /\ live \subseteq Pages
  BY ApiKeepsChat DEF Inv, TypeOK
<1> SUFFICES ASSUME NEW d \in Nat, d = Done'
             PROVE  /\ bot'.pc = "delete" => Targets(d)'
                    /\ faults' = 0 => \A p \in live' :
                         ChatKey(p)' \notin meddled' => Settled(d, p)' \/ Pending(d, p)'
  BY DEF BotInv
<1>1. d = Done
  BY <1>0 DEF Done, Start
<1>2. /\ bot.pc = "delete" => Targets(d)
      /\ faults = 0 => \A p \in live : ChatKey(p) \notin meddled => Settled(d, p) \/ Pending(d, p)
  BY <1>1 DEF BotInv
<1>3. bot'.pc = "delete" => Targets(d)'
  BY <1>0, <1>2 DEF Targets, ChatRowsKept, Concerns, ChatKey, Key
<1>4. ASSUME faults' = 0, NEW p \in live', ChatKey(p) \notin meddled'
      PROVE  Settled(d, p)' \/ Pending(d, p)'
  <2>1. (Settled(d, p) \/ Pending(d, p)) /\ Subs(p)' = Subs(p)
    BY <1>0, <1>2, <1>4 DEF ChatRowsKept
  <2>2. /\ Pending(d, p)' <=> Pending(d, p)
        /\ WantsAt(d, p)' <=> WantsAt(d, p)
        /\ Concerns(d, p)' <=> Concerns(d, p)
    BY <1>0 DEF Pending, WantsAt, Concerns
  <2> QED
    BY <1>0, <2>1, <2>2 DEF Settled
<1> QED
  BY <1>3, <1>4 DEF ChatKey, Key

LEMMA RangeGrows ==
    ASSUME NEW d \in Nat, NEW n \in Nat, NEW m \in d + 1..n
    PROVE  m \in 1..n /\ m \in d + 1..n + 1
  OBVIOUS

LEMMA BotInvChat ==
    ASSUME Inv, BotInv, NEW c \in Commands, ChatSends(c)
    PROVE  BotInv'
<1>0. /\ acked' = acked /\ bot' = bot /\ rows' = rows /\ live' = live /\ meddled' = meddled
      /\ faults' = faults
      /\ Len(sent') = Len(sent) + 1 /\ \A n \in 1..Len(sent) : sent'[n] = sent[n]
      /\ Len(sent) \in Nat
  BY ChatStep, BotFacts DEF ChatSends, apiVars
<1> SUFFICES ASSUME NEW d \in Nat, d = Done'
             PROVE  /\ bot'.pc = "delete" => Targets(d)'
                    /\ faults' = 0 => \A p \in live' :
                         ChatKey(p)' \notin meddled' => Settled(d, p)' \/ Pending(d, p)'
  BY DEF BotInv
<1>1. d = Done
  BY <1>0 DEF Done, Start
<1>2. /\ bot.pc = "delete" => Targets(d)
      /\ faults = 0 => \A p \in live : ChatKey(p) \notin meddled => Settled(d, p) \/ Pending(d, p)
  BY <1>1 DEF BotInv
<1>3. d <= Len(sent) /\ (bot.pc = "delete" => d \in 1..Len(sent))
  BY <1>0, <1>1, DoneFacts
<1>4. \A p : \A n \in 1..Len(sent) : Concerns(n, p)' <=> Concerns(n, p)
  BY <1>0 DEF Concerns
<1>5. bot'.pc = "delete" => Targets(d)'
  BY <1>0, <1>2, <1>3, <1>4 DEF Targets, ChatKey, Key, Present
<1>6. ASSUME faults' = 0, NEW p \in live', ChatKey(p) \notin meddled'
      PROVE  Settled(d, p)' \/ Pending(d, p)'
  <2>1. (Settled(d, p) \/ Pending(d, p)) /\ Subs(p)' = Subs(p)
    BY <1>0, <1>2, <1>6 DEF Subs, SubscriberByPageChannelAddress, Present, ChatKey, Key
  <2>2. Pending(d, p) => Pending(d, p)'
    <3> SUFFICES ASSUME NEW m \in d + 1..Len(sent), Concerns(m, p) PROVE Pending(d, p)'
      BY DEF Pending
    <3>a. PICK n \in Nat : n = Len(sent)
      BY <1>0
    <3>b. m \in d + 1..n /\ Len(sent') = n + 1
      BY <1>0, <3>a
    <3>c. m \in 1..n /\ m \in d + 1..n + 1
      BY <3>b, RangeGrows
    <3>1. m \in 1..Len(sent) /\ m \in d + 1..Len(sent')
      BY <3>a, <3>b, <3>c
    <3>2. Concerns(m, p)'
      BY <3>1, <1>0 DEF Concerns
    <3> QED
      BY <3>1, <3>2 DEF Pending
  <2>3. WantsAt(d, p)' <=> WantsAt(d, p)
    <3>1. \A j \in 1..d : sent'[j] = sent[j]
      BY <1>0, <1>3
    <3>2. \A j \in 1..d : \A m \in j + 1..d : m \in 1..d
      OBVIOUS
    <3> QED
      BY <3>1, <3>2 DEF WantsAt, Concerns
  <2> QED
    BY <1>0, <1>3, <1>4, <2>1, <2>2, <2>3 DEF Settled
<1> QED
  BY <1>5, <1>6 DEF ChatKey, Key

\* The bot asks Telegram for more.
LEMMA BotInvGet ==
    ASSUME Inv, BotInv, GetUpdates
    PROVE  BotInv'
<1>0. /\ sent' = sent /\ rows' = rows /\ live' = live /\ meddled' = meddled /\ faults' = faults
      /\ bot.pc = "poll" /\ bot'.pc = "batch" /\ bot'.offset = Start /\ bot'.offset >= 1
      /\ bot'.offset # 0
  BY GetStep, BotFacts DEF GetUpdates, apiVars, BotRec
<1>1. Done' = Done
  BY <1>0 DEF Done, Start
<1>2. ASSUME NEW d \in Nat, NEW p
      PROVE  /\ Subs(p)' = Subs(p)
             /\ Pending(d, p)' <=> Pending(d, p)
             /\ WantsAt(d, p)' <=> WantsAt(d, p)
  BY <1>0 DEF Pending, WantsAt, Concerns, Subs, SubscriberByPageChannelAddress, Present, ChatKey, Key
<1>3. ASSUME NEW d \in Nat, NEW p, Settled(d, p)
      PROVE  Settled(d, p)'
  BY <1>0, <1>2, <1>3 DEF Settled
<1>4. \A p : ChatKey(p)' = ChatKey(p)
  BY DEF ChatKey, Key
<1> QED
  BY <1>0, <1>1, <1>2, <1>3, <1>4 DEF BotInv

\* A command about another page is taken up.
LEMMA OtherPage ==
    ASSUME NEW d \in Nat, NEW p, d + 1 <= Len(sent), Len(sent) \in Nat,
           sent' = sent, rows' = rows, bot.pc = "batch",
           ~Concerns(d + 1, p), Settled(d, p) \/ Pending(d, p),
           ~(bot'.pc = "create" /\ bot'.page = p)
    PROVE  Settled(d + 1, p)' \/ Pending(d + 1, p)'
<1>0. Subs(p)' = Subs(p)
  BY DEF Subs, SubscriberByPageChannelAddress, Present, ChatKey, Key
<1>1. WantsAt(d + 1, p) <=> WantsAt(d, p)
  <2>1. d + 1 \in Nat /\ d <= d + 1 /\ \A m \in d + 1..d + 1 : m = d + 1
    OBVIOUS
  <2> QED
    BY <2>1, WantsSkips
<1>2. ASSUME NEW n \in Nat
      PROVE  /\ WantsAt(n, p)' <=> WantsAt(n, p)
             /\ Concerns(n, p)' <=> Concerns(n, p)
             /\ Pending(n, p)' <=> Pending(n, p)
  BY DEF WantsAt, Concerns, Pending
<1>a. d + 1 \in Nat
  OBVIOUS
<1>3. CASE Pending(d, p)
  <2>1. PICK m \in d + 1..Len(sent) : Concerns(m, p)
    BY <1>3 DEF Pending
  <2>2. m # d + 1
    BY <2>1
  <2>3. m \in (d + 1) + 1..Len(sent)
    BY <2>2
  <2> QED
    BY <1>a, <1>2, <2>1, <2>3 DEF Pending
<1>4. CASE Settled(d, p)
  <2>1. Subs(p) # {} <=> WantsAt(d, p)
    BY <1>4 DEF Settled
  <2>2. ~Concerns(d + 1, p)'
    BY <1>a, <1>2
  <2>3. Subs(p)' # {} <=> WantsAt(d + 1, p)'
    BY <2>1, <1>0, <1>1, <1>2, <1>a
  <2> QED
    BY <2>2, <2>3 DEF Settled
<1> QED
  BY <1>3, <1>4

LEMMA BotInvStart ==
    ASSUME Inv, BotInv, handleStart
    PROVE  BotInv'
<1>0. /\ sent' = sent /\ acked' = acked /\ rows' = rows /\ live' = live /\ meddled' = meddled
      /\ faults' = faults /\ live \subseteq Pages /\ Len(sent) \in Nat
  BY BotFacts DEF handleStart, apiVars, Inv, TypeOK
<1>1. /\ bot.pc = "batch" /\ bot'.offset = bot.offset + 1 /\ bot.offset \in 1..Len(sent)
      /\ sent[bot.offset].arg \in Pages
      /\ sent[bot.offset] = [cmd |-> "/start", arg |-> sent[bot.offset].arg]
      /\ \/ /\ bot'.pc \in {"poll", "batch"}
            /\ \/ sent[bot.offset].arg \notin live
               \/ AddressTaken(ChatKey(sent[bot.offset].arg))
         \/ /\ bot'.pc = "create" /\ bot'.page = sent[bot.offset].arg
  BY StartStep
<1>2. PICK d \in Nat : d = Done /\ d + 1 = bot.offset /\ d + 1 = Done'
  <2>1. bot.offset \in Nat /\ bot.offset >= 1 /\ bot'.offset # 0
    BY <1>0, <1>1
  <2> QED
    BY <1>1, <2>1 DEF Done, Start
<1>3. PICK q \in Pages : /\ q = sent[d + 1].arg /\ sent[d + 1] = [cmd |-> "/start", arg |-> q]
                         /\ \/ bot'.pc \in {"poll", "batch"} /\ (q \in live => Subs(q) # {})
                            \/ bot'.pc = "create" /\ bot'.page = q
  BY <1>1, <1>2 DEF AddressTaken, Subs
<1>4. d + 1 \in Nat /\ d + 1 <= Len(sent) /\ d + 1 >= 1
  BY <1>0, <1>1, <1>2
<1>5. ASSUME faults = 0, NEW p \in live, ChatKey(p) \notin meddled
      PROVE  Settled(d + 1, p)' \/ Pending(d + 1, p)'
  <2>1. Settled(d, p) \/ Pending(d, p)
    BY <1>2, <1>5 DEF BotInv
  <2>2. CASE q # p
    <3>1. ~Concerns(d + 1, p)
      BY <1>3, <2>2, SubscriberConstants DEF Concerns
    <3>2. ~(bot'.pc = "create" /\ bot'.page = p)
      BY <1>3, <2>2
    <3> QED
      BY <1>0, <1>1, <1>4, <2>1, <3>1, <3>2, OtherPage
  <2>3. CASE q = p
    <3>1. WantsAt(d + 1, p)
      BY <1>3, <1>4, <2>3, WantsStart
    <3>2. WantsAt(d + 1, p)' /\ Subs(p)' = Subs(p)
      BY <1>0, <3>1 DEF WantsAt, Concerns, Subs, SubscriberByPageChannelAddress, Present, ChatKey, Key
    <3> QED
      BY <1>3, <1>5, <2>3, <3>2 DEF Settled
  <2> QED
    BY <2>2, <2>3
<1>6. bot'.pc # "delete"
  BY <1>1
<1> QED
  BY <1>0, <1>2, <1>5, <1>6 DEF BotInv, ChatKey, Key

LEMMA BotInvStop ==
    ASSUME Inv, BotInv, handleStop
    PROVE  BotInv'
<1>0. /\ sent' = sent /\ acked' = acked /\ rows' = rows /\ live' = live /\ meddled' = meddled
      /\ faults' = faults /\ live \subseteq Pages /\ Len(sent) \in Nat /\ TypeOK
  BY BotFacts DEF handleStop, apiVars, Inv, TypeOK
<1>1. /\ bot.pc = "batch" /\ bot'.offset = bot.offset + 1 /\ bot.offset \in 1..Len(sent)
      /\ sent[bot.offset].cmd = "/stop" /\ bot'.ids = Found(bot.offset)
      /\ sent[bot.offset].arg \in Pages \cup {None}
      /\ IF Found(bot.offset) = {} THEN bot'.pc \in {"poll", "batch"} ELSE bot'.pc = "delete"
  BY StopStep, BotFacts
<1>2. PICK d \in Nat : d = Done /\ d + 1 = bot.offset /\ d + 1 = Done'
  <2>1. bot.offset \in Nat /\ bot.offset >= 1 /\ bot'.offset # 0
    BY <1>0, <1>1
  <2> QED
    BY <1>1, <2>1 DEF Done, Start
<1>4. d + 1 \in Nat /\ d + 1 <= Len(sent) /\ d + 1 >= 1
  BY <1>0, <1>1, <1>2
<1>3. /\ sent[d + 1].cmd = "/stop" /\ bot'.ids = Found(d + 1) /\ sent[d + 1].arg \in Pages \cup {None}
      /\ bot'.pc # "create" /\ (bot'.pc # "delete" => Found(d + 1) = {})
  BY <1>1, <1>2
<1>5. ASSUME faults = 0, NEW p \in live, ChatKey(p) \notin meddled
      PROVE  Settled(d + 1, p)' \/ Pending(d + 1, p)'
  <2>1. Settled(d, p) \/ Pending(d, p)
    BY <1>2, <1>5 DEF BotInv
  <2>2. CASE ~Concerns(d + 1, p)
    BY <1>0, <1>1, <1>3, <1>4, <2>1, <2>2, OtherPage
  <2>3. CASE Concerns(d + 1, p)
    <3>1. ~WantsAt(d + 1, p)
      BY <1>3, <1>4, <2>3, WantsStop
    <3>2. ~WantsAt(d + 1, p)' /\ Subs(p)' = Subs(p) /\ Concerns(d + 1, p)'
      BY <1>0, <2>3, <3>1 DEF WantsAt, Concerns, Subs, SubscriberByPageChannelAddress, Present, ChatKey, Key
    <3>3. Subs(p) \subseteq Found(d + 1)
      <4>1. CASE sent[d + 1].arg = None
        BY <4>1 DEF Found, Subs, SubscribersByChannelAddress, SubscriberByPageChannelAddress,
           ChatKey, Key
      <4>2. CASE sent[d + 1].arg # None
        BY <1>5, <2>3, <4>2 DEF Found, Concerns, Subs
      <4> QED
        BY <4>1, <4>2
    <3> QED
      BY <1>3, <3>2, <3>3 DEF Settled
  <2> QED
    BY <2>2, <2>3
<1>6. Targets(d + 1)'
  <2> SUFFICES ASSUME NEW i \in Found(d + 1)
               PROVE  \E p \in Pages : rows[i].key = ChatKey(p) /\ Concerns(d + 1, p)
    BY <1>0, <1>3 DEF Targets, Concerns, ChatKey, Key
  <2>1. CASE sent[d + 1].arg = None
    <3>1. i \in Present /\ rows[i].key.channel = "telegram"
      BY <2>1 DEF Found, SubscribersByChannelAddress
    <3>2. rows[i].key \in Keys
      BY <1>0, <3>1 DEF TypeOK, Present, Rows
    <3>3. PICK p \in Pages : rows[i].key = ChatKey(p)
      BY <3>1, <3>2, KeyKinds DEF ChatKey
    <3> QED
      BY <2>1, <3>3 DEF Concerns
  <2>2. CASE sent[d + 1].arg # None
    <3>1. sent[d + 1].arg \in Pages /\ rows[i].key = ChatKey(sent[d + 1].arg)
      BY <1>3, <2>2 DEF Found, SubscriberByPageChannelAddress
    <3> QED
      BY <3>1 DEF Concerns
  <2> QED
    BY <2>1, <2>2
<1> QED
  BY <1>0, <1>2, <1>5, <1>6 DEF BotInv, ChatKey, Key

LEMMA BotInvCreate ==
    ASSUME Inv, BotInv, BotCreate
    PROVE  BotInv'
<1>0. /\ sent' = sent /\ acked' = acked /\ live' = live /\ meddled' = meddled
      /\ faults' = faults /\ live \subseteq Pages /\ TypeOK
      /\ bot.pc = "create" /\ bot' = Loop(bot) /\ bot.page \in Pages
  BY BotFacts DEF BotCreate, apiVars, Inv, TypeOK
<1>1. bot'.offset = bot.offset /\ bot'.pc \in {"poll", "batch"}
  BY <1>0, LoopStep
<1>2. PICK d \in Nat : d = Done /\ d = Done'
  BY <1>0, <1>1, DoneFacts DEF Done, Start
<1>3. PICK q \in Pages : q = bot.page
  BY <1>0
<1>4. Subs(q)' # {} /\ \A p \in Pages : p # q => Subs(p)' = Subs(p)
  <2>1. CASE AddressTaken(ChatKey(q))
    <3>1. rows' = rows
      BY <1>3, <2>1 DEF BotCreate, ChatKey
    <3>2. \A p \in Pages : Subs(p)' = Subs(p)
      BY <3>1 DEF Subs, SubscriberByPageChannelAddress, Present, ChatKey, Key
    <3> QED
      BY <2>1, <3>2 DEF AddressTaken, Subs
  <2>2. CASE ~AddressTaken(ChatKey(q))
    <3> DEFINE k == ChatKey(q)
               row == Row(k, TRUE, None, "page")
    <3>1. CreateSubscriber(row)
      BY <1>3, <2>2 DEF BotCreate, ChatKey
    <3>2. k \in Keys /\ \A p \in Pages : p # q => k # ChatKey(p)
      BY ChatKeyKinds
    <3>3. row \in Rows /\ row.key = k /\ row # None
      <4> HIDE DEF k
      <4>1. "page" \in Scopes
        BY SubscriberConstants
      <4>2. row \in Rows /\ row.key = k
        BY <3>2, <4>1 DEF Row, Rows
      <4> HIDE DEF row
      <4> QED
        BY <4>2, SubscriberConstants
    <3>4. \A p \in Pages : ChatKey(p)' = ChatKey(p)
      BY DEF ChatKey, Key
    <3> HIDE DEF row, k
    <3>5. PICK n \in Ids :
             /\ rows[n] = None
             /\ rows'[n] = row
             /\ \A i \in Ids : i # n => rows'[i] = rows[i]
      BY <1>0, <3>1, <3>3, Created
    <3>6. n \in Subs(q)'
      BY <3>3, <3>5 DEF Subs, SubscriberByPageChannelAddress, Present, k, ChatKey, Key
    <3>7. ASSUME NEW p \in Pages, p # q PROVE Subs(p)' = Subs(p)
      BY <3>2, <3>3, <3>4, <3>5, <3>7 DEF Subs, SubscriberByPageChannelAddress, Present
    <3> QED
      BY <3>6, <3>7
  <2> QED
    BY <2>1, <2>2
<1>5. ASSUME faults = 0, NEW p \in live, ChatKey(p) \notin meddled
      PROVE  Settled(d, p)' \/ Pending(d, p)'
  <2>1. Settled(d, p) \/ Pending(d, p)
    BY <1>2, <1>5 DEF BotInv
  <2>2. /\ WantsAt(d, p)' <=> WantsAt(d, p)
        /\ Pending(d, p)' <=> Pending(d, p)
    BY <1>0 DEF WantsAt, Concerns, Pending
  <2>3. CASE p = q
    BY <1>0, <1>1, <1>3, <1>4, <2>1, <2>2, <2>3 DEF Settled
  <2>4. CASE p # q
    BY <1>0, <1>1, <1>3, <1>4, <2>1, <2>2, <2>4 DEF Settled
  <2> QED
    BY <2>3, <2>4
<1> QED
  BY <1>0, <1>1, <1>2, <1>5 DEF BotInv, ChatKey, Key

LEMMA BotInvDelete ==
    ASSUME Inv, BotInv, BotDelete
    PROVE  BotInv'
<1>0. /\ sent' = sent /\ acked' = acked /\ live' = live /\ meddled' = meddled
      /\ faults' = faults /\ live \subseteq Pages /\ TypeOK /\ bot.pc = "delete"
  BY DEF BotDelete, apiVars, Inv, TypeOK
<1>1. PICK i \in bot.ids :
         /\ DeleteSubscriber(i)
         /\ bot' = IF bot.ids = {i} THEN Loop(bot) ELSE [bot EXCEPT !.ids = @ \ {i}]
  BY DEF BotDelete
<1>2. i \in Ids
  BY <1>0 DEF TypeOK
<1>3. /\ bot'.offset = bot.offset
      /\ \/ bot'.pc \in {"poll", "batch"} /\ bot.ids = {i}
         \/ bot'.pc = "delete" /\ bot'.ids = bot.ids \ {i}
  BY <1>0, <1>1, <1>2, LoopStep, ShrinkStep
<1>4. PICK d \in Nat : d = Done /\ d = Done'
  BY <1>0, <1>3, DoneFacts DEF Done, Start
<1>5. rows'[i] = None /\ \A j \in Ids : j # i => rows'[j] = rows[j]
  BY <1>0, <1>1, <1>2, Deleted
<1>6. Targets(d)
  BY <1>0, <1>4 DEF BotInv
<1>7. \A p : Subs(p)' = Subs(p) \ {i}
  BY <1>2, <1>5 DEF Subs, SubscriberByPageChannelAddress, Present, ChatKey, Key
<1>8. ASSUME faults = 0, NEW p \in live, ChatKey(p) \notin meddled
      PROVE  Settled(d, p)' \/ Pending(d, p)'
  <2>1. Settled(d, p) \/ Pending(d, p)
    BY <1>4, <1>8 DEF BotInv
  <2>2. /\ WantsAt(d, p)' <=> WantsAt(d, p)
        /\ Pending(d, p)' <=> Pending(d, p)
        /\ Concerns(d, p)' <=> Concerns(d, p)
    BY <1>0 DEF WantsAt, Concerns, Pending
  <2>3. CASE Concerns(d, p)
    <3>1. Settled(d, p) => ~WantsAt(d, p) /\ Subs(p) \subseteq bot.ids
      BY <1>0, <2>3 DEF Settled
    <3> QED
      BY <1>3, <1>7, <2>1, <2>2, <2>3, <3>1 DEF Settled
  <2>4. CASE ~Concerns(d, p)
    <3>1. i \notin Subs(p)
      <4> SUFFICES ASSUME i \in Subs(p) PROVE FALSE
        OBVIOUS
      <4>1. i \in Present /\ rows[i].key = ChatKey(p)
        BY DEF Subs, SubscriberByPageChannelAddress
      <4>2. PICK q \in Pages : rows[i].key = ChatKey(q) /\ Concerns(d, q)
        BY <1>1, <1>6, <4>1 DEF Targets
      <4>3. p = q
        <5>1. p \in Pages /\ ChatKey(p) = ChatKey(q)
          BY <4>1, <4>2, <1>0
        <5> QED
          BY <5>1, ChatKeyKinds
      <4> QED
        BY <4>2, <4>3, <2>4
    <3>2. Subs(p)' = Subs(p)
      BY <1>7, <3>1
    <3> QED
      BY <1>0, <1>3, <2>1, <2>2, <2>4, <3>2 DEF Settled
  <2> QED
    BY <2>3, <2>4
<1>9. bot'.pc = "delete" => Targets(d)'
  <2> SUFFICES ASSUME bot'.pc = "delete" PROVE Targets(d)'
    OBVIOUS
  <2>1. bot'.ids \subseteq bot.ids
    BY <1>3
  <2>2. \A j \in Ids : j \in Present' => j \in Present /\ rows'[j] = rows[j]
    BY <1>2, <1>5 DEF Present
  <2>3. bot.ids \subseteq Ids
    BY <1>0 DEF TypeOK
  <2> QED
    BY <1>0, <1>6, <2>1, <2>2, <2>3 DEF Targets, Concerns, ChatKey, Key
<1> QED
  BY <1>0, <1>4, <1>8, <1>9 DEF BotInv, ChatKey, Key

LEMMA BotInvFails ==
    ASSUME Inv, BotInv, BotFails
    PROVE  BotInv'
<1>0. /\ sent' = sent /\ acked' = acked /\ rows' = rows /\ faults' # 0 /\ TypeOK
      /\ (bot'.pc = "delete" => bot'.ids \subseteq bot.ids /\ bot'.offset = bot.offset /\ bot.pc = "delete")
  BY FailStep DEF BotFails, apiVars, Inv
<1>1. ASSUME bot'.pc = "delete", NEW d \in Nat, d = Done'
      PROVE  Targets(d)'
  <2>1. d = Done
    BY <1>0, <1>1 DEF Done, Start
  <2>2. Targets(d)
    BY <1>0, <1>1, <2>1 DEF BotInv
  <2> QED
    BY <1>0, <1>1, <2>2 DEF Targets, Present, Concerns, ChatKey, Key
<1> QED
  BY <1>0, <1>1 DEF BotInv

\* After a crash the commands that were not confirmed come again: those about the
\* page are pending, and if there is none the page is as the confirmed ones left it.
LEMMA BotInvCrash ==
    ASSUME Inv, BotInv, BotCrash
    PROVE  BotInv'
<1>0. /\ sent' = sent /\ acked' = acked /\ rows' = rows /\ live' = live /\ meddled' = meddled
      /\ faults' = faults /\ bot'.pc = "poll" /\ bot'.offset = 0
      /\ Len(sent) \in Nat /\ acked \in Nat
  BY CrashStep, BotFacts DEF BotCrash, apiVars
<1>1. Done' = acked
  BY <1>0 DEF Done, Start
<1>2. PICK a \in Nat, d \in Nat : a = acked /\ d = Done /\ a <= d /\ d <= Len(sent)
  BY <1>0, DoneFacts
<1>3. ASSUME faults = 0, NEW p \in live, ChatKey(p) \notin meddled
      PROVE  Settled(a, p)' \/ Pending(a, p)'
  <2>1. Settled(d, p) \/ Pending(d, p)
    BY <1>2, <1>3 DEF BotInv
  <2>2. /\ WantsAt(a, p)' <=> WantsAt(a, p)
        /\ Pending(a, p)' <=> Pending(a, p)
        /\ Subs(p)' = Subs(p)
    BY <1>0 DEF WantsAt, Concerns, Pending, Subs, SubscriberByPageChannelAddress, Present, ChatKey, Key
  <2>3. CASE Pending(a, p)
    BY <2>2, <2>3
  <2>4. CASE ~Pending(a, p)
    <3>1. \A m \in a + 1..Len(sent) : ~Concerns(m, p)
      BY <2>4 DEF Pending
    <3>2. \A m \in a + 1..d : m \in a + 1..Len(sent)
      BY <1>0, <1>2
    <3>3. \A m \in d + 1..Len(sent) : m \in a + 1..Len(sent)
      BY <1>0, <1>2
    <3>4. ~Pending(d, p)
      BY <3>1, <3>3 DEF Pending
    <3>5. WantsAt(d, p) <=> WantsAt(a, p)
      BY <1>2, <3>1, <3>2, WantsSkips
    <3>6. bot.pc \in {"create", "delete"} => ~Concerns(d, p)
      <4>1. bot.pc \in {"create", "delete"} => d \in a + 1..Len(sent)
        <5>1. bot.pc \in {"create", "delete"} => a + 1 <= d
          BY <1>2, DoneFacts
        <5>2. PICK n \in Nat : n = Len(sent)
          BY <1>0
        <5>3. d <= n
          BY <1>2, <5>2
        <5>4. a + 1 <= d => d \in a + 1..n
          BY <5>3
        <5> QED
          BY <5>1, <5>2, <5>4
      <4> QED
        BY <3>1, <4>1
    <3>7. ~(bot.pc = "create" /\ bot.page = p)
      <4>1. bot.pc = "create" => sent[d] = [cmd |-> "/start", arg |-> bot.page]
        BY <1>2, DoneFacts
      <4> QED
        BY <3>6, <4>1 DEF Concerns
    <3>8. Subs(p) # {} <=> WantsAt(d, p)
      BY <2>1, <3>4, <3>6, <3>7 DEF Settled
    <3> QED
      BY <1>0, <2>2, <3>5, <3>8 DEF Settled
  <2> QED
    BY <2>3, <2>4
<1> QED
  BY <1>0, <1>1, <1>2, <1>3 DEF BotInv, ChatKey, Key

LEMMA BotInvInit == Init => BotInv
<1> SUFFICES ASSUME Init PROVE BotInv
  OBVIOUS
<1>1. bot.pc = "poll" /\ bot.offset = 0 /\ acked = 0 /\ Done = 0
  BY DEF Init, Polling, Done, Start
<1>2. \A p : Subs(p) = {}
  BY DEF Init, Subs, SubscriberByPageChannelAddress, Present
<1>3. \A p : ~WantsAt(0, p)
  BY DEF WantsAt
<1> QED
  BY <1>1, <1>2, <1>3 DEF BotInv, Settled

LEMMA BotInvStep == Inv /\ BotInv /\ [Next]_vars => BotInv'
<1> SUFFICES ASSUME Inv, BotInv, [Next]_vars PROVE BotInv'
  OBVIOUS
<1>1. \/ ApiStep
      \/ \E c \in Commands : ChatSends(c)
      \/ Run \/ BotFails \/ BotCrash
  BY DEF Next, ApiStep
<1> QED
  BY <1>1, BotInvApi, BotInvChat, BotInvGet, BotInvStart, BotInvStop, BotInvCreate,
     BotInvDelete, BotInvFails, BotInvCrash DEF Run

(***************************************************************************)
(* The chat gets what it asked for last: with every command dealt with and *)
(* no query failed, it is subscribed to exactly the pages its commands     *)
(* leave it subscribed to, however often the bot died and ran commands     *)
(* again (Bot.Run).                                                        *)
(***************************************************************************)
THEOREM BotIsObedient == Spec => []BotObeys
<1>1. Inv /\ BotInv => BotObeys
  <2> SUFFICES ASSUME Inv, BotInv, CaughtUp, faults = 0, NEW p \in live, ChatKey(p) \notin meddled
               PROVE  AddressTaken(ChatKey(p)) <=> Wants(p)
    BY DEF BotObeys, ChatKey
  <2>1. PICK d \in Nat : d = Done /\ d = Len(sent)
    <3>1. Done \in Nat /\ Done <= Len(sent) /\ Start > Len(sent)
      BY DoneFacts DEF CaughtUp
    <3>2. bot \in BotRec(Len(sent)) /\ Len(sent) \in Nat /\ acked \in Nat
      BY BotFacts
    <3> QED
      BY <3>1, <3>2 DEF Done, Start, BotRec
  <2>2. ~Pending(d, p)
    BY <2>1 DEF Pending
  <2>3. Subs(p) # {} <=> WantsAt(d, p)
    BY <2>1, <2>2 DEF BotInv, Settled, CaughtUp
  <2>4. WantsAt(d, p) <=> Wants(p)
    BY <2>1 DEF WantsAt, Wants, Concerns
  <2> QED
    BY <2>3, <2>4 DEF AddressTaken, Subs
<1>2. Init => Inv /\ BotInv
  BY InvInit, BotInvInit
<1>3. Inv /\ BotInv /\ [Next]_vars => (Inv /\ BotInv)'
  BY InvStep, BotInvStep
<1> QED
  BY <1>1, <1>2, <1>3, PTL DEF Spec
=============================================================================
