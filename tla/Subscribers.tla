----------------------------- MODULE Subscribers -----------------------------
(***************************************************************************)
(* The table of subscribers and who writes to it: the public form with its *)
(* double opt-in (api/subscribe.go), the operator (api/subscribers.go),    *)
(* the return from Slack's OAuth (api/slack.go) and the Telegram bot       *)
(* (telegram/bot.go), which polls for commands and may die between two of  *)
(* them.  The importer's rows, unconfirmed and without token or letter,    *)
(* are left out.                                                           *)
(*                                                                         *)
(* Every query is one step.  A request keeps in `req' what it has read, so *)
(* that the row may change before it writes.  The mail itself is Delivery; *)
(* here a letter is in the inbox as soon as it is published.  Access to a  *)
(* private page is the subject of Pages, component lists are the scope.    *)
(***************************************************************************)
EXTENDS Naturals, Sequences, FiniteSets

CONSTANTS
    None,           \* no row, no token
    Pages,          \* status pages
    Emails, Hooks,  \* e-mail addresses; addresses of Slack channels
    Chat,           \* the Telegram chat
    Scopes,         \* what a subscription covers: the page or some components
    Requests,       \* requests the API serves at a time
    MaxRows,        \* ids: as many as there are keys and references held to deleted rows
    MaxInputs,      \* bound on requests, commands and deletions together
    MaxFaults,      \* bound on failed calls
    MaxCrashes      \* bound on deaths of the bot

Key(p, c, a) == [page |-> p, channel |-> c, address |-> a]

EmailKeys == {Key(p, "email", a) : p \in Pages, a \in Emails}

SlackKeys == {Key(p, "slack", a) : p \in Pages, a \in Hooks}

ChatKeys == {Key(p, "telegram", Chat) : p \in Pages}

Keys == EmailKeys \cup SlackKeys \cup ChatKeys

Ids == 1..MaxRows

\* Commands of the chat: /start <slug>, /stop <slug>, /stop.
Commands ==
    [cmd : {"/start", "/stop"}, arg : Pages] \cup {[cmd |-> "/stop", arg |-> None]}

Tokens == 1..MaxInputs

\* The rows of subscribers.
Rows == [key : Keys, confirmed : BOOLEAN, token : Tokens \cup {None}, scope : Scopes]

ASSUME SubscriberConstants ==
    /\ None \notin Pages /\ None \notin Keys /\ None \notin Rows
    /\ None \notin Ids /\ None \notin Tokens
    /\ "page" \in Scopes /\ None \notin Scopes
    /\ MaxRows \in Nat /\ MaxInputs \in Nat /\ MaxFaults \in Nat /\ MaxCrashes \in Nat

VARIABLES
    rows,      \* id -> subscriber row, None when not inserted yet or deleted
    inputs,    \* inputs so far; a confirmation token is the number of its request
    inbox,     \* letters: [token, key]
    live,      \* pages not deleted
    oauth,     \* pages for which a signed Slack state is out
    req,       \* requests of the API in progress
    sent,      \* commands of the chat, oldest first
    acked,     \* commands Telegram will not deliver again
    bot,       \* the bot: where it is and what it holds
    agreed,    \* history: e-mail keys whose owner, or the operator, said yes
    meddled,   \* history: chat keys the operator added or removed
    faults,    \* failed calls so far
    crashes    \* deaths of the bot so far

vars == <<rows, inputs, inbox, live, oauth, req, sent, acked, bot,
          agreed, meddled, faults, crashes>>

apiVars == <<inbox, oauth, req>>
botVars == <<sent, acked, bot, crashes>>

\* A row: unsubscribe_token is not used, the link is signed over the id.
Row(k, confirmed, token, scope) ==
    [key |-> k, confirmed |-> confirmed, token |-> token, scope |-> scope]

NoRequest == [pc |-> "idle", key |-> None, id |-> None, token |-> None, scope |-> None]

\* The bot between two calls: polling, with nothing received.
Polling(offset) == [pc |-> "poll", offset |-> offset, got |-> 0, page |-> None, ids |-> {}]

Init ==
    /\ rows = [i \in Ids |-> None]
    /\ inputs = 0
    /\ inbox = {} /\ live = Pages /\ oauth = {}
    /\ req = [r \in Requests |-> NoRequest]
    /\ sent = <<>> /\ acked = 0
    /\ bot = Polling(0)
    /\ agreed = {} /\ meddled = {}
    /\ faults = 0 /\ crashes = 0

-----------------------------------------------------------------------------
(* The queries of the table. *)

Present == {i \in Ids : rows[i] # None}

SubscriberByPageChannelAddress(k) == {i \in Present : rows[i].key = k}

SubscribersByChannelAddress(c, a) ==
    {i \in Present : rows[i].key.channel = c /\ rows[i].key.address = a}

SubscriberByConfirmTokenHash(t) == {i \in Present : rows[i].token = t}

\* The unique index on (page, channel, address).
AddressTaken(k) == SubscriberByPageChannelAddress(k) # {}

\* Ids are never given twice; one that no row and no copy mentions is as good as new.
FreshIds == Ids \ (Present \cup bot.ids \cup {req[r].id : r \in Requests})
FreshId == CHOOSE i \in FreshIds : TRUE

CreateSubscriber(row) ==
    /\ FreshIds # {}
    /\ rows' = [rows EXCEPT ![FreshId] = row]

SetSubscriberConfirmToken(i, t, s) ==
    rows' = [rows EXCEPT ![i].token = t, ![i].scope = s]

\* UPDATE ... WHERE id: a row deleted in the meantime is not touched.
ConfirmSubscriber(i) ==
    rows' = IF rows[i] = None THEN rows
            ELSE [rows EXCEPT ![i].confirmed = TRUE, ![i].token = None]

\* Mutant: unsubscribing only takes the confirmation back.
DeleteSoftly(i) ==
    rows' = IF rows[i] = None THEN rows ELSE [rows EXCEPT ![i].confirmed = FALSE]

DeleteSubscriber(i) ==
    rows' = [rows EXCEPT ![i] = None]

-----------------------------------------------------------------------------
(* The public form. *)

Input == inputs < MaxInputs /\ inputs' = inputs + 1

Answer(r) == req' = [req EXCEPT ![r] = NoRequest]

\* handleSubscribe as far as the lookup: a confirmed subscription is left alone.
handleSubscribe(r, k, s) ==
    /\ req[r].pc = "idle"
    /\ Input
    /\ k \in EmailKeys /\ k.page \in live
    /\ LET found == SubscriberByPageChannelAddress(k) IN
       IF \E i \in found : rows[i].confirmed
       THEN req' = req
       ELSE req' = [req EXCEPT ![r] =
                [pc |-> IF found = {} THEN "create" ELSE "reissue", key |-> k,
                 id |-> IF found = {} THEN None ELSE CHOOSE i \in found : TRUE,
                 token |-> inputs + 1, scope |-> s]]
    /\ UNCHANGED <<rows, inbox, live, oauth, botVars, agreed, meddled, faults>>

\* The insertion, or the unique violation that ends the request.
SubscribeCreate(r) ==
    /\ req[r].pc = "create"
    /\ IF AddressTaken(req[r].key)
       THEN Answer(r) /\ UNCHANGED rows
       ELSE /\ CreateSubscriber(Row(req[r].key, FALSE, req[r].token, req[r].scope))
            /\ req' = [req EXCEPT ![r].pc = "mail", ![r].id = FreshId]
    /\ UNCHANGED <<inputs, inbox, live, oauth, botVars, agreed, meddled, faults>>

\* Mutant: a second letter to the same address is not sent.
ReissueSilently(r) ==
    /\ req[r].pc = "reissue"
    /\ IF rows[req[r].id] = None
       THEN UNCHANGED rows
       ELSE SetSubscriberConfirmToken(req[r].id, req[r].token, req[r].scope)
    /\ Answer(r)
    /\ UNCHANGED <<inputs, inbox, live, oauth, botVars, agreed, meddled, faults>>

\* ReissueConfirmToken: ErrNotFound when the row has gone.
ReissueConfirmToken(r) ==
    /\ req[r].pc = "reissue"
    /\ IF rows[req[r].id] = None
       THEN Answer(r) /\ UNCHANGED rows
       ELSE /\ SetSubscriberConfirmToken(req[r].id, req[r].token, req[r].scope)
            /\ req' = [req EXCEPT ![r].pc = "mail"]
    /\ UNCHANGED <<inputs, inbox, live, oauth, botVars, agreed, meddled, faults>>

\* SendConfirmation and the answer 202.
SendConfirmation(r) ==
    /\ req[r].pc = "mail"
    /\ inbox' = inbox \cup {[token |-> req[r].token, key |-> req[r].key]}
    /\ Answer(r)
    /\ UNCHANGED <<rows, inputs, live, oauth, botVars, agreed, meddled, faults>>

\* The owner of the address follows a letter: the lookup by the token's hash.
handleConfirmSubscribe(r, letter) ==
    /\ req[r].pc = "idle"
    /\ Input
    /\ LET found == SubscriberByConfirmTokenHash(letter.token) IN
       /\ found # {}
       /\ \E i \in found :
            req' = [req EXCEPT ![r] = [NoRequest EXCEPT !.pc = "confirm", !.id = i,
                                                        !.key = letter.key]]
    /\ agreed' = agreed \cup {letter.key}
    /\ UNCHANGED <<rows, inbox, live, oauth, botVars, meddled, faults>>

\* ... and the update of the row that was found.
ConfirmFound(r) ==
    /\ req[r].pc = "confirm"
    /\ ConfirmSubscriber(req[r].id)
    /\ Answer(r)
    /\ UNCHANGED <<inputs, inbox, live, oauth, botVars, agreed, meddled, faults>>

\* The signed link of any mail, or the operator's button: one deletion by id.
\* A row keeps its page, so looking it up to authorize needs no step of its own.
handleUnsubscribe(i) ==
    /\ Input
    /\ i \in Present
    /\ DeleteSubscriber(i)
    /\ agreed' = agreed \ {rows[i].key}
    /\ meddled' = meddled \cup ({rows[i].key} \cap ChatKeys)
    /\ UNCHANGED <<live, apiVars, botVars, faults>>

-----------------------------------------------------------------------------
(* The operator and Slack: both look the key up, then insert it confirmed. *)

handleCreateSubscriber(r, k, s) ==
    /\ req[r].pc = "idle"
    /\ Input
    /\ k.page \in live
    /\ ~AddressTaken(k)
    /\ req' = [req EXCEPT ![r] = [NoRequest EXCEPT !.pc = "vouch", !.key = k, !.scope = s]]
    /\ UNCHANGED <<rows, inbox, live, oauth, botVars, agreed, meddled, faults>>

handleSlackStart(p) ==
    /\ Input
    /\ p \in live \ oauth
    /\ oauth' = oauth \cup {p}
    /\ UNCHANGED <<rows, inbox, live, req, botVars, agreed, meddled, faults>>

\* The state names the page; the exchange of the code names the channel.
handleSlackCallback(r, p, h) ==
    /\ req[r].pc = "idle"
    /\ Input
    /\ p \in oauth \cap live
    /\ ~AddressTaken(Key(p, "slack", h))
    /\ req' = [req EXCEPT ![r] = [NoRequest EXCEPT !.pc = "vouch", !.scope = "page",
                                                   !.key = Key(p, "slack", h)]]
    /\ UNCHANGED <<rows, inbox, live, oauth, botVars, agreed, meddled, faults>>

VouchedCreate(r) ==
    /\ req[r].pc = "vouch"
    /\ LET k == req[r].key IN
       IF AddressTaken(k)
       THEN UNCHANGED <<rows, agreed, meddled>>
       ELSE /\ CreateSubscriber(Row(k, TRUE, None, req[r].scope))
            /\ agreed' = agreed \cup ({k} \cap EmailKeys)
            /\ meddled' = meddled \cup ({k} \cap ChatKeys)
    /\ Answer(r)
    /\ UNCHANGED <<inputs, inbox, live, oauth, botVars, faults>>

\* A query or the publication fails, or the client has gone: the request ends here.
RequestFails(r) ==
    /\ req[r].pc # "idle"
    /\ faults < MaxFaults /\ faults' = faults + 1
    /\ Answer(r)
    /\ UNCHANGED <<rows, inputs, inbox, live, oauth, botVars, agreed, meddled>>

\* A page is deleted softly; the rows of its subscribers stay.
DeletePage(p) ==
    /\ Input
    /\ p \in live
    /\ live' = live \ {p}
    /\ UNCHANGED <<rows, apiVars, botVars, agreed, meddled, faults>>

-----------------------------------------------------------------------------
(* The bot. *)

ChatSends(c) ==
    /\ Input
    /\ sent' = Append(sent, c)
    /\ UNCHANGED <<rows, apiVars, live, acked, bot, agreed, meddled, faults, crashes>>

\* Where getUpdates starts: an offset confirms everything before it.
Start == IF bot.offset = 0 THEN acked + 1 ELSE bot.offset

\* Mutant: what is received is confirmed at once.
GetUpdatesConfirms ==
    /\ bot.pc = "poll"
    /\ Start <= Len(sent)
    /\ acked' = Len(sent)
    /\ bot' = [bot EXCEPT !.pc = "batch", !.offset = Start, !.got = Len(sent)]
    /\ UNCHANGED <<rows, apiVars, inputs, live, sent, agreed, meddled, faults, crashes>>

GetUpdates ==
    /\ bot.pc = "poll"
    /\ Start <= Len(sent)
    /\ acked' = Start - 1
    /\ bot' = [bot EXCEPT !.pc = "batch", !.offset = Start, !.got = Len(sent)]
    /\ UNCHANGED <<rows, apiVars, inputs, live, sent, agreed, meddled, faults, crashes>>

\* Back to the loop: the next update of the batch, or the next poll.
Loop(b) == [b EXCEPT !.pc = IF b.offset > b.got THEN "poll" ELSE "batch",
                      !.page = None, !.ids = {}]

\* handleStart: page by slug, then the lookup of the chat's subscription.
handleStart ==
    /\ bot.pc = "batch" /\ sent[bot.offset].cmd = "/start"
    /\ LET p == sent[bot.offset].arg
           b == [bot EXCEPT !.offset = @ + 1]
       IN bot' = IF p \notin live \/ AddressTaken(Key(p, "telegram", Chat))
                 THEN Loop(b)
                 ELSE [b EXCEPT !.pc = "create", !.page = p]
    /\ UNCHANGED <<rows, apiVars, inputs, live, sent, acked, agreed, meddled, faults, crashes>>

BotCreate ==
    /\ bot.pc = "create"
    /\ LET k == Key(bot.page, "telegram", Chat) IN
       IF AddressTaken(k) THEN UNCHANGED rows
       ELSE CreateSubscriber(Row(k, TRUE, None, "page"))
    /\ bot' = Loop(bot)
    /\ UNCHANGED <<apiVars, inputs, live, sent, acked, agreed, meddled, faults, crashes>>

\* handleStop: one page, or every subscription of the chat.
handleStop ==
    /\ bot.pc = "batch" /\ sent[bot.offset].cmd = "/stop"
    /\ LET p == sent[bot.offset].arg
           b == [bot EXCEPT !.offset = @ + 1]
           found == IF p = None THEN SubscribersByChannelAddress("telegram", Chat)
                    ELSE IF p \in live
                         THEN SubscriberByPageChannelAddress(Key(p, "telegram", Chat))
                         ELSE {}
       IN bot' = IF found = {} THEN Loop(b)
                 ELSE [b EXCEPT !.pc = "delete", !.ids = found]
    /\ UNCHANGED <<rows, apiVars, inputs, live, sent, acked, agreed, meddled, faults, crashes>>

BotDelete ==
    /\ bot.pc = "delete"
    /\ \E i \in bot.ids :
         /\ DeleteSubscriber(i)
         /\ bot' = IF bot.ids = {i} THEN Loop(bot) ELSE [bot EXCEPT !.ids = @ \ {i}]
    /\ UNCHANGED <<apiVars, inputs, live, sent, acked, agreed, meddled, faults, crashes>>

\* A query of the bot fails: it is logged and the command is over, except that
\* /stop goes on with the other subscriptions.
BotFails ==
    /\ bot.pc \in {"batch", "create", "delete"}
    /\ faults < MaxFaults /\ faults' = faults + 1
    /\ bot' = CASE bot.pc = "batch" -> Loop([bot EXCEPT !.offset = @ + 1])
                [] bot.pc = "create" -> Loop(bot)
                [] OTHER -> LET i == CHOOSE i \in bot.ids : TRUE IN
                            IF bot.ids = {i} THEN Loop(bot)
                            ELSE [bot EXCEPT !.ids = @ \ {i}]
    /\ UNCHANGED <<rows, apiVars, inputs, live, sent, acked, agreed, meddled, crashes>>

\* The bot dies and starts again with offset zero.
BotCrash ==
    /\ crashes < MaxCrashes /\ crashes' = crashes + 1
    /\ bot' = Polling(0)
    /\ UNCHANGED <<rows, apiVars, inputs, live, sent, acked, agreed, meddled, faults>>

\* One pass of the loop in Run.
Run == GetUpdates \/ handleStart \/ handleStop \/ BotCreate \/ BotDelete

-----------------------------------------------------------------------------

Serve(r) ==
    \/ SubscribeCreate(r) \/ ReissueConfirmToken(r) \/ SendConfirmation(r)
    \/ ConfirmFound(r) \/ VouchedCreate(r)

Next ==
    \/ \E r \in Requests :
         \/ \E k \in EmailKeys, s \in Scopes : handleSubscribe(r, k, s)
         \/ \E letter \in inbox : handleConfirmSubscribe(r, letter)
         \/ \E k \in Keys, s \in Scopes : handleCreateSubscriber(r, k, s)
         \/ \E p \in Pages, h \in Hooks : handleSlackCallback(r, p, h)
         \/ Serve(r) \/ RequestFails(r)
    \/ \E p \in Pages : handleSlackStart(p) \/ DeletePage(p)
    \/ \E i \in Ids : handleUnsubscribe(i)
    \/ \E c \in Commands : ChatSends(c)
    \/ Run \/ BotFails \/ BotCrash

Spec == Init /\ [][Next]_vars

-----------------------------------------------------------------------------
(* Properties. *)

\* The type of the state.
TypeOK ==
    /\ rows \in [Ids -> Rows \cup {None}]
    /\ inputs \in 0..MaxInputs
    /\ inbox \subseteq [token : Tokens, key : EmailKeys]
    /\ live \subseteq Pages /\ oauth \subseteq Pages
    /\ req \in [Requests ->
         [pc : {"idle", "create", "reissue", "mail", "confirm", "vouch"},
          key : Keys \cup {None}, id : Ids \cup {None},
          token : Tokens \cup {None}, scope : Scopes \cup {None}]]
    /\ sent \in Seq(Commands) /\ acked \in 0..Len(sent)
    /\ bot \in [pc : {"poll", "batch", "create", "delete"}, offset : 0..Len(sent) + 1,
               got : 0..Len(sent), page : Pages \cup {None}, ids : SUBSET Ids]
    /\ agreed \subseteq EmailKeys /\ meddled \subseteq ChatKeys
    /\ faults \in 0..MaxFaults /\ crashes \in 0..MaxCrashes

(***************************************************************************)
(* No mail without consent: an e-mail subscription counts as confirmed     *)
(* only if its owner followed a letter, or the operator vouched, after the *)
(* last time it was unsubscribed.  A confirmation under way when the       *)
(* unsubscription comes must not bring the subscription back               *)
(* (handleConfirmSubscribe reads the row and updates it in two queries).   *)
(***************************************************************************)
ConsentGiven ==
    \A i \in Present :
        rows[i].key.channel = "email" /\ rows[i].confirmed => rows[i].key \in agreed

\* Nothing under way concerns the row.
Quiet(i) ==
    \A r \in Requests : req[r].pc = "idle" \/ (req[r].id # i /\ req[r].key # rows[i].key)

(***************************************************************************)
(* An accepted subscription can be completed: when the requests about an   *)
(* unconfirmed row have ended and no call failed, the inbox of the address *)
(* holds a letter whose token confirms it, whichever of two overlapping    *)
(* requests reissued the token last (handleSubscribe).                     *)
(***************************************************************************)
PendingCanConfirm ==
    \A i \in Present :
        (faults = 0 /\ rows[i].key.channel = "email" /\ ~rows[i].confirmed /\ Quiet(i))
            => [token |-> rows[i].token, key |-> rows[i].key] \in inbox

\* The bot has dealt with everything the chat sent.
CaughtUp ==
    bot.pc = "poll" /\ Start > Len(sent)

\* The last command about page p, if there is one, was /start.
Wants(p) ==
    \E n \in 1..Len(sent) :
        /\ sent[n] = [cmd |-> "/start", arg |-> p]
        /\ \A m \in n + 1..Len(sent) : sent[m].cmd = "/stop" => sent[m].arg \notin {p, None}

(***************************************************************************)
(* The chat gets what it asked for last: with every command dealt with and *)
(* no query failed, it is subscribed to exactly the pages its commands     *)
(* leave it subscribed to, although a bot that died has run some of the    *)
(* commands twice (Bot.Run).                                               *)
(***************************************************************************)
BotObeys ==
    (CaughtUp /\ faults = 0) =>
        \A p \in live : LET k == Key(p, "telegram", Chat) IN
            k \notin meddled => (AddressTaken(k) <=> Wants(p))

=============================================================================
