------------------------------- MODULE Delivery -------------------------------
(***************************************************************************)
(* The notification pipeline of HealthPage: the notify engine of the API   *)
(* process (internal/notify), the RabbitMQ topology it publishes to        *)
(* (internal/queue), the notifications journal (internal/store) and the    *)
(* channel workers (internal/email, telegram, slack, webhookout) that      *)
(* consume the queues with manual acknowledgement.                         *)
(*                                                                         *)
(* A message carries the id of its journal row, and that id is all the     *)
(* workers decide on (Message.Attempt is written and never read), so a     *)
(* queue is the number of copies it holds of each id.  The order of        *)
(* delivery is left open: requeues, delays and replicas reorder it anyway. *)
(***************************************************************************)
EXTENDS Naturals, FiniteSets

CONSTANTS
    Events,         \* domain events, one HTTP request each
    Confirms,       \* POST /subscribe requests that mail a double opt-in link
    Links,          \* magic-link requests: transactional mail without a row
    Subs,           \* subscriber rows of the page
    Workers,        \* consumer loops, of any worker process and replica
    Components,     \* components of the page
    Channel,        \* Subs -> channel of the subscriber
    Scope,          \* Subs -> whole page, or the components subscribed to
    Affected,       \* Events -> components the incident or maintenance touches
    Serves,         \* Workers -> the channels whose queues the loop consumes
    MaxAttempts,    \* len(retrySchedule)
    MaxFaults,      \* bound on infrastructure faults in one behaviour
    None            \* no subscriber, no message

Channels == {"email", "telegram", "rss", "ical", "webhook", "max", "slack"}
Requests == Events \cup Confirms
Rows == Requests \X Subs                 \* Notification.id
Msgs == Rows \cup Links

ASSUME NamesAreDistinct ==
    /\ Events \cap Confirms = {}
    /\ Requests \cap Links = {}
    /\ None \notin Subs
    /\ Rows \cap Links = {}
    /\ None \notin Msgs
ASSUME ShapeOfConstants ==
    /\ Channel \in [Subs -> Channels]
    /\ Scope \in [Subs -> [page: BOOLEAN, components: SUBSET Components]]
    /\ Affected \in [Events -> SUBSET Components]
    /\ Serves \in [Workers -> SUBSET Channels]
ASSUME LoopsAreFinite == IsFiniteSet(Workers)
ASSUME AttemptsAreCounted == MaxAttempts \in Nat \ {0} /\ MaxFaults \in Nat

VARIABLES
    sub,        \* Subs -> state of the subscriber row
    request,    \* Requests \cup Links -> state of the HTTP request
    todo,       \* Requests -> subscribers the fan-out has still to handle
    cur,        \* Requests -> subscriber whose row is committed but unpublished
    status,     \* Rows -> notifications.status
    attempts,   \* Rows -> notifications.attempts
    queue,      \* Msgs -> copies ready in the work queue of the channel
    delayed,    \* Msgs -> copies waiting in delayed.events
    dlq,        \* Msgs -> copies dead-lettered to q.dlq.<channel>
    pc,         \* Workers -> where Process stands
    msg,        \* Workers -> the message it handles
    connected,  \* Workers whose AMQP channel is open: the broker feeds them
    \* History variables: no action reads them, the properties do.
    published,  \* Msgs whose first publication the broker confirmed
    delivered,  \* Msgs -> times the recipient's server accepted it
    dropped,    \* Msgs acknowledged after a permanent delivery error
    excused,    \* Workers already past the journal check at an unsubscription
    skipped,    \* Requests -> subscribers whose own row or publication failed
    listed,     \* Requests -> subscribers selected for the fan-out
    faults      \* infrastructure faults so far

requestVars == <<request, todo, cur, published, skipped, listed>>
journalVars == <<status, attempts>>
brokerVars == <<queue, delayed, dlq>>
workerVars == <<pc, msg, connected, excused>>
recipientVars == <<delivered, dropped>>
vars == <<sub, request, todo, cur, published, skipped, listed, status, attempts,
          queue, delayed, dlq, pc, msg, connected, excused, delivered, dropped, faults>>

PCs == {"idle", "load", "build", "send", "mark", "incr", "fail", "republish",
        "ack", "reject", "requeue"}

\* The type of the state: rows, queues, consumer loops and history variables.
TypeOK ==
    /\ sub \in [Subs -> {"unconfirmed", "confirmed", "deleted"}]
    /\ request \in [Requests \cup Links ->
                      {"idle", "running", "cancelled", "done", "crashed"}]
    /\ todo \in [Requests -> SUBSET Subs]
    /\ cur \in [Requests -> Subs \cup {None}]
    /\ published \in SUBSET Msgs
    /\ skipped \in [Requests -> SUBSET Subs]
    /\ listed \in [Requests -> SUBSET Subs]
    /\ status \in [Rows -> {"none", "pending", "sent", "failed", "gone"}]
    /\ attempts \in [Rows -> Nat]
    /\ queue \in [Msgs -> Nat]
    /\ delayed \in [Msgs -> Nat]
    /\ dlq \in [Msgs -> Nat]
    /\ pc \in [Workers -> PCs]
    /\ msg \in [Workers -> Msgs \cup {None}]
    /\ connected \in SUBSET Workers
    /\ excused \in SUBSET Workers
    /\ delivered \in [Msgs -> Nat]
    /\ dropped \in SUBSET Msgs
    /\ faults \in Nat

Init ==
    /\ sub \in [Subs -> {"unconfirmed", "confirmed"}]
    /\ request = [r \in Requests \cup Links |-> "idle"]
    /\ todo = [r \in Requests |-> {}]
    /\ cur = [r \in Requests |-> None]
    /\ published = {}
    /\ skipped = [r \in Requests |-> {}]
    /\ listed = [r \in Requests |-> {}]
    /\ status = [n \in Rows |-> "none"]
    /\ attempts = [n \in Rows |-> 0]
    /\ queue = [m \in Msgs |-> 0]
    /\ delayed = [m \in Msgs |-> 0]
    /\ dlq = [m \in Msgs |-> 0]
    /\ pc = [w \in Workers |-> "idle"]
    /\ msg = [w \in Workers |-> None]
    /\ connected = Workers
    /\ excused = {}
    /\ delivered = [m \in Msgs |-> 0]
    /\ dropped = {}
    /\ faults = 0

-----------------------------------------------------------------------------
(* Helpers.                                                                *)

\* Message.Channel: the channel of the subscriber; magic links are e-mail.
ChannelOf(m) == IF m \in Links THEN "email" ELSE Channel[m[2]]

IsPush(c) == c \in {"email", "telegram", "max", "slack"}
Deliverable(c) == IsPush(c) \/ c = "webhook"

WantsEvent(s, affected) ==
    Scope[s].page \/ Scope[s].components \cap affected # {}

\* DeclareTopology: the channels whose work queue is bound to an exchange.
NotificationChannels == {"email", "telegram", "max", "slack"}
\* Mutant: the webhook queue is not bound to the exchange of the retries.
BoundWithoutWebhookRetry(exchange) ==
    IF exchange = "webhooks.out" THEN {"webhook"} ELSE NotificationChannels
Bound(exchange) ==
    CASE exchange = "notifications"  -> NotificationChannels
      [] exchange = "webhooks.out"   -> {"webhook"}
      [] exchange = "delayed.events" -> NotificationChannels \cup {"webhook"}
      [] exchange = "dlx"            -> NotificationChannels \cup {"webhook"}

\* The exchange Engine.publish chooses.
ExchangeOf(c) == IF c = "webhook" THEN "webhooks.out" ELSE "notifications"

\* An exchange copies a message to the queue bound for its channel.  With no
\* such queue the message vanishes, and is confirmed all the same: the
\* publisher does not set the mandatory flag.
Route(exchange, q, m) ==
    IF ChannelOf(m) \in Bound(exchange) THEN [q EXCEPT ![m] = @ + 1] ELSE q

\* An infrastructure fault: a database or broker call that returns an error,
\* a request whose context ends, or a process that dies.
Fault == faults < MaxFaults /\ faults' = faults + 1

\* Mutant: the last entry of the schedule is never used.
RetryAllowedOffByOne(attempt) == attempt >= 1 /\ attempt < MaxAttempts
\* RetryBackoff(attempt): is another delivery still allowed?
RetryAllowed(attempt) == attempt >= 1 /\ attempt <= MaxAttempts

-----------------------------------------------------------------------------
(* Subscribers.                                                            *)

\* GET /subscribe/confirm.
ConfirmSubscriber(s) ==
    /\ sub[s] = "unconfirmed"
    /\ sub' = [sub EXCEPT ![s] = "confirmed"]
    /\ UNCHANGED <<requestVars, journalVars, brokerVars, workerVars,
                   recipientVars, faults>>

\* DELETE FROM subscribers (unsubscribe link, operator); the journal rows go
\* with it (ON DELETE CASCADE).
DeleteSubscriber(s) ==
    /\ sub[s] # "deleted"
    /\ sub' = [sub EXCEPT ![s] = "deleted"]
    /\ status' = [n \in Rows |->
                    IF n[2] = s /\ status[n] # "none" THEN "gone" ELSE status[n]]
    /\ excused' = excused \cup
                    {w \in Workers : /\ pc[w] \in {"build", "send"}
                                     /\ msg[w] \in Rows
                                     /\ msg[w][2] = s}
    /\ UNCHANGED <<requestVars, attempts, brokerVars, pc, msg, connected,
                   recipientVars, faults>>

-----------------------------------------------------------------------------
(* The API process: the notify engine.                                     *)

Alive(r) == request[r] \in {"running", "cancelled"}

\* Engine.dispatch, up to the loop: the confirmed subscribers as one query
\* sees them, filtered by channel and scope.
Dispatch(e) ==
    /\ request[e] = "idle"
    /\ \/ /\ request' = [request EXCEPT ![e] = "running"]
          /\ LET selected == {s \in Subs : /\ sub[s] = "confirmed"
                                           /\ Deliverable(Channel[s])
                                           /\ WantsEvent(s, Affected[e])}
             IN /\ todo' = [todo EXCEPT ![e] = selected]
                /\ listed' = [listed EXCEPT ![e] = selected]
          /\ UNCHANGED faults
       \/ /\ Fault                        \* "notify: list subscribers"
          /\ request' = [request EXCEPT ![e] = "done"]
          /\ UNCHANGED <<todo, listed>>
    /\ UNCHANGED <<sub, cur, published, skipped, journalVars, brokerVars,
                   workerVars, recipientVars>>

\* Engine.SendConfirmation to a subscriber handleSubscribe just stored.
SendConfirmation(c, s) ==
    /\ request[c] = "idle"
    /\ sub[s] = "unconfirmed" /\ Channel[s] = "email"
    /\ request' = [request EXCEPT ![c] = "running"]
    /\ todo' = [todo EXCEPT ![c] = {s}]
    /\ listed' = [listed EXCEPT ![c] = {s}]
    /\ UNCHANGED <<sub, cur, published, skipped, journalVars, brokerVars,
                   workerVars, recipientVars, faults>>

\* Store.CreateNotification for the next subscriber.  The insert fails on its
\* foreign key when the subscriber was deleted meanwhile, and on the request's
\* context once that ended; the loop goes on with the next one.
CreateNotification(r, s) ==
    /\ Alive(r) /\ cur[r] = None /\ s \in todo[r]
    /\ todo' = [todo EXCEPT ![r] = @ \ {s}]
    /\ \/ /\ request[r] = "running" /\ sub[s] # "deleted"
          /\ status' = [status EXCEPT ![<<r, s>>] = "pending"]
          /\ cur' = [cur EXCEPT ![r] = s]
          /\ UNCHANGED <<skipped, faults>>
       \/ /\ request[r] = "cancelled" \/ sub[s] = "deleted"
          /\ skipped' = [skipped EXCEPT ![r] = @ \cup {s}]
          /\ UNCHANGED <<status, cur, faults>>
       \/ /\ request[r] = "running" /\ Fault
          /\ skipped' = [skipped EXCEPT ![r] = @ \cup {s}]
          /\ UNCHANGED <<status, cur>>
    /\ UNCHANGED <<sub, request, published, listed, attempts, brokerVars,
                   workerVars, recipientVars>>

\* Engine.publish of the row just created.  The publisher waits for the
\* broker's confirm; when the wait ends in an error instead, the message may
\* have been enqueued or not.  The row stays pending and the loop goes on.
Publish(r) ==
    /\ Alive(r) /\ cur[r] # None
    /\ cur' = [cur EXCEPT ![r] = None]
    /\ LET m == <<r, cur[r]>>
           enqueued == Route(ExchangeOf(ChannelOf(m)), queue, m)
           failed == skipped' = [skipped EXCEPT ![r] = @ \cup {cur[r]}]
       IN \/ /\ request[r] = "running"
             /\ queue' = enqueued
             /\ published' = published \cup {m}
             /\ UNCHANGED <<skipped, faults>>
          \/ /\ request[r] = "running" /\ Fault /\ failed
             /\ queue' \in {queue, enqueued}
             /\ UNCHANGED published
          \/ /\ request[r] = "cancelled" /\ failed
             /\ queue' \in {queue, enqueued}
             /\ UNCHANGED <<published, faults>>
    /\ UNCHANGED <<sub, request, todo, listed, journalVars, delayed, dlq,
                   workerVars, recipientVars>>

\* Mutant: the first error ends the loop.
FinishDispatchAtError(r) ==
    /\ Alive(r) /\ cur[r] = None
    /\ todo[r] = {} \/ skipped[r] # {}
    /\ request' = [request EXCEPT ![r] = "done"]
    /\ UNCHANGED <<sub, todo, cur, published, skipped, listed, journalVars,
                   brokerVars, workerVars, recipientVars, faults>>
\* The loop is over; emitNotify logs whatever errors it collected.
FinishDispatch(r) ==
    /\ Alive(r) /\ todo[r] = {} /\ cur[r] = None
    /\ request' = [request EXCEPT ![r] = "done"]
    /\ UNCHANGED <<sub, todo, cur, published, skipped, listed, journalVars,
                   brokerVars, workerVars, recipientVars, faults>>

\* The client disconnects: dispatch runs on r.Context(), which is cancelled.
CancelRequest(r) ==
    /\ request[r] = "running" /\ Fault
    /\ request' = [request EXCEPT ![r] = "cancelled"]
    /\ UNCHANGED <<sub, todo, cur, published, skipped, listed, journalVars,
                   brokerVars, workerVars, recipientVars>>

\* The API process dies; its requests are not resumed.
CrashApi ==
    /\ \E r \in Requests : Alive(r)
    /\ Fault
    /\ request' = [r \in Requests \cup Links |->
                     IF Alive(r) THEN "crashed" ELSE request[r]]
    /\ todo' = [r \in Requests |-> {}]
    /\ cur' = [r \in Requests |-> None]
    /\ UNCHANGED <<sub, published, skipped, listed, journalVars, brokerVars,
                   workerVars, recipientVars>>

\* Engine.SendAccessLink: published without a journal row.
SendAccessLink(l) ==
    /\ request[l] = "idle"
    /\ request' = [request EXCEPT ![l] = "done"]
    /\ LET enqueued == Route("notifications", queue, l)
       IN \/ /\ queue' = enqueued
             /\ published' = published \cup {l}
             /\ UNCHANGED faults
          \/ /\ Fault
             /\ queue' \in {queue, enqueued}
             /\ UNCHANGED published
    /\ UNCHANGED <<sub, todo, cur, skipped, listed, journalVars, delayed, dlq,
                   workerVars, recipientVars>>

-----------------------------------------------------------------------------
(* The channel workers: one action per step of Process that touches shared *)
(* state.  "ack", "reject" and "requeue" are the dispositions.             *)

At(w, label) == pc[w] = label
Goto(w, label) == pc' = [pc EXCEPT ![w] = label]

\* Mutant: a loop takes a message another one already holds.
ReceiveTwice(w, m) ==
    /\ At(w, "idle") /\ w \in connected
    /\ ChannelOf(m) \in Serves[w]
    /\ queue[m] > 0 \/ \E v \in Workers : msg[v] = m
    /\ queue' = [queue EXCEPT ![m] = @ - 1]
    /\ msg' = [msg EXCEPT ![w] = m]
    /\ Goto(w, IF m \in Links THEN "build" ELSE "load")
    /\ UNCHANGED <<sub, requestVars, journalVars, delayed, dlq, connected, excused,
                   recipientVars, faults>>
\* The broker hands the next message to a consumer loop that is free; what is
\* prefetched and not yet handled still counts as queued.
Receive(w, m) ==
    /\ At(w, "idle") /\ w \in connected
    /\ queue[m] > 0 /\ ChannelOf(m) \in Serves[w]
    /\ queue' = [queue EXCEPT ![m] = @ - 1]
    /\ msg' = [msg EXCEPT ![w] = m]
    /\ Goto(w, IF m \in Links THEN "build" ELSE "load")
    /\ UNCHANGED <<sub, requestVars, journalVars, delayed, dlq, connected, excused,
                   recipientVars, faults>>

\* Mutant: the status of the row is not looked at.
LoadIgnoresStatus(w) ==
    /\ At(w, "load")
    /\ \/ Goto(w, "build") /\ UNCHANGED faults
       \/ Fault /\ Goto(w, "requeue")
    /\ UNCHANGED <<sub, requestVars, journalVars, brokerVars, msg, connected, excused,
                   recipientVars>>
\* NotificationByID, and the test that makes a redelivery harmless.
Load(w) ==
    /\ At(w, "load")
    /\ \/ /\ Goto(w, IF status[msg[w]] \in {"none", "gone", "sent"}
                     THEN "ack" ELSE "build")
          /\ UNCHANGED faults
       \/ /\ Fault /\ Goto(w, "requeue")
    /\ UNCHANGED <<sub, requestVars, journalVars, brokerVars, msg, connected, excused,
                   recipientVars>>

\* Mutant: the row is marked before the message is sent.
BuildMarksFirst(w) ==
    /\ At(w, "build")
    /\ Goto(w, "send")
    /\ status' = [status EXCEPT ![msg[w]] = IF @ = "gone" THEN @ ELSE "sent"]
    /\ UNCHANGED <<sub, requestVars, attempts, brokerVars, msg, connected, excused,
                   recipientVars, faults>>
\* The address checks and build(): page lookup and rendering.  Any failure,
\* a lookup that fails for a moment too, dead-letters the message.
Build(w) ==
    /\ At(w, "build")
    /\ \/ Goto(w, "send") /\ UNCHANGED <<excused, faults>>
       \/ /\ Fault /\ Goto(w, "reject")
          /\ excused' = excused \ {w}
    /\ UNCHANGED <<sub, requestVars, journalVars, brokerVars, msg, connected, recipientVars>>

\* The call to the mail server, Bot API or webhook URL.
Send(w) ==
    /\ At(w, "send")
    /\ excused' = excused \ {w}
    /\ LET m == msg[w]
           accepted == delivered' = [delivered EXCEPT ![m] = @ + 1]
           onError == Goto(w, IF m \in Links THEN "reject" ELSE "incr")
       IN \/ /\ accepted                          \* accepted and answered
             /\ Goto(w, IF m \in Links THEN "ack" ELSE "mark")
             /\ UNCHANGED <<dropped, faults>>
          \/ /\ onError                           \* transient error
             /\ UNCHANGED <<delivered, dropped, faults>>
          \/ /\ Fault /\ accepted /\ onError      \* accepted, answer lost
             /\ UNCHANGED dropped
          \/ /\ ChannelOf(m) # "email"            \* permanent error
             /\ dropped' = dropped \cup {m}
             /\ Goto(w, "ack")
             /\ UNCHANGED <<delivered, faults>>
    /\ UNCHANGED <<sub, requestVars, journalVars, brokerVars, msg, connected>>

\* MarkNotificationSent: an unconditional UPDATE, no error if no row is left.
MarkSent(w) ==
    /\ At(w, "mark")
    /\ \/ /\ status' = [status EXCEPT ![msg[w]] = IF @ = "gone" THEN @ ELSE "sent"]
          /\ Goto(w, "ack")
          /\ UNCHANGED faults
       \/ /\ Fault /\ Goto(w, "requeue")
          /\ UNCHANGED status
    /\ UNCHANGED <<sub, requestVars, attempts, brokerVars, msg, connected, excused,
                   recipientVars>>

\* Mutant: the attempt is not counted.
IncrementForgets(w) ==
    /\ At(w, "incr")
    /\ Goto(w, IF RetryAllowed(attempts[msg[w]] + 1) THEN "republish" ELSE "fail")
    /\ UNCHANGED <<sub, requestVars, journalVars, brokerVars, msg, connected, excused,
                   recipientVars, faults>>
\* Engine.Retry, IncrementNotificationAttempts: with no row left the UPDATE
\* returns none and the message is requeued.
IncrementAttempts(w) ==
    /\ At(w, "incr")
    /\ LET n == msg[w]
       IN \/ /\ status[n] # "gone"
             /\ attempts' = [attempts EXCEPT ![n] = @ + 1]
             /\ Goto(w, IF RetryAllowed(attempts[n] + 1)
                        THEN "republish" ELSE "fail")
             /\ UNCHANGED faults
          \/ /\ status[n] = "gone"
             /\ Goto(w, "requeue")
             /\ UNCHANGED <<attempts, faults>>
          \/ /\ Fault /\ Goto(w, "requeue")
             /\ UNCHANGED attempts
    /\ UNCHANGED <<sub, requestVars, status, brokerVars, msg, connected, excused,
                   recipientVars>>

\* Engine.Retry, retries exhausted: MarkNotificationFailed, then the DLQ.
MarkFailed(w) ==
    /\ At(w, "fail")
    /\ \/ /\ status' = [status EXCEPT ![msg[w]] = IF @ = "gone" THEN @ ELSE "failed"]
          /\ Goto(w, "reject")
          /\ UNCHANGED faults
       \/ /\ Fault /\ Goto(w, "requeue")
          /\ UNCHANGED status
    /\ UNCHANGED <<sub, requestVars, attempts, brokerVars, msg, connected, excused,
                   recipientVars>>

\* Mutant: the original is requeued as well as copied.
RepublishAndRequeue(w) ==
    /\ At(w, "republish")
    /\ Goto(w, "requeue")
    /\ delayed' = Route("delayed.events", delayed, msg[w])
    /\ UNCHANGED <<sub, requestVars, journalVars, queue, dlq, msg, connected, excused,
                   recipientVars, faults>>
\* Engine.Retry: a copy goes to delayed.events; only then is this one acked.
\* The publisher has an AMQP channel of its own, which may outlive the loop's.
Republish(w) ==
    /\ At(w, "republish")
    /\ LET copied == Route("delayed.events", delayed, msg[w])
       IN \/ /\ delayed' = copied
             /\ Goto(w, "ack")
             /\ UNCHANGED faults
          \/ /\ Fault /\ Goto(w, "requeue")
             /\ delayed' \in {delayed, copied}
    /\ UNCHANGED <<sub, requestVars, journalVars, queue, dlq, msg, connected, excused,
                   recipientVars>>

\* Ack, Nack(requeue=false) and Nack(requeue=true) by the consumer callback; on
\* a closed channel each returns an error, which the callback discards.
Settle(w) ==
    /\ pc[w] \in {"ack", "reject", "requeue"}
    /\ LET m == msg[w]
           heard == w \in connected
       IN /\ queue' = IF heard /\ pc[w] = "requeue"
                      THEN [queue EXCEPT ![m] = @ + 1] ELSE queue
          /\ dlq' = IF heard /\ pc[w] = "reject" THEN Route("dlx", dlq, m) ELSE dlq
    /\ Goto(w, "idle")
    /\ msg' = [msg EXCEPT ![w] = None]
    /\ UNCHANGED <<sub, requestVars, journalVars, delayed, connected, excused,
                   recipientVars, faults>>

\* The worker process dies: the broker requeues what the loop holds, and the
\* restart policy of the container starts the process, and the loop, again.
CrashWorker(w) ==
    /\ ~At(w, "idle") /\ w \in connected /\ Fault
    /\ queue' = [queue EXCEPT ![msg[w]] = @ + 1]
    /\ Goto(w, "idle")
    /\ msg' = [msg EXCEPT ![w] = None]
    /\ excused' = excused \ {w}
    /\ UNCHANGED <<sub, requestVars, journalVars, delayed, dlq, connected,
                   recipientVars>>

\* The loop's AMQP channel closes, alone or with the connection: the broker
\* requeues what the loop holds, while the callback goes on handling it.  Then
\* the range loop over the deliveries ends, nothing dials again, and main
\* waits for a signal: the process lives on without a consumer.
LoseConnection(w) ==
    /\ w \in connected /\ Fault
    /\ connected' = connected \ {w}
    /\ queue' = IF At(w, "idle") THEN queue ELSE [queue EXCEPT ![msg[w]] = @ + 1]
    /\ UNCHANGED <<sub, requestVars, journalVars, delayed, dlq, pc, msg, excused,
                   recipientVars>>

\* Somebody restarts the process that lost its consumer.
RestartWorker(w) ==
    /\ w \notin connected
    /\ connected' = connected \cup {w}
    /\ Goto(w, "idle")
    /\ msg' = [msg EXCEPT ![w] = None]
    /\ excused' = excused \ {w}
    /\ UNCHANGED <<sub, requestVars, journalVars, brokerVars, recipientVars,
                   faults>>

\* delayed.events releases a copy when its x-delay has passed.
DelayFires(m) ==
    /\ delayed[m] > 0
    /\ delayed' = [delayed EXCEPT ![m] = @ - 1]
    /\ queue' = [queue EXCEPT ![m] = @ + 1]
    /\ UNCHANGED <<sub, requestVars, journalVars, dlq, workerVars,
                   recipientVars, faults>>

-----------------------------------------------------------------------------
Process(w) ==
    \/ Load(w) \/ Build(w) \/ Send(w) \/ MarkSent(w) \/ IncrementAttempts(w)
    \/ MarkFailed(w) \/ Republish(w) \/ Settle(w)

Next ==
    \/ \E s \in Subs : ConfirmSubscriber(s) \/ DeleteSubscriber(s)
    \/ \E e \in Events : Dispatch(e)
    \/ \E c \in Confirms, s \in Subs : SendConfirmation(c, s)
    \/ \E r \in Requests, s \in Subs : CreateNotification(r, s)
    \/ \E r \in Requests : Publish(r) \/ FinishDispatch(r) \/ CancelRequest(r)
    \/ CrashApi
    \/ \E l \in Links : SendAccessLink(l)
    \/ \E w \in Workers, m \in Msgs : Receive(w, m)
    \/ \E w \in Workers : \/ Process(w)
                          \/ CrashWorker(w) \/ LoseConnection(w) \/ RestartWorker(w)
    \/ \E m \in Msgs : DelayFires(m)

Spec == Init /\ [][Next]_vars

\* Fairness: a request that runs finishes, a consumer loop that can step does,
\* every queued message is handed to some loop in the end (queues are FIFO)
\* and a delay ends.  Users, clients and faults are free, and so is the
\* restart of a process that lost its consumer: no code and no restart policy
\* brings it about.
FairSpec ==
    /\ Spec
    /\ \A r \in Requests : /\ WF_vars(\E s \in Subs : CreateNotification(r, s))
                           /\ WF_vars(Publish(r))
                           /\ WF_vars(FinishDispatch(r))
    /\ \A w \in Workers : WF_vars(Process(w))
    /\ \A m \in Msgs : /\ SF_vars(\E w \in Workers : Receive(w, m))
                       /\ WF_vars(DelayFires(m))

-----------------------------------------------------------------------------
(* Properties.                                                             *)

\* The broker waits for the loop's answer on m, which will not be an ack alone.
Holds(w, m) == w \in connected /\ msg[w] = m /\ pc[w] \notin {"idle", "ack"}

\* A loop of the deployment is still consuming the queue of m.
Served(m) == \E w \in connected : ChannelOf(m) \in Serves[w]

\* Where a confirmed publication can have ended up.
Settled(m) ==
    IF m \in Links THEN delivered[m] > 0 ELSE status[m] \in {"sent", "gone"}

\* Delivered, and recorded so, until a loop whose channel had closed recorded
\* its own, older failure over it: MarkNotificationFailed reads no status.
Overwritten(m) == m \in Rows /\ status[m] = "failed" /\ delivered[m] > 0

\* A message the broker confirmed is never lost, whatever fails in between:
\* it was delivered and recorded, or its subscriber is gone, or a copy is
\* queued, delayed, dead-lettered, or held by a worker that will not just
\* acknowledge it, or the recipient's server refused it for good.
NeverLost ==
    \A m \in published :
        \/ Settled(m) \/ Overwritten(m)
        \/ queue[m] > 0 \/ delayed[m] > 0 \/ dlq[m] > 0
        \/ m \in dropped
        \/ \E w \in Workers : Holds(w, m)

\* The journal says sent only of what a recipient's server accepted.
SentMeansDelivered ==
    \A n \in Rows : status[n] = "sent" => delivered[n] > 0

\* The journal says failed only when every retry of the schedule was used up,
\* even when crashes and duplicates burn attempts.
FailedMeansExhausted ==
    \A n \in Rows : status[n] = "failed" => attempts[n] > MaxAttempts

\* Once a subscriber is deleted no worker begins a delivery to it: the only
\* ones that may still reach it were past the journal check at that moment.
UnsubscribedStaysQuiet ==
    \A w \in Workers : /\ pc[w] \in {"build", "send"}
                       /\ msg[w] \in Rows
                       /\ status[msg[w]] = "gone"
                       => w \in excused

\* dispatch leaves nobody out: a finished fan-out has, for every subscriber it
\* selected, a confirmed publication or a failure that hit that subscriber.
FanOutCompletes ==
    \A r \in Requests : request[r] = "done" =>
        \A s \in listed[r] : <<r, s>> \in published \/ s \in skipped[r]

\* A recipient sees a notification twice only if something failed: without a
\* fault there is one delivery, and every further one takes a fault of its own.
DuplicatesCostFaults ==
    \A m \in Msgs : delivered[m] <= 1 + faults

\* Where one consumer loop serves a queue (Serves gives no channel to two),
\* no redelivery or late retry turns a sent row into anything but a deleted
\* one, although MarkNotificationFailed itself does not look at the row.
SentIsFinal ==
    [][\A n \in Rows : status[n] = "sent" => status'[n] \in {"sent", "gone"}]_vars

\* Whatever is published to a queue with a consumer is settled in the end:
\* recorded as sent, forgotten with its subscriber, dead-lettered or refused.
\* The one way out is that every loop of its queue lost its channel and nobody
\* restarts a worker.
EventuallySettled ==
    \A m \in Msgs :
        (m \in published /\ Served(m))
            ~> (Settled(m) \/ dlq[m] > 0 \/ m \in dropped \/ []~Served(m))
=============================================================================
