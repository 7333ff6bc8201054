---------------------------- MODULE DeliveryProofs ----------------------------
(***************************************************************************)
(* Theorems about Delivery, for every set of events, subscribers and       *)
(* consumer loops, every retry schedule and any number of faults.          *)
(***************************************************************************)
EXTENDS Delivery, FiniteSetTheorems, TLAPS

\* A busy loop holds a message, and past the journal check it holds a row's.
WorkerShape ==
    \A w \in Workers :
        /\ pc[w] # "idle" => msg[w] \in Msgs
        /\ pc[w] \in {"load", "mark", "incr", "fail", "republish"} => msg[w] \in Rows

TypeInv == TypeOK /\ WorkerShape

\* The initial state is well typed.
LEMMA TypeInit == Init => TypeInv
BY NamesAreDistinct DEF Init, TypeInv, TypeOK, WorkerShape, PCs

\* Routing a message keeps a queue a count per message.
LEMMA RouteType ==
    ASSUME NEW x, NEW q \in [Msgs -> Nat], NEW m \in Msgs
    PROVE  Route(x, q, m) \in [Msgs -> Nat]
BY DEF Route

\* Every step of the API, the broker and the workers keeps the types.
LEMMA TypeStep == TypeInv /\ [Next]_vars => TypeInv'
<1> SUFFICES ASSUME TypeInv, [Next]_vars PROVE TypeInv'
  OBVIOUS
<1> USE NamesAreDistinct DEF TypeInv, TypeOK, WorkerShape, PCs,
        requestVars, journalVars, brokerVars, workerVars, recipientVars
<1>1. ASSUME NEW s \in Subs, ConfirmSubscriber(s) PROVE TypeInv'
  BY <1>1 DEF ConfirmSubscriber
<1>2. ASSUME NEW s \in Subs, DeleteSubscriber(s) PROVE TypeInv'
  BY <1>2 DEF DeleteSubscriber
<1>3. ASSUME NEW e \in Events, Dispatch(e) PROVE TypeInv'
  BY <1>3 DEF Dispatch, Fault, Requests
<1>4. ASSUME NEW c \in Confirms, NEW s \in Subs, SendConfirmation(c, s) PROVE TypeInv'
  BY <1>4 DEF SendConfirmation, Requests
<1>5. ASSUME NEW r \in Requests, NEW s \in Subs, CreateNotification(r, s) PROVE TypeInv'
  <2>1. <<r, s>> \in Rows
    BY DEF Rows
  <2>2. status' \in [Rows -> {"none", "pending", "sent", "failed", "gone"}]
    BY <1>5, <2>1 DEF CreateNotification
  <2>3. cur' \in [Requests -> Subs \cup {None}] /\ faults' \in Nat
    BY <1>5 DEF CreateNotification, Fault
  <2>4. todo' \in [Requests -> SUBSET Subs]
    BY <1>5 DEF CreateNotification
  <2>5. skipped' \in [Requests -> SUBSET Subs]
    BY <1>5 DEF CreateNotification
  <2> QED BY <1>5, <2>2, <2>3, <2>4, <2>5 DEF CreateNotification
<1>6. ASSUME NEW r \in Requests, Publish(r) PROVE TypeInv'
  <2> DEFINE m == <<r, cur[r]>>
             enqueued == Route(ExchangeOf(ChannelOf(m)), queue, m)
  <2>1. m \in Msgs /\ cur[r] \in Subs
    BY <1>6 DEF Publish, Msgs, Rows
  <2>2. enqueued \in [Msgs -> Nat]
    BY <2>1, RouteType
  <2> HIDE DEF enqueued
  <2>3. queue' \in {queue, enqueued}
    BY <1>6 DEF Publish, enqueued
  <2>4. skipped' \in [Requests -> SUBSET Subs] /\ published' \in SUBSET Msgs
    BY <1>6, <2>1 DEF Publish
  <2>5. cur' \in [Requests -> Subs \cup {None}] /\ faults' \in Nat
    BY <1>6 DEF Publish, Fault
  <2> QED BY <1>6, <2>2, <2>3, <2>4, <2>5 DEF Publish
<1>7. ASSUME NEW r \in Requests, FinishDispatch(r) PROVE TypeInv'
  BY <1>7 DEF FinishDispatch
<1>8. ASSUME NEW r \in Requests, CancelRequest(r) PROVE TypeInv'
  BY <1>8 DEF CancelRequest, Fault
<1>9. ASSUME CrashApi PROVE TypeInv'
  BY <1>9 DEF CrashApi, Fault
<1>10. ASSUME NEW l \in Links, SendAccessLink(l) PROVE TypeInv'
  <2>1. l \in Msgs
    BY DEF Msgs
  <2>2. Route("notifications", queue, l) \in [Msgs -> Nat]
    BY <2>1, RouteType
  <2> QED BY <1>10, <2>1, <2>2 DEF SendAccessLink, Fault
<1>11. ASSUME NEW w \in Workers, NEW m \in Msgs, Receive(w, m) PROVE TypeInv'
  BY <1>11 DEF Receive, At, Goto, Msgs
<1>12. ASSUME NEW w \in Workers, Load(w) PROVE TypeInv'
  BY <1>12 DEF Load, At, Goto, Fault
<1>13. ASSUME NEW w \in Workers, Build(w) PROVE TypeInv'
  BY <1>13 DEF Build, At, Goto, Fault
<1>14. ASSUME NEW w \in Workers, Send(w) PROVE TypeInv'
  BY <1>14 DEF Send, At, Goto, Fault, Msgs
<1>15. ASSUME NEW w \in Workers, MarkSent(w) PROVE TypeInv'
  BY <1>15 DEF MarkSent, At, Goto, Fault
<1>16. ASSUME NEW w \in Workers, IncrementAttempts(w) PROVE TypeInv'
  BY <1>16 DEF IncrementAttempts, At, Goto, Fault
<1>17. ASSUME NEW w \in Workers, MarkFailed(w) PROVE TypeInv'
  BY <1>17 DEF MarkFailed, At, Goto, Fault
<1>18. ASSUME NEW w \in Workers, Republish(w) PROVE TypeInv'
  <2>1. Route("delayed.events", delayed, msg[w]) \in [Msgs -> Nat]
    BY <1>18, RouteType DEF Republish, At
  <2> QED BY <1>18, <2>1 DEF Republish, At, Goto, Fault
<1>19. ASSUME NEW w \in Workers, Settle(w) PROVE TypeInv'
  <2>1. msg[w] \in Msgs /\ Route("dlx", dlq, msg[w]) \in [Msgs -> Nat]
    BY <1>19, RouteType DEF Settle
  <2> QED BY <1>19, <2>1 DEF Settle, Goto
<1>20. ASSUME NEW w \in Workers, CrashWorker(w) PROVE TypeInv'
  BY <1>20 DEF CrashWorker, At, Goto, Fault
<1>23. ASSUME NEW w \in Workers, LoseConnection(w) PROVE TypeInv'
  BY <1>23 DEF LoseConnection, At, Fault
<1>24. ASSUME NEW w \in Workers, RestartWorker(w) PROVE TypeInv'
  BY <1>24 DEF RestartWorker, Goto
<1>21. ASSUME NEW m \in Msgs, DelayFires(m) PROVE TypeInv'
  BY <1>21 DEF DelayFires
<1>22. ASSUME UNCHANGED vars PROVE TypeInv'
  BY <1>22 DEF vars
<1> QED
  BY <1>1, <1>2, <1>3, <1>4, <1>5, <1>6, <1>7, <1>8, <1>9, <1>10, <1>11, <1>12,
     <1>13, <1>14, <1>15, <1>16, <1>17, <1>18, <1>19, <1>20, <1>21, <1>22, <1>23, <1>24
     DEF Next, Process

\* Type correctness of the whole pipeline.
THEOREM TypeCorrect == Spec => []TypeOK
<1>1. Spec => []TypeInv
  BY TypeInit, TypeStep, PTL DEF Spec
<1> QED BY <1>1, PTL DEF TypeInv

-----------------------------------------------------------------------------
(* Every copy of a message has a queue to go to.                           *)

\* The channels the exchanges of the topology lead somewhere.
Routed(m) == Deliverable(ChannelOf(m))

\* Subscribers selected for a fan-out, and everything in transit, is on a
\* channel whose queue is bound to every exchange it may pass.
InTransitIsRouted ==
    /\ \A r \in Requests, s \in Subs :
            s \in todo[r] \/ cur[r] = s => Deliverable(Channel[s])
    /\ \A m \in Msgs : queue[m] > 0 \/ delayed[m] > 0 => Routed(m)
    /\ \A w \in Workers : msg[w] # None => Routed(msg[w])

\* On a deliverable channel every exchange really adds a copy: this is where
\* the bindings of DeclareTopology matter, q.webhook.out to delayed.events too.
LEMMA RouteCopies ==
    ASSUME NEW q \in [Msgs -> Nat], NEW m \in Msgs, Routed(m),
           NEW x \in {"delayed.events", "dlx", ExchangeOf(ChannelOf(m))}
    PROVE  Route(x, q, m) = [q EXCEPT ![m] = @ + 1]
BY DEF Route, Routed, Deliverable, IsPush, Bound, ExchangeOf, NotificationChannels

\* Magic links travel on the e-mail channel.
LEMMA LinksAreRouted ==
    ASSUME NEW l \in Links
    PROVE  Routed(l) /\ ExchangeOf(ChannelOf(l)) = "notifications"
BY DEF Routed, Deliverable, IsPush, ChannelOf, ExchangeOf

\* A row's message travels on the channel of its subscriber.
LEMMA RowsAreRouted ==
    ASSUME NEW r \in Requests, NEW s \in Subs
    PROVE  /\ <<r, s>> \in Rows /\ <<r, s>> \in Msgs
           /\ Routed(<<r, s>>) <=> Deliverable(Channel[s])
BY NamesAreDistinct DEF Routed, ChannelOf, Rows, Msgs

\* Nothing is in transit at first.
LEMMA RoutedInit == Init => InTransitIsRouted
BY NamesAreDistinct DEF Init, InTransitIsRouted

\* Only messages on deliverable channels ever enter the broker.
LEMMA RoutedStep == TypeInv /\ InTransitIsRouted /\ [Next]_vars => InTransitIsRouted'
<1> SUFFICES ASSUME TypeInv, InTransitIsRouted, [Next]_vars PROVE InTransitIsRouted'
  OBVIOUS
<1> USE NamesAreDistinct DEF TypeInv, TypeOK, InTransitIsRouted,
        requestVars, journalVars, brokerVars, workerVars, recipientVars
<1>1. ASSUME NEW s \in Subs, ConfirmSubscriber(s) PROVE InTransitIsRouted'
  BY <1>1 DEF ConfirmSubscriber
<1>2. ASSUME NEW s \in Subs, DeleteSubscriber(s) PROVE InTransitIsRouted'
  BY <1>2 DEF DeleteSubscriber
<1>3. ASSUME NEW e \in Events, Dispatch(e) PROVE InTransitIsRouted'
  BY <1>3 DEF Dispatch, Requests
<1>4. ASSUME NEW c \in Confirms, NEW s \in Subs, SendConfirmation(c, s) PROVE InTransitIsRouted'
  BY <1>4 DEF SendConfirmation, Requests, Deliverable, IsPush
<1>5. ASSUME NEW r \in Requests, NEW s \in Subs, CreateNotification(r, s) PROVE InTransitIsRouted'
  BY <1>5 DEF CreateNotification
<1>6. ASSUME NEW r \in Requests, Publish(r) PROVE InTransitIsRouted'
  <2> DEFINE m == <<r, cur[r]>>
  <2>1. cur[r] \in Subs /\ Deliverable(Channel[cur[r]])
    BY <1>6 DEF Publish
  <2>2. m \in Msgs /\ Routed(m)
    BY <2>1, RowsAreRouted
  <2>3. Route(ExchangeOf(ChannelOf(m)), queue, m) = [queue EXCEPT ![m] = @ + 1]
    BY <2>2, RouteCopies
  <2> HIDE DEF m
  <2>4. queue' \in {queue, [queue EXCEPT ![m] = @ + 1]}
    BY <1>6, <2>3 DEF Publish, m
  <2> QED BY <1>6, <2>2, <2>4 DEF Publish
<1>7. ASSUME NEW r \in Requests, FinishDispatch(r) PROVE InTransitIsRouted'
  BY <1>7 DEF FinishDispatch
<1>8. ASSUME NEW r \in Requests, CancelRequest(r) PROVE InTransitIsRouted'
  BY <1>8 DEF CancelRequest
<1>9. ASSUME CrashApi PROVE InTransitIsRouted'
  BY <1>9 DEF CrashApi
<1>10. ASSUME NEW l \in Links, SendAccessLink(l) PROVE InTransitIsRouted'
  <2>1. l \in Msgs /\ Routed(l)
    BY LinksAreRouted DEF Msgs
  <2>2. Route("notifications", queue, l) = [queue EXCEPT ![l] = @ + 1]
    BY <2>1, LinksAreRouted, RouteCopies
  <2> QED BY <1>10, <2>1, <2>2 DEF SendAccessLink
<1>11. ASSUME NEW w \in Workers, NEW m \in Msgs, Receive(w, m) PROVE InTransitIsRouted'
  BY <1>11 DEF Receive, At, Goto
<1>12. ASSUME NEW w \in Workers, Load(w) PROVE InTransitIsRouted'
  BY <1>12 DEF Load, At, Goto
<1>13. ASSUME NEW w \in Workers, Build(w) PROVE InTransitIsRouted'
  BY <1>13 DEF Build, At, Goto
<1>14. ASSUME NEW w \in Workers, Send(w) PROVE InTransitIsRouted'
  BY <1>14 DEF Send, At, Goto
<1>15. ASSUME NEW w \in Workers, MarkSent(w) PROVE InTransitIsRouted'
  BY <1>15 DEF MarkSent, At, Goto
<1>16. ASSUME NEW w \in Workers, IncrementAttempts(w) PROVE InTransitIsRouted'
  BY <1>16 DEF IncrementAttempts, At, Goto
<1>17. ASSUME NEW w \in Workers, MarkFailed(w) PROVE InTransitIsRouted'
  BY <1>17 DEF MarkFailed, At, Goto
<1>18. ASSUME NEW w \in Workers, Republish(w) PROVE InTransitIsRouted'
  <2>1. msg[w] \in Msgs /\ Routed(msg[w])
    BY <1>18 DEF Republish, At, TypeInv, WorkerShape
  <2>2. Route("delayed.events", delayed, msg[w]) = [delayed EXCEPT ![msg[w]] = @ + 1]
    BY <2>1, RouteCopies
  <2> QED BY <1>18, <2>1, <2>2 DEF Republish
<1>19. ASSUME NEW w \in Workers, Settle(w) PROVE InTransitIsRouted'
  BY <1>19 DEF Settle, TypeInv, WorkerShape
<1>20. ASSUME NEW w \in Workers, CrashWorker(w) PROVE InTransitIsRouted'
  BY <1>20 DEF CrashWorker, At, TypeInv, WorkerShape
<1>23. ASSUME NEW w \in Workers, LoseConnection(w) PROVE InTransitIsRouted'
  BY <1>23 DEF LoseConnection, At, WorkerShape
<1>24. ASSUME NEW w \in Workers, RestartWorker(w) PROVE InTransitIsRouted'
  BY <1>24 DEF RestartWorker
<1>21. ASSUME NEW m \in Msgs, DelayFires(m) PROVE InTransitIsRouted'
  BY <1>21 DEF DelayFires
<1>22. ASSUME UNCHANGED vars PROVE InTransitIsRouted'
  BY <1>22 DEF vars
<1> QED
  BY <1>1, <1>2, <1>3, <1>4, <1>5, <1>6, <1>7, <1>8, <1>9, <1>10, <1>11, <1>12, <1>13, <1>14, <1>15, <1>16, <1>17, <1>18, <1>19, <1>20, <1>21, <1>22, <1>23, <1>24
     DEF Next, Process
-----------------------------------------------------------------------------
(* What the journal says is true.                                          *)

\* The invariants about the journal, with what makes them inductive: a loop
\* that is about to record an outcome already has the evidence for it.
JournalInv ==
    /\ SentMeansDelivered
    /\ FailedMeansExhausted
    /\ UnsubscribedStaysQuiet
    /\ \A w \in Workers : pc[w] = "mark" => delivered[msg[w]] > 0
    /\ \A w \in Workers : pc[w] = "fail" => attempts[msg[w]] > MaxAttempts

\* The journal starts empty.
LEMMA JournalInit == Init => JournalInv
BY DEF Init, JournalInv, SentMeansDelivered, FailedMeansExhausted,
       UnsubscribedStaysQuiet

\* No step records an outcome without its evidence.
LEMMA JournalStep == TypeInv /\ JournalInv /\ [Next]_vars => JournalInv'
<1> SUFFICES ASSUME TypeInv, JournalInv, [Next]_vars PROVE JournalInv'
  OBVIOUS
<1> USE NamesAreDistinct DEF TypeInv, TypeOK, WorkerShape, JournalInv,
        SentMeansDelivered, FailedMeansExhausted, UnsubscribedStaysQuiet,
        requestVars, journalVars, brokerVars, workerVars, recipientVars
<1>1. ASSUME NEW s \in Subs, ConfirmSubscriber(s) PROVE JournalInv'
  BY <1>1 DEF ConfirmSubscriber
<1>2. ASSUME NEW s \in Subs, DeleteSubscriber(s) PROVE JournalInv'
  BY <1>2 DEF DeleteSubscriber
<1>3. ASSUME NEW e \in Events, Dispatch(e) PROVE JournalInv'
  BY <1>3 DEF Dispatch
<1>4. ASSUME NEW c \in Confirms, NEW s \in Subs, SendConfirmation(c, s) PROVE JournalInv'
  BY <1>4 DEF SendConfirmation
<1>5. ASSUME NEW r \in Requests, NEW s \in Subs, CreateNotification(r, s) PROVE JournalInv'
  <2>1. <<r, s>> \in Rows
    BY DEF Rows
  <2>2. \A n \in Rows : status'[n] \in {status[n], "pending"}
    BY <1>5, <2>1 DEF CreateNotification
  <2>3. UNCHANGED <<attempts, delivered, pc, msg, excused>>
    BY <1>5 DEF CreateNotification
  <2> QED BY <2>2, <2>3
<1>6. ASSUME NEW r \in Requests, Publish(r) PROVE JournalInv'
  BY <1>6 DEF Publish
<1>7. ASSUME NEW r \in Requests, FinishDispatch(r) PROVE JournalInv'
  BY <1>7 DEF FinishDispatch
<1>8. ASSUME NEW r \in Requests, CancelRequest(r) PROVE JournalInv'
  BY <1>8 DEF CancelRequest
<1>9. ASSUME CrashApi PROVE JournalInv'
  BY <1>9 DEF CrashApi
<1>10. ASSUME NEW l \in Links, SendAccessLink(l) PROVE JournalInv'
  BY <1>10 DEF SendAccessLink
<1>11. ASSUME NEW w \in Workers, NEW m \in Msgs, Receive(w, m) PROVE JournalInv'
  BY <1>11 DEF Receive, At, Goto
<1>12. ASSUME NEW w \in Workers, Load(w) PROVE JournalInv'
  BY <1>12 DEF Load, At, Goto
<1>13. ASSUME NEW w \in Workers, Build(w) PROVE JournalInv'
  BY <1>13 DEF Build, At, Goto
<1>14. ASSUME NEW w \in Workers, Send(w) PROVE JournalInv'
  <2>1. msg[w] \in Msgs
    BY <1>14 DEF Send, At
  <2>2. \A m \in Msgs : delivered'[m] >= delivered[m]
    BY <1>14, <2>1 DEF Send
  <2>3. pc'[w] = "mark" => delivered'[msg[w]] > 0
    BY <1>14, <2>1 DEF Send, Goto
  <2>4. /\ pc' = [pc EXCEPT ![w] = pc'[w]]
        /\ pc'[w] \notin {"build", "send", "fail"}
    BY <1>14 DEF Send, Goto
  <2>5. \A n \in Rows : n \in Msgs
    BY DEF Msgs
  <2>6. UNCHANGED <<status, attempts, msg>> /\ excused' = excused \ {w}
    BY <1>14 DEF Send
  <2>7. SentMeansDelivered'
    <3> SUFFICES ASSUME NEW n \in Rows, status[n] = "sent" PROVE delivered'[n] > 0
      BY <2>6
    <3>1. delivered[n] > 0 /\ delivered'[n] >= delivered[n] /\ delivered'[n] \in Nat
      BY <2>1, <2>2, <2>5, <1>14 DEF Send
    <3> QED BY <2>5, <3>1
  <2>8. \A v \in Workers : pc'[v] = "mark" => delivered'[msg'[v]] > 0
    <3> SUFFICES ASSUME NEW v \in Workers, v # w, pc'[v] = "mark"
                 PROVE  delivered'[msg[v]] > 0
      BY <2>3, <2>6
    <3>1. msg[v] \in Msgs /\ delivered[msg[v]] > 0
      BY <2>4
    <3>2. delivered'[msg[v]] >= delivered[msg[v]] /\ delivered'[msg[v]] \in Nat
      BY <2>1, <2>2, <3>1, <1>14 DEF Send
    <3> QED BY <3>1, <3>2
  <2> QED BY <2>4, <2>6, <2>7, <2>8
<1>15. ASSUME NEW w \in Workers, MarkSent(w) PROVE JournalInv'
  BY <1>15 DEF MarkSent, At, Goto
<1>16. ASSUME NEW w \in Workers, IncrementAttempts(w) PROVE JournalInv'
  <2>2. pc'[w] = "fail" => attempts'[msg[w]] > MaxAttempts
    BY <1>16, AttemptsAreCounted DEF IncrementAttempts, At, Goto, RetryAllowed
  <2>3. pc' = [pc EXCEPT ![w] = pc'[w]] /\ pc'[w] \in {"republish", "fail", "requeue"}
    BY <1>16 DEF IncrementAttempts, Goto
  <2>4. UNCHANGED <<status, delivered, msg, excused>>
    BY <1>16 DEF IncrementAttempts
  <2>5. \A n \in Rows : attempts[n] > MaxAttempts => attempts'[n] > MaxAttempts
    BY <1>16, AttemptsAreCounted DEF IncrementAttempts, At
  <2>6. \A v \in Workers : pc'[v] = "fail" => attempts'[msg'[v]] > MaxAttempts
    BY <2>2, <2>3, <2>4, <2>5
  <2> QED BY <2>3, <2>4, <2>5, <2>6
<1>17. ASSUME NEW w \in Workers, MarkFailed(w) PROVE JournalInv'
  BY <1>17 DEF MarkFailed, At, Goto
<1>18. ASSUME NEW w \in Workers, Republish(w) PROVE JournalInv'
  BY <1>18 DEF Republish, At, Goto
<1>19. ASSUME NEW w \in Workers, Settle(w) PROVE JournalInv'
  BY <1>19 DEF Settle, Goto
<1>20. ASSUME NEW w \in Workers, CrashWorker(w) PROVE JournalInv'
  BY <1>20 DEF CrashWorker, At, Goto
<1>23. ASSUME NEW w \in Workers, LoseConnection(w) PROVE JournalInv'
  BY <1>23 DEF LoseConnection, At
<1>24. ASSUME NEW w \in Workers, RestartWorker(w) PROVE JournalInv'
  BY <1>24 DEF RestartWorker, Goto
<1>21. ASSUME NEW m \in Msgs, DelayFires(m) PROVE JournalInv'
  BY <1>21 DEF DelayFires
<1>22. ASSUME UNCHANGED vars PROVE JournalInv'
  BY <1>22 DEF vars
<1> QED
  BY <1>1, <1>2, <1>3, <1>4, <1>5, <1>6, <1>7, <1>8, <1>9, <1>10, <1>11,
     <1>12, <1>13, <1>14, <1>15, <1>16, <1>17, <1>18, <1>19, <1>20, <1>21,
     <1>22, <1>23, <1>24
     DEF Next, Process
-----------------------------------------------------------------------------
(* The fan-out reaches everybody it selected.                              *)

\* While the loop runs, a selected subscriber is still to do, is the one
\* whose row awaits publication, or has been dealt with.
FanOutInv ==
    \A r \in Requests :
        /\ request[r] = "idle" => listed[r] = {}
        /\ request[r] \in {"running", "cancelled", "done"} =>
             \A s \in listed[r] :
                 \/ s \in todo[r] /\ request[r] # "done"
                 \/ s = cur[r] /\ request[r] # "done"
                 \/ <<r, s>> \in published
                 \/ s \in skipped[r]

\* No request has selected anybody yet.
LEMMA FanOutInit == Init => FanOutInv
BY DEF Init, FanOutInv, Requests

\* The loop of dispatch drops nobody on the way.
LEMMA FanOutStep == TypeInv /\ FanOutInv /\ [Next]_vars => FanOutInv'
<1> SUFFICES ASSUME TypeInv, FanOutInv, [Next]_vars PROVE FanOutInv'
  OBVIOUS
<1> USE NamesAreDistinct DEF TypeInv, TypeOK, FanOutInv, requestVars
<1>1. ASSUME NEW e \in Events, Dispatch(e) PROVE FanOutInv'
  BY <1>1 DEF Dispatch, Requests
<1>2. ASSUME NEW c \in Confirms, NEW s \in Subs, SendConfirmation(c, s) PROVE FanOutInv'
  BY <1>2 DEF SendConfirmation, Requests
<1>3. ASSUME NEW r \in Requests, NEW s \in Subs, CreateNotification(r, s) PROVE FanOutInv'
  BY <1>3 DEF CreateNotification, Alive
<1>4. ASSUME NEW r \in Requests, Publish(r) PROVE FanOutInv'
  <2>1. <<r, cur[r]>> \in published' \/ cur[r] \in skipped'[r]
    BY <1>4 DEF Publish
  <2>2. /\ published \subseteq published'
        /\ \A q \in Requests : skipped[q] \subseteq skipped'[q]
    BY <1>4 DEF Publish
  <2>3. UNCHANGED <<request, todo, listed>> /\ cur' = [cur EXCEPT ![r] = None]
    BY <1>4 DEF Publish
  <2> QED BY <2>1, <2>2, <2>3
<1>5. ASSUME NEW r \in Requests, FinishDispatch(r) PROVE FanOutInv'
  BY <1>5 DEF FinishDispatch, Alive
<1>6. ASSUME NEW r \in Requests, CancelRequest(r) PROVE FanOutInv'
  BY <1>6 DEF CancelRequest
<1>7. ASSUME CrashApi PROVE FanOutInv'
  BY <1>7 DEF CrashApi, Alive
<1>8. ASSUME NEW l \in Links, SendAccessLink(l) PROVE FanOutInv'
  BY <1>8 DEF SendAccessLink
<1>9. ASSUME UNCHANGED requestVars PROVE FanOutInv'
  BY <1>9
<1>10. ASSUME NEW w \in Workers, Process(w) PROVE UNCHANGED requestVars
  BY <1>10 DEF Process, Load, Build, Send, MarkSent, IncrementAttempts, MarkFailed,
               Republish, Settle
<1>11. ASSUME NEW w \in Workers, CrashWorker(w) \/ LoseConnection(w) \/ RestartWorker(w)
       PROVE  UNCHANGED requestVars
  BY <1>11 DEF CrashWorker, LoseConnection, RestartWorker
<1>15. ASSUME NEW w \in Workers, NEW m \in Msgs, Receive(w, m) PROVE UNCHANGED requestVars
  BY <1>15 DEF Receive
<1>12. ASSUME NEW m \in Msgs, DelayFires(m) PROVE UNCHANGED requestVars
  BY <1>12 DEF DelayFires
<1>13. ASSUME NEW s \in Subs, ConfirmSubscriber(s) \/ DeleteSubscriber(s)
       PROVE  UNCHANGED requestVars
  BY <1>13 DEF ConfirmSubscriber, DeleteSubscriber
<1>14. ASSUME UNCHANGED vars PROVE UNCHANGED requestVars
  BY <1>14 DEF vars
<1> QED
  BY <1>1, <1>2, <1>3, <1>4, <1>5, <1>6, <1>7, <1>8, <1>9, <1>10, <1>11, <1>12,
     <1>13, <1>14, <1>15 DEF Next

-----------------------------------------------------------------------------
(* No confirmed publication is lost.                                       *)

\* A row is published only after its insert committed, and inserted once.
RowBeforeMessage ==
    /\ \A n \in Rows : n \in published => status[n] # "none"
    /\ \A r \in Requests :
        /\ cur[r] # None => status[<<r, cur[r]>>] # "none" /\ cur[r] \notin todo[r]
        /\ \A s \in todo[r] : <<r, s>> \notin published
        /\ request[r] = "idle" =>
             cur[r] = None /\ \A s \in Subs : <<r, s>> \notin published

\* No row, no message.
LEMMA RowInit == Init => RowBeforeMessage
BY DEF Init, RowBeforeMessage

\* dispatch and SendConfirmation insert the row before they publish it.
LEMMA RowStep == TypeInv /\ RowBeforeMessage /\ [Next]_vars => RowBeforeMessage'
<1> SUFFICES ASSUME TypeInv, RowBeforeMessage, [Next]_vars PROVE RowBeforeMessage'
  OBVIOUS
<1> USE NamesAreDistinct DEF TypeInv, TypeOK, RowBeforeMessage,
        requestVars, journalVars, brokerVars, workerVars, recipientVars
<1>1. ASSUME NEW s \in Subs, ConfirmSubscriber(s) PROVE RowBeforeMessage'
  BY <1>1 DEF ConfirmSubscriber
<1>2. ASSUME NEW s \in Subs, DeleteSubscriber(s) PROVE RowBeforeMessage'
  <2>1. \A r \in Requests : cur[r] # None => <<r, cur[r]>> \in Rows
    BY DEF Rows
  <2>2. \A n \in Rows : status[n] # "none" => status'[n] # "none"
    BY <1>2 DEF DeleteSubscriber
  <2> QED BY <1>2, <2>1, <2>2 DEF DeleteSubscriber
<1>3. ASSUME NEW e \in Events, Dispatch(e) PROVE RowBeforeMessage'
  BY <1>3 DEF Dispatch, Requests
<1>4. ASSUME NEW c \in Confirms, NEW s \in Subs, SendConfirmation(c, s) PROVE RowBeforeMessage'
  BY <1>4 DEF SendConfirmation, Requests
<1>5. ASSUME NEW r \in Requests, NEW s \in Subs, CreateNotification(r, s) PROVE RowBeforeMessage'
  <2>1. <<r, s>> \in Rows
    BY DEF Rows
  <2>2. \A n \in Rows : status[n] # "none" => status'[n] # "none"
    BY <1>5, <2>1 DEF CreateNotification
  <2>3. \A q \in Requests : cur[q] # None => <<q, cur[q]>> \in Rows
    BY DEF Rows
  <2>4. \/ cur' = cur
        \/ cur' = [cur EXCEPT ![r] = s] /\ status'[<<r, s>>] # "none"
    BY <1>5, <2>1 DEF CreateNotification
  <2>5. UNCHANGED <<published, request>> /\ todo' = [todo EXCEPT ![r] = @ \ {s}]
    BY <1>5 DEF CreateNotification
  <2>6. request[r] # "idle"
    BY <1>5 DEF CreateNotification, Alive
  <2> QED BY <2>2, <2>3, <2>4, <2>5, <2>6
<1>6. ASSUME NEW r \in Requests, Publish(r) PROVE RowBeforeMessage'
  <2>1. UNCHANGED <<status, request, todo>> /\ cur' = [cur EXCEPT ![r] = None]
    BY <1>6 DEF Publish
  <2>2. published' \in {published, published \cup {<<r, cur[r]>>}} /\ cur[r] # None
    BY <1>6 DEF Publish
  <2>3. request[r] # "idle" /\ cur[r] \in Subs
    BY <1>6 DEF Publish, Alive
  <2> QED BY <2>1, <2>2, <2>3 DEF Rows
<1>7. ASSUME NEW r \in Requests, FinishDispatch(r) PROVE RowBeforeMessage'
  BY <1>7 DEF FinishDispatch, Alive
<1>8. ASSUME NEW r \in Requests, CancelRequest(r) PROVE RowBeforeMessage'
  BY <1>8 DEF CancelRequest
<1>9. ASSUME CrashApi PROVE RowBeforeMessage'
  BY <1>9 DEF CrashApi, Alive
<1>10. ASSUME NEW l \in Links, SendAccessLink(l) PROVE RowBeforeMessage'
  <2>1. \A r \in Requests, s \in Subs : <<r, s>> # l
    BY DEF Rows
  <2>2. published' \in {published, published \cup {l}} /\ \A n \in Rows : n # l
    BY <1>10 DEF SendAccessLink
  <2>3. UNCHANGED <<status, todo, cur>> /\ \A r \in Requests : request'[r] = request[r]
    BY <1>10 DEF SendAccessLink
  <2> QED BY <2>1, <2>2, <2>3
<1>11. ASSUME NEW w \in Workers, NEW m \in Msgs, Receive(w, m) PROVE RowBeforeMessage'
  BY <1>11 DEF Receive, At, Goto
<1>12. ASSUME NEW w \in Workers, Load(w) PROVE RowBeforeMessage'
  BY <1>12 DEF Load, At, Goto
<1>13. ASSUME NEW w \in Workers, Build(w) PROVE RowBeforeMessage'
  BY <1>13 DEF Build, At, Goto
<1>14. ASSUME NEW w \in Workers, Send(w) PROVE RowBeforeMessage'
  BY <1>14 DEF Send, At, Goto
<1>15. ASSUME NEW w \in Workers, MarkSent(w) PROVE RowBeforeMessage'
  <2>1. \A r \in Requests : cur[r] # None => <<r, cur[r]>> \in Rows
    BY DEF Rows
  <2>2. \A n \in Rows : status[n] # "none" => status'[n] # "none"
    BY <1>15 DEF MarkSent
  <2> QED BY <1>15, <2>1, <2>2 DEF MarkSent
<1>16. ASSUME NEW w \in Workers, IncrementAttempts(w) PROVE RowBeforeMessage'
  BY <1>16 DEF IncrementAttempts, At, Goto
<1>17. ASSUME NEW w \in Workers, MarkFailed(w) PROVE RowBeforeMessage'
  <2>1. \A r \in Requests : cur[r] # None => <<r, cur[r]>> \in Rows
    BY DEF Rows
  <2>2. \A n \in Rows : status[n] # "none" => status'[n] # "none"
    BY <1>17 DEF MarkFailed
  <2> QED BY <1>17, <2>1, <2>2 DEF MarkFailed
<1>18. ASSUME NEW w \in Workers, Republish(w) PROVE RowBeforeMessage'
  BY <1>18 DEF Republish, At, Goto
<1>19. ASSUME NEW w \in Workers, Settle(w) PROVE RowBeforeMessage'
  BY <1>19 DEF Settle, Goto
<1>20. ASSUME NEW w \in Workers, CrashWorker(w) PROVE RowBeforeMessage'
  BY <1>20 DEF CrashWorker, At, Goto
<1>23. ASSUME NEW w \in Workers, LoseConnection(w) PROVE RowBeforeMessage'
  BY <1>23 DEF LoseConnection
<1>24. ASSUME NEW w \in Workers, RestartWorker(w) PROVE RowBeforeMessage'
  BY <1>24 DEF RestartWorker
<1>21. ASSUME NEW m \in Msgs, DelayFires(m) PROVE RowBeforeMessage'
  BY <1>21 DEF DelayFires
<1>22. ASSUME UNCHANGED vars PROVE RowBeforeMessage'
  BY <1>22 DEF vars
<1> QED
  BY <1>1, <1>2, <1>3, <1>4, <1>5, <1>6, <1>7, <1>8, <1>9, <1>10, <1>11,
     <1>12, <1>13, <1>14, <1>15, <1>16, <1>17, <1>18, <1>19, <1>20, <1>21,
     <1>22, <1>23, <1>24
     DEF Next, Process

\* Where a message stands when no copy of it is left.
Recorded(m) == Settled(m) \/ Overwritten(m)

\* NeverLost, for one message.
Safe(m) ==
    \/ Recorded(m)
    \/ queue[m] > 0 \/ delayed[m] > 0 \/ dlq[m] > 0
    \/ m \in dropped
    \/ \E w \in Workers : Holds(w, m)

\* A message stays safe when no copy of it is taken away, no loop lets it go
\* and its journal row does not change for the worse.
LEMMA StaysSafe ==
    ASSUME TypeOK, TypeOK', NEW m \in Msgs, Safe(m),
           queue'[m] >= queue[m], delayed'[m] >= delayed[m], dlq'[m] >= dlq[m],
           m \in dropped => m \in dropped',
           Recorded(m) => Recorded(m)',
           \A w \in Workers : Holds(w, m) => Holds(w, m)'
    PROVE  Safe(m)'
<1> USE DEF TypeOK
<1>1. CASE queue[m] > 0 \/ delayed[m] > 0 \/ dlq[m] > 0
  <2>1. /\ queue[m] \in Nat /\ delayed[m] \in Nat /\ dlq[m] \in Nat
        /\ queue'[m] \in Nat /\ delayed'[m] \in Nat /\ dlq'[m] \in Nat
    OBVIOUS
  <2>2. queue'[m] > 0 \/ delayed'[m] > 0 \/ dlq'[m] > 0
    BY <1>1, <2>1
  <2> QED BY <2>2 DEF Safe
<1>2. CASE ~(queue[m] > 0 \/ delayed[m] > 0 \/ dlq[m] > 0)
  BY <1>2 DEF Safe
<1> QED BY <1>1, <1>2

\* Nothing is published at first.
LEMMA LostInit == Init => NeverLost
BY DEF Init, NeverLost

\* No step of any process loses a published message.
LEMMA LostStep ==
    TypeInv /\ TypeInv' /\ InTransitIsRouted /\ JournalInv /\ RowBeforeMessage
    /\ NeverLost /\ [Next]_vars => NeverLost'
<1> SUFFICES ASSUME TypeInv, TypeInv', InTransitIsRouted, JournalInv,
                    RowBeforeMessage, NeverLost, [Next]_vars
             PROVE  NeverLost'
  OBVIOUS
<1> USE NamesAreDistinct DEF TypeInv, TypeOK, WorkerShape,
        requestVars, journalVars, brokerVars, workerVars, recipientVars
<1>1. ASSUME NEW s \in Subs, ConfirmSubscriber(s) PROVE NeverLost'
  BY <1>1 DEF ConfirmSubscriber, NeverLost, Settled, Overwritten, Holds
<1>2. ASSUME NEW s \in Subs, DeleteSubscriber(s) PROVE NeverLost'
  <2> SUFFICES ASSUME NEW m \in published PROVE Safe(m)'
    BY <1>2 DEF DeleteSubscriber, NeverLost, Safe, Recorded
  <2>1. Recorded(m) => Recorded(m)'
    <3>1. CASE m \in Links
      BY <1>2, <3>1 DEF DeleteSubscriber, Recorded, Settled, Overwritten
    <3>2. CASE m \notin Links
      <4>1. m \in Rows
        BY <3>2 DEF Msgs
      <4> QED BY <1>2, <3>2, <4>1 DEF DeleteSubscriber, Recorded, Settled, Overwritten
    <3> QED BY <3>1, <3>2
  <2>2. Safe(m) /\ m \in Msgs
    BY DEF NeverLost, Safe, Recorded
  <2>3. UNCHANGED <<queue, delayed, dlq, pc, msg, connected, dropped>>
    BY <1>2 DEF DeleteSubscriber
  <2>4. /\ queue'[m] >= queue[m] /\ delayed'[m] >= delayed[m]
        /\ dlq'[m] >= dlq[m] /\ TypeOK /\ TypeOK'
    BY <2>2, <2>3
  <2>5. \A w \in Workers : Holds(w, m) => Holds(w, m)'
    BY <2>3 DEF Holds
  <2> QED BY <2>1, <2>2, <2>3, <2>4, <2>5, StaysSafe
<1>3. ASSUME NEW e \in Events, Dispatch(e) PROVE NeverLost'
  BY <1>3 DEF Dispatch, NeverLost, Settled, Overwritten, Holds
<1>4. ASSUME NEW c \in Confirms, NEW s \in Subs, SendConfirmation(c, s) PROVE NeverLost'
  BY <1>4 DEF SendConfirmation, NeverLost, Settled, Overwritten, Holds
<1>5. ASSUME NEW r \in Requests, NEW s \in Subs, CreateNotification(r, s) PROVE NeverLost'
  <2> SUFFICES ASSUME NEW m \in published PROVE Safe(m)'
    BY <1>5 DEF CreateNotification, NeverLost, Safe, Recorded
  <2>1. m # <<r, s>> /\ <<r, s>> \in Rows
    <3>1. <<r, s>> \notin published
      BY <1>5 DEF CreateNotification, RowBeforeMessage
    <3> QED BY <3>1 DEF Rows
  <2>2. Recorded(m) => Recorded(m)'
    <3>1. CASE m \in Links
      BY <1>5, <3>1 DEF CreateNotification, Recorded, Settled, Overwritten
    <3>2. CASE m \notin Links
      <4>1. m \in Rows
        BY <3>2 DEF Msgs
      <4>2. status'[m] = status[m]
        BY <1>5, <2>1, <4>1 DEF CreateNotification
      <4> QED BY <1>5, <3>2, <4>2 DEF CreateNotification, Recorded, Settled, Overwritten
    <3> QED BY <3>1, <3>2
  <2>3. Safe(m) /\ m \in Msgs
    BY DEF NeverLost, Safe, Recorded
  <2> QED BY <1>5, <2>2, <2>3, StaysSafe DEF CreateNotification, Holds
<1>6. ASSUME NEW r \in Requests, Publish(r) PROVE NeverLost'
  <2> DEFINE x == <<r, cur[r]>>
  <2>1. cur[r] \in Subs /\ Deliverable(Channel[cur[r]])
    BY <1>6 DEF Publish, InTransitIsRouted
  <2>2. x \in Msgs /\ Routed(x)
    BY <2>1, RowsAreRouted
  <2>3. Route(ExchangeOf(ChannelOf(x)), queue, x) = [queue EXCEPT ![x] = @ + 1]
    BY <2>2, RouteCopies
  <2> HIDE DEF x
  <2>4. /\ queue' \in {queue, [queue EXCEPT ![x] = @ + 1]}
        /\ published' \in {published, published \cup {x}}
        /\ x \in published' => x \in published \/ queue' = [queue EXCEPT ![x] = @ + 1]
    BY <1>6, <2>3 DEF Publish, x
  <2>5. UNCHANGED <<status, delayed, dlq, pc, msg, connected, delivered, dropped>>
    BY <1>6 DEF Publish
  <2> SUFFICES ASSUME NEW m \in published' PROVE Safe(m)'
    BY DEF NeverLost, Safe, Recorded
  <2>6. CASE m \in published
    <3>1. Safe(m) /\ m \in Msgs
      BY <2>6 DEF NeverLost, Safe, Recorded
    <3>2. queue'[m] >= queue[m]
      BY <2>2, <2>4, <3>1
    <3>3. delayed'[m] >= delayed[m] /\ dlq'[m] >= dlq[m] /\ TypeOK /\ TypeOK'
      BY <2>5, <3>1
    <3>4. /\ Recorded(m) => Recorded(m)'
          /\ \A w \in Workers : Holds(w, m) => Holds(w, m)'
      BY <2>5, <3>1 DEF Recorded, Settled, Overwritten, Holds
    <3> QED BY <2>5, <3>1, <3>2, <3>3, <3>4, StaysSafe
  <2>7. CASE m \notin published
    <3>1. m = x /\ queue'[m] > 0
      BY <2>2, <2>4, <2>7
    <3> QED BY <3>1 DEF Safe
  <2> QED BY <2>6, <2>7
<1>7. ASSUME NEW r \in Requests, FinishDispatch(r) PROVE NeverLost'
  BY <1>7 DEF FinishDispatch, NeverLost, Settled, Overwritten, Holds
<1>8. ASSUME NEW r \in Requests, CancelRequest(r) PROVE NeverLost'
  BY <1>8 DEF CancelRequest, NeverLost, Settled, Overwritten, Holds
<1>9. ASSUME CrashApi PROVE NeverLost'
  BY <1>9 DEF CrashApi, NeverLost, Settled, Overwritten, Holds
<1>10. ASSUME NEW l \in Links, SendAccessLink(l) PROVE NeverLost'
  <2>1. l \in Msgs /\ Routed(l)
    BY LinksAreRouted DEF Msgs
  <2>2. Route("notifications", queue, l) = [queue EXCEPT ![l] = @ + 1]
    <3>1. queue \in [Msgs -> Nat] /\ ExchangeOf(ChannelOf(l)) = "notifications"
      BY LinksAreRouted
    <3> HIDE DEF TypeInv, TypeOK
    <3> QED BY <2>1, <3>1, RouteCopies
  <2>3. /\ queue' \in {queue, [queue EXCEPT ![l] = @ + 1]}
        /\ published' \in {published, published \cup {l}}
        /\ l \in published' => l \in published \/ queue' = [queue EXCEPT ![l] = @ + 1]
    BY <1>10, <2>2 DEF SendAccessLink
  <2>4. UNCHANGED <<status, delayed, dlq, pc, msg, connected, delivered, dropped>>
    BY <1>10 DEF SendAccessLink
  <2> SUFFICES ASSUME NEW m \in published' PROVE Safe(m)'
    BY DEF NeverLost, Safe, Recorded
  <2>5. CASE m \in published
    <3>1. Safe(m) /\ m \in Msgs
      BY <2>5 DEF NeverLost, Safe, Recorded
    <3>4. queue'[m] >= queue[m]
      BY <2>1, <2>3, <3>1
    <3>2. delayed'[m] >= delayed[m] /\ dlq'[m] >= dlq[m] /\ TypeOK /\ TypeOK'
      BY <2>4, <3>1
    <3>3. /\ Recorded(m) => Recorded(m)'
          /\ \A w \in Workers : Holds(w, m) => Holds(w, m)'
      BY <2>4 DEF Recorded, Settled, Overwritten, Holds
    <3> QED BY <2>4, <3>1, <3>2, <3>3, <3>4, StaysSafe
  <2>6. CASE m \notin published
    <3>1. m = l /\ queue'[m] > 0
      BY <2>1, <2>3, <2>6
    <3> QED BY <3>1 DEF Safe
  <2> QED BY <2>5, <2>6
<1>11. ASSUME NEW w \in Workers, NEW m \in Msgs, Receive(w, m) PROVE NeverLost'
  <2> SUFFICES ASSUME NEW x \in published PROVE Safe(x)'
    BY <1>11 DEF Receive, NeverLost, Safe, Recorded
  <2>1. x \in Msgs /\ Safe(x)
    BY DEF NeverLost, Safe, Recorded
  <2>2. CASE x = m
    BY <1>11, <2>2 DEF Receive, At, Goto, Safe, Holds
  <2>3. CASE x # m
    <3>1. \A v \in Workers : Holds(v, x) => Holds(v, x)'
      BY <1>11 DEF Receive, At, Holds, Goto
    <3>2. (Recorded(x) => Recorded(x)') /\ UNCHANGED dropped
      BY <1>11 DEF Receive, Recorded, Settled, Overwritten
    <3>3. /\ queue'[x] >= queue[x] /\ delayed'[x] >= delayed[x]
          /\ dlq'[x] >= dlq[x] /\ TypeOK /\ TypeOK'
      BY <1>11, <2>1, <2>3 DEF Receive
    <3> QED BY <2>1, <3>1, <3>2, <3>3, StaysSafe
  <2> QED BY <2>2, <2>3
<1>12. ASSUME NEW w \in Workers, Load(w) PROVE NeverLost'
  <2> SUFFICES ASSUME NEW m \in published PROVE Safe(m)'
    BY <1>12 DEF Load, NeverLost, Safe, Recorded
  <2>1. m \in Msgs /\ Safe(m)
    BY DEF NeverLost, Safe, Recorded
  <2>2. CASE m = msg[w] /\ w \in connected
    <3>1. CASE pc'[w] = "ack"
      <4>1. m \in Rows /\ m \notin Links /\ status[m] \in {"gone", "sent"}
        BY <1>12, <2>2, <3>1 DEF Load, At, Goto, RowBeforeMessage, Fault
      <4> QED BY <1>12, <4>1 DEF Load, Safe, Recorded, Settled
    <3>2. CASE pc'[w] # "ack"
      BY <1>12, <2>2, <3>2 DEF Load, At, Goto, Safe, Holds
    <3> QED BY <3>1, <3>2
  <2>3. CASE ~(m = msg[w] /\ w \in connected)
    <3>1. Recorded(m) => Recorded(m)'
      BY <1>12, <2>1, <2>3 DEF Load, At, Recorded, Settled, Overwritten, Msgs
    <3>2. queue'[m] >= queue[m] /\ delayed'[m] >= delayed[m] /\ dlq'[m] >= dlq[m]
      BY <1>12, <2>1, <2>3 DEF Load, At
    <3>3. /\ \A v \in Workers : Holds(v, m) => Holds(v, m)'
          /\ m \in dropped => m \in dropped'
      BY <1>12, <2>3 DEF Load, Holds, Goto
    <3> QED BY <2>1, <3>1, <3>2, <3>3, StaysSafe
  <2> QED BY <2>2, <2>3
<1>13. ASSUME NEW w \in Workers, Build(w) PROVE NeverLost'
  <2> SUFFICES ASSUME NEW m \in published PROVE Safe(m)'
    BY <1>13 DEF Build, NeverLost, Safe, Recorded
  <2>1. m \in Msgs /\ Safe(m)
    BY DEF NeverLost, Safe, Recorded
  <2>2. CASE m = msg[w] /\ w \in connected
    BY <1>13, <2>2 DEF Build, At, Goto, Safe, Holds
  <2>3. CASE ~(m = msg[w] /\ w \in connected)
    <3>1. Recorded(m) => Recorded(m)'
      BY <1>13, <2>1, <2>3 DEF Build, At, Recorded, Settled, Overwritten, Msgs
    <3>2. queue'[m] >= queue[m] /\ delayed'[m] >= delayed[m] /\ dlq'[m] >= dlq[m]
      BY <1>13, <2>1, <2>3 DEF Build, At
    <3>3. /\ \A v \in Workers : Holds(v, m) => Holds(v, m)'
          /\ m \in dropped => m \in dropped'
      BY <1>13, <2>3 DEF Build, Holds, Goto
    <3> QED BY <2>1, <3>1, <3>2, <3>3, StaysSafe
  <2> QED BY <2>2, <2>3
<1>14. ASSUME NEW w \in Workers, Send(w) PROVE NeverLost'
  <2> SUFFICES ASSUME NEW m \in published PROVE Safe(m)'
    BY <1>14 DEF Send, NeverLost, Safe, Recorded
  <2>1. m \in Msgs /\ Safe(m)
    BY DEF NeverLost, Safe, Recorded
  <2>2. CASE m = msg[w] /\ w \in connected
    <3>1. CASE pc'[w] # "ack"
      BY <1>14, <2>2, <3>1 DEF Send, At, Goto, Safe, Holds
    <3>2. CASE pc'[w] = "ack" /\ m \in dropped'
      BY <3>2 DEF Safe
    <3>3. CASE pc'[w] = "ack" /\ m \notin dropped'
      <4>1. m \in Links /\ delivered'[m] > 0
        BY <1>14, <2>1, <2>2, <3>3 DEF Send, At, Goto
      <4> QED BY <4>1 DEF Safe, Recorded, Settled
    <3> QED BY <3>1, <3>2, <3>3
  <2>3. CASE ~(m = msg[w] /\ w \in connected)
    <3>1. Recorded(m) => Recorded(m)'
      BY <1>14, <2>1, <2>3 DEF Send, At, Recorded, Settled, Overwritten, Msgs
    <3>2. queue'[m] >= queue[m] /\ delayed'[m] >= delayed[m] /\ dlq'[m] >= dlq[m]
      BY <1>14, <2>1, <2>3 DEF Send, At
    <3>3. /\ \A v \in Workers : Holds(v, m) => Holds(v, m)'
          /\ m \in dropped => m \in dropped'
      BY <1>14, <2>3 DEF Send, Holds, Goto
    <3> QED BY <2>1, <3>1, <3>2, <3>3, StaysSafe
  <2> QED BY <2>2, <2>3
<1>15. ASSUME NEW w \in Workers, MarkSent(w) PROVE NeverLost'
  <2> SUFFICES ASSUME NEW m \in published PROVE Safe(m)'
    BY <1>15 DEF MarkSent, NeverLost, Safe, Recorded
  <2>1. m \in Msgs /\ Safe(m)
    BY DEF NeverLost, Safe, Recorded
  <2>2. CASE m = msg[w] /\ w \in connected
    <3>1. CASE pc'[w] # "ack"
      BY <1>15, <2>2, <3>1 DEF MarkSent, At, Goto, Safe, Holds
    <3>2. CASE pc'[w] = "ack"
      <4>1. m \in Rows /\ m \notin Links /\ status'[m] \in {"gone", "sent"}
        BY <1>15, <2>2, <3>2 DEF MarkSent, At, Goto
      <4> QED BY <4>1 DEF Safe, Recorded, Settled
    <3> QED BY <3>1, <3>2
  <2>3. CASE ~(m = msg[w] /\ w \in connected)
    <3>1. Recorded(m) => Recorded(m)'
      BY <1>15, <2>1, <2>3 DEF MarkSent, At, Recorded, Settled, Overwritten, Msgs
    <3>2. queue'[m] >= queue[m] /\ delayed'[m] >= delayed[m] /\ dlq'[m] >= dlq[m]
      BY <1>15, <2>1, <2>3 DEF MarkSent, At
    <3>3. /\ \A v \in Workers : Holds(v, m) => Holds(v, m)'
          /\ m \in dropped => m \in dropped'
      BY <1>15, <2>3 DEF MarkSent, Holds, Goto
    <3> QED BY <2>1, <3>1, <3>2, <3>3, StaysSafe
  <2> QED BY <2>2, <2>3
<1>16. ASSUME NEW w \in Workers, IncrementAttempts(w) PROVE NeverLost'
  <2> SUFFICES ASSUME NEW m \in published PROVE Safe(m)'
    BY <1>16 DEF IncrementAttempts, NeverLost, Safe, Recorded
  <2>1. m \in Msgs /\ Safe(m)
    BY DEF NeverLost, Safe, Recorded
  <2>2. CASE m = msg[w] /\ w \in connected
    BY <1>16, <2>2 DEF IncrementAttempts, At, Goto, Safe, Holds
  <2>3. CASE ~(m = msg[w] /\ w \in connected)
    <3>1. Recorded(m) => Recorded(m)'
      BY <1>16, <2>1, <2>3 DEF IncrementAttempts, At, Recorded, Settled, Overwritten, Msgs
    <3>2. queue'[m] >= queue[m] /\ delayed'[m] >= delayed[m] /\ dlq'[m] >= dlq[m]
      BY <1>16, <2>1, <2>3 DEF IncrementAttempts, At
    <3>3. /\ \A v \in Workers : Holds(v, m) => Holds(v, m)'
          /\ m \in dropped => m \in dropped'
      BY <1>16, <2>3 DEF IncrementAttempts, Holds, Goto
    <3> QED BY <2>1, <3>1, <3>2, <3>3, StaysSafe
  <2> QED BY <2>2, <2>3
<1>17. ASSUME NEW w \in Workers, MarkFailed(w) PROVE NeverLost'
  <2> SUFFICES ASSUME NEW m \in published PROVE Safe(m)'
    BY <1>17 DEF MarkFailed, NeverLost, Safe, Recorded
  <2>1. m \in Msgs /\ Safe(m)
    BY DEF NeverLost, Safe, Recorded
  <2>2. CASE m = msg[w] /\ w \in connected
    BY <1>17, <2>2 DEF MarkFailed, At, Goto, Safe, Holds
  <2>3. CASE ~(m = msg[w] /\ w \in connected)
    <3>1. Recorded(m) => Recorded(m)'
      BY <1>17, <2>1, <2>3
         DEF MarkFailed, At, Recorded, Settled, Overwritten, Msgs, JournalInv, SentMeansDelivered
    <3>2. queue'[m] >= queue[m] /\ delayed'[m] >= delayed[m] /\ dlq'[m] >= dlq[m]
      BY <1>17, <2>1, <2>3 DEF MarkFailed, At
    <3>3. /\ \A v \in Workers : Holds(v, m) => Holds(v, m)'
          /\ m \in dropped => m \in dropped'
      BY <1>17, <2>3 DEF MarkFailed, Holds, Goto
    <3> QED BY <2>1, <3>1, <3>2, <3>3, StaysSafe
  <2> QED BY <2>2, <2>3
<1>18. ASSUME NEW w \in Workers, Republish(w) PROVE NeverLost'
  <2> SUFFICES ASSUME NEW m \in published PROVE Safe(m)'
    BY <1>18 DEF Republish, NeverLost, Safe, Recorded
  <2>1. m \in Msgs /\ Safe(m)
    BY DEF NeverLost, Safe, Recorded
  <2>0. /\ msg[w] \in Msgs
        /\ Route("delayed.events", delayed, msg[w]) = [delayed EXCEPT ![msg[w]] = @ + 1]
    <3>1. msg[w] \in Msgs /\ Routed(msg[w])
      BY <1>18 DEF Republish, At, InTransitIsRouted
    <3> QED BY <3>1, RouteCopies
  <2>2. CASE m = msg[w] /\ w \in connected
    <3>1. CASE pc'[w] # "ack"
      BY <1>18, <2>2, <3>1 DEF Republish, At, Goto, Safe, Holds
    <3>2. CASE pc'[w] = "ack"
      <4>1. delayed'[m] > 0
        BY <1>18, <2>0, <2>2, <3>2 DEF Republish, Goto
      <4> QED BY <4>1 DEF Safe
    <3> QED BY <3>1, <3>2
  <2>3. CASE ~(m = msg[w] /\ w \in connected)
    <3>1. Recorded(m) => Recorded(m)'
      BY <1>18, <2>1, <2>3 DEF Republish, At, Recorded, Settled, Overwritten, Msgs
    <3>2. queue'[m] >= queue[m] /\ delayed'[m] >= delayed[m] /\ dlq'[m] >= dlq[m]
      BY <1>18, <2>1, <2>3, <2>0 DEF Republish, At
    <3>3. /\ \A v \in Workers : Holds(v, m) => Holds(v, m)'
          /\ m \in dropped => m \in dropped'
      BY <1>18, <2>3 DEF Republish, Holds, Goto
    <3> QED BY <2>1, <3>1, <3>2, <3>3, StaysSafe
  <2> QED BY <2>2, <2>3
<1>19. ASSUME NEW w \in Workers, Settle(w) PROVE NeverLost'
  <2> SUFFICES ASSUME NEW m \in published PROVE Safe(m)'
    BY <1>19 DEF Settle, NeverLost, Safe, Recorded
  <2>1. m \in Msgs /\ Safe(m)
    BY DEF NeverLost, Safe, Recorded
  <2>0. /\ msg[w] \in Msgs
        /\ Route("dlx", dlq, msg[w]) = [dlq EXCEPT ![msg[w]] = @ + 1]
    <3>1. msg[w] \in Msgs /\ Routed(msg[w])
      BY <1>19 DEF Settle, InTransitIsRouted
    <3> QED BY <3>1, RouteCopies
  <2>2. CASE m = msg[w] /\ w \in connected
    <3>1. CASE pc[w] = "ack"
      <4>1. ~Holds(w, m)
        BY <3>1 DEF Holds
      <4>2. /\ Recorded(m) => Recorded(m)'
            /\ m \in dropped => m \in dropped'
            /\ \A v \in Workers : Holds(v, m) => Holds(v, m)'
        BY <1>19, <4>1 DEF Settle, Recorded, Settled, Overwritten, Holds, Goto
      <4>3. UNCHANGED <<queue, delayed, dlq>>
        BY <1>19, <3>1 DEF Settle
      <4>4. /\ queue'[m] >= queue[m] /\ delayed'[m] >= delayed[m]
            /\ dlq'[m] >= dlq[m] /\ TypeOK /\ TypeOK'
        BY <2>1, <4>3
      <4> QED BY <2>1, <4>2, <4>4, StaysSafe
    <3>2. CASE pc[w] = "reject"
      <4>1. dlq'[m] > 0
        BY <1>19, <2>0, <2>2, <3>2 DEF Settle
      <4> QED BY <4>1 DEF Safe
    <3>3. CASE pc[w] = "requeue"
      <4>1. queue'[m] > 0
        BY <1>19, <2>0, <2>2, <3>3 DEF Settle
      <4> QED BY <4>1 DEF Safe
    <3> QED BY <1>19, <3>1, <3>2, <3>3 DEF Settle
  <2>3. CASE ~(m = msg[w] /\ w \in connected)
    <3>1. Recorded(m) => Recorded(m)'
      BY <1>19, <2>1, <2>3 DEF Settle, At, Recorded, Settled, Overwritten, Msgs
    <3>2. queue'[m] >= queue[m] /\ delayed'[m] >= delayed[m] /\ dlq'[m] >= dlq[m]
      BY <1>19, <2>1, <2>3, <2>0 DEF Settle, At
    <3>3. /\ \A v \in Workers : Holds(v, m) => Holds(v, m)'
          /\ m \in dropped => m \in dropped'
      BY <1>19, <2>3 DEF Settle, Holds, Goto
    <3> QED BY <2>1, <3>1, <3>2, <3>3, StaysSafe
  <2> QED BY <2>2, <2>3
<1>20. ASSUME NEW w \in Workers, CrashWorker(w) PROVE NeverLost'
  <2> SUFFICES ASSUME NEW m \in published PROVE Safe(m)'
    BY <1>20 DEF CrashWorker, NeverLost, Safe, Recorded
  <2>1. m \in Msgs /\ Safe(m)
    BY DEF NeverLost, Safe, Recorded
  <2>2. CASE m = msg[w] /\ w \in connected
    <3>1. queue'[m] > 0
      BY <1>20, <2>1, <2>2 DEF CrashWorker
    <3> QED BY <3>1 DEF Safe
  <2>3. CASE ~(m = msg[w] /\ w \in connected)
    <3>1. Recorded(m) => Recorded(m)'
      BY <1>20, <2>1, <2>3 DEF CrashWorker, At, Recorded, Settled, Overwritten, Msgs
    <3>2. queue'[m] >= queue[m] /\ delayed'[m] >= delayed[m] /\ dlq'[m] >= dlq[m]
      BY <1>20, <2>1, <2>3 DEF CrashWorker, At
    <3>3. /\ \A v \in Workers : Holds(v, m) => Holds(v, m)'
          /\ m \in dropped => m \in dropped'
      BY <1>20, <2>3 DEF CrashWorker, Holds, Goto
    <3> QED BY <2>1, <3>1, <3>2, <3>3, StaysSafe
  <2> QED BY <2>2, <2>3
<1>23. ASSUME NEW w \in Workers, LoseConnection(w) PROVE NeverLost'
  <2> SUFFICES ASSUME NEW m \in published PROVE Safe(m)'
    BY <1>23 DEF LoseConnection, NeverLost, Safe, Recorded
  <2>1. m \in Msgs /\ Safe(m)
    BY DEF NeverLost, Safe, Recorded
  <2>2. CASE m = msg[w] /\ ~At(w, "idle")
    <3>1. queue'[m] > 0
      BY <1>23, <2>1, <2>2 DEF LoseConnection
    <3> QED BY <3>1 DEF Safe
  <2>3. CASE ~(m = msg[w] /\ ~At(w, "idle"))
    <3>1. Recorded(m) => Recorded(m)'
      BY <1>23 DEF LoseConnection, Recorded, Settled, Overwritten
    <3>2. queue'[m] >= queue[m] /\ delayed'[m] >= delayed[m] /\ dlq'[m] >= dlq[m]
      BY <1>23, <2>1, <2>3 DEF LoseConnection, At
    <3>3. /\ \A v \in Workers : Holds(v, m) => Holds(v, m)'
          /\ m \in dropped => m \in dropped'
      BY <1>23, <2>3 DEF LoseConnection, Holds, At
    <3> QED BY <2>1, <3>1, <3>2, <3>3, StaysSafe
  <2> QED BY <2>2, <2>3
<1>24. ASSUME NEW w \in Workers, RestartWorker(w) PROVE NeverLost'
  <2> SUFFICES ASSUME NEW m \in published PROVE Safe(m)'
    BY <1>24 DEF RestartWorker, NeverLost, Safe, Recorded
  <2>1. m \in Msgs /\ Safe(m)
    BY DEF NeverLost, Safe, Recorded
  <2>2. Recorded(m) => Recorded(m)'
    BY <1>24 DEF RestartWorker, Recorded, Settled, Overwritten
  <2>3. queue'[m] >= queue[m] /\ delayed'[m] >= delayed[m] /\ dlq'[m] >= dlq[m]
    BY <1>24, <2>1 DEF RestartWorker
  <2>4. /\ \A v \in Workers : Holds(v, m) => Holds(v, m)'
        /\ m \in dropped => m \in dropped'
    BY <1>24 DEF RestartWorker, Holds, Goto
  <2> QED BY <2>1, <2>2, <2>3, <2>4, StaysSafe
<1>21. ASSUME NEW m \in Msgs, DelayFires(m) PROVE NeverLost'
  <2> SUFFICES ASSUME NEW x \in published PROVE Safe(x)'
    BY <1>21 DEF DelayFires, NeverLost, Safe, Recorded
  <2>1. x \in Msgs /\ Safe(x)
    BY DEF NeverLost, Safe, Recorded
  <2>2. CASE x = m
    <3>1. queue'[x] > 0
      BY <1>21, <2>2 DEF DelayFires
    <3> QED BY <3>1 DEF Safe
  <2>3. CASE x # m
    <3>1. queue'[x] = queue[x] /\ delayed'[x] = delayed[x]
      BY <1>21, <2>1, <2>3 DEF DelayFires
    <3> QED BY <1>21, <2>1, <3>1, StaysSafe DEF DelayFires, Recorded, Settled, Overwritten, Holds
  <2> QED BY <2>2, <2>3
<1>22. ASSUME UNCHANGED vars PROVE NeverLost'
  BY <1>22 DEF vars, NeverLost, Settled, Overwritten, Holds
<1> QED
  BY <1>1, <1>2, <1>3, <1>4, <1>5, <1>6, <1>7, <1>8, <1>9, <1>10, <1>11,
     <1>12, <1>13, <1>14, <1>15, <1>16, <1>17, <1>18, <1>19, <1>20, <1>21,
     <1>22, <1>23, <1>24
     DEF Next, Process

-----------------------------------------------------------------------------
(* Every duplicate delivery is paid for by a fault.                        *)

\* A message the engine has still to publish, for the first and only time.
Unborn(m) ==
    IF m \in Links THEN request[m] = "idle"
    ELSE status[m] = "none" \/ cur[m[1]] = m[2]

\* What is still to be listed or inserted has no row, and what is still to be
\* published is nowhere yet.
Fresh ==
    /\ \A r \in Requests :
         /\ \A s \in todo[r] : status[<<r, s>>] = "none"
         /\ request[r] = "idle" => cur[r] = None /\ \A s \in Subs : status[<<r, s>>] = "none"
    /\ \A m \in Msgs : Unborn(m) =>
         /\ queue[m] = 0 /\ delayed[m] = 0 /\ delivered[m] = 0
         /\ \A w \in Workers : msg[w] # m

\* A loop that may deliver the message it holds, or hand it back.
Live(w, m) ==
    msg[w] = m /\ pc[w] \in {"load", "build", "send", "incr", "republish", "requeue"}
LiveLoops(m) == {w \in Workers : Live(w, m)}

\* Each copy may become a delivery, and only a fault makes another copy.
Copies(m) == queue[m] + delayed[m] + Cardinality(LiveLoops(m))
CopiesArePaid == \A m \in Msgs : Copies(m) + delivered[m] <= 1 + faults

\* Before the first request nothing is anywhere.
LEMMA FreshInit == Init => Fresh
BY NamesAreDistinct DEF Init, Fresh, Msgs, Rows

\* A row is inserted once and published once; a link is published once.
LEMMA FreshStep ==
    TypeInv /\ RowBeforeMessage /\ Fresh /\ [Next]_vars => Fresh'
<1> SUFFICES ASSUME TypeInv, RowBeforeMessage, Fresh, [Next]_vars PROVE Fresh'
  OBVIOUS
<1> USE NamesAreDistinct DEF TypeInv, TypeOK,
        requestVars, journalVars, brokerVars, workerVars, recipientVars
<1>a. /\ \A m \in Rows : m[1] \in Requests /\ m[2] \in Subs /\ m = <<m[1], m[2]>> /\ m \notin Links
      /\ \A r \in Requests, s \in Subs : <<r, s>> \in Rows
      /\ Msgs = Rows \cup Links
      /\ \A l \in Links : l \notin Requests /\ l \notin Rows
  BY DEF Rows, Msgs
<1>b. ASSUME UNCHANGED <<todo, cur>>, \A r \in Requests \cup Links : request'[r] = "idle" => request[r] = "idle",
             \A n \in Rows : status'[n] = "none" <=> status[n] = "none",
             \A m \in Msgs : Unborn(m) =>
               /\ queue'[m] = 0 /\ delayed'[m] = 0 /\ delivered'[m] = 0
               /\ \A w \in Workers : msg'[w] # m
      PROVE  Fresh'
  <2>1. \A m \in Msgs : Unborn(m)' => Unborn(m)
    BY <1>a, <1>b DEF Unborn
  <2> QED BY <1>a, <1>b, <2>1 DEF Fresh
<1>c. ASSUME UNCHANGED <<todo, cur, request, status>>,
             \A m \in Msgs : Unborn(m) =>
               /\ queue'[m] = 0 /\ delayed'[m] = 0 /\ delivered'[m] = 0
               /\ \A w \in Workers : msg'[w] # m
      PROVE  Fresh'
  BY <1>b, <1>c
<1>d. ASSUME UNCHANGED <<queue, delayed, delivered, msg>>
      PROVE  \A m \in Msgs : Unborn(m) =>
               /\ queue'[m] = 0 /\ delayed'[m] = 0 /\ delivered'[m] = 0
               /\ \A w \in Workers : msg'[w] # m
  BY <1>d DEF Fresh
<1>1. ASSUME NEW s \in Subs, ConfirmSubscriber(s) PROVE Fresh'
  BY <1>1, <1>c, <1>d DEF ConfirmSubscriber
<1>2. ASSUME NEW s \in Subs, DeleteSubscriber(s) PROVE Fresh'
  <2>1. \A n \in Rows : status'[n] = "none" <=> status[n] = "none"
    BY <1>2 DEF DeleteSubscriber
  <2> QED BY <1>2, <2>1, <1>b, <1>d DEF DeleteSubscriber
<1>3. ASSUME NEW e \in Events, Dispatch(e) PROVE Fresh'
  <2>1. /\ UNCHANGED <<cur, status, queue, delayed, delivered, msg>>
        /\ request[e] = "idle" /\ e \in Requests
        /\ \A r \in Requests \cup Links : r # e => request'[r] = request[r]
        /\ request'[e] # "idle"
        /\ \A r \in Requests : r # e => todo'[r] = todo[r]
        /\ todo'[e] \subseteq Subs
    BY <1>3 DEF Dispatch, Requests, Fresh
  <2>2. \A m \in Msgs : Unborn(m)' => Unborn(m)
    BY <1>a, <2>1 DEF Unborn
  <2> QED BY <1>a, <2>1, <2>2 DEF Fresh
<1>4. ASSUME NEW c \in Confirms, NEW s \in Subs, SendConfirmation(c, s) PROVE Fresh'
  <2>1. /\ UNCHANGED <<cur, status, queue, delayed, delivered, msg>>
        /\ request[c] = "idle" /\ c \in Requests
        /\ \A r \in Requests \cup Links : r # c => request'[r] = request[r]
        /\ request'[c] # "idle"
        /\ \A r \in Requests : r # c => todo'[r] = todo[r]
        /\ todo'[c] \subseteq Subs
    BY <1>4 DEF SendConfirmation, Requests
  <2>2. \A m \in Msgs : Unborn(m)' => Unborn(m)
    BY <1>a, <2>1 DEF Unborn
  <2> QED BY <1>a, <2>1, <2>2 DEF Fresh
<1>5. ASSUME NEW r \in Requests, NEW s \in Subs, CreateNotification(r, s) PROVE Fresh'
  <2>1. /\ UNCHANGED <<request, queue, delayed, delivered, msg>>
        /\ request[r] # "idle" /\ s \in todo[r] /\ cur[r] = None
        /\ todo' = [todo EXCEPT ![r] = @ \ {s}]
    BY <1>5 DEF CreateNotification, Alive
  <2>2. \/ UNCHANGED <<cur, status>>
        \/ cur' = [cur EXCEPT ![r] = s] /\ status' = [status EXCEPT ![<<r, s>>] = "pending"]
    BY <1>5 DEF CreateNotification
  <2>3. status[<<r, s>>] = "none" /\ <<r, s>> \in Rows
    BY <1>a, <2>1 DEF Fresh
  <2>4. \A m \in Msgs : Unborn(m)' => Unborn(m)
    <3> SUFFICES ASSUME NEW m \in Rows, Unborn(m)' PROVE Unborn(m)
      BY <1>a, <2>1 DEF Unborn
    <3>1. CASE m = <<r, s>>
      BY <1>a, <2>3, <3>1 DEF Unborn
    <3>2. CASE m # <<r, s>>
      <4>1. status'[m] = status[m]
        BY <2>2, <3>2
      <4>2. cur'[m[1]] = m[2] => cur[m[1]] = m[2]
        BY <1>a, <2>2, <3>2
      <4> QED BY <1>a, <4>1, <4>2 DEF Unborn
    <3> QED BY <3>1, <3>2
  <2>5. \A q \in Requests : \A t \in todo'[q] : status'[<<q, t>>] = "none"
    <3> SUFFICES ASSUME NEW q \in Requests, NEW t \in todo'[q] PROVE status'[<<q, t>>] = "none"
      OBVIOUS
    <3>1. t \in todo[q] /\ <<q, t>> # <<r, s>> /\ t \in Subs
      BY <2>1
    <3> QED BY <1>a, <2>2, <3>1 DEF Fresh
  <2>6. \A q \in Requests : request'[q] = "idle" =>
          cur'[q] = None /\ \A t \in Subs : status'[<<q, t>>] = "none"
    <3> SUFFICES ASSUME NEW q \in Requests, request'[q] = "idle"
                 PROVE  cur'[q] = None /\ \A t \in Subs : status'[<<q, t>>] = "none"
      OBVIOUS
    <3>1. q # r /\ request[q] = "idle"
      BY <2>1
    <3>2. \A t \in Subs : <<q, t>> # <<r, s>> /\ <<q, t>> \in Rows
      BY <1>a, <3>1
    <3> QED BY <2>2, <3>1, <3>2 DEF Fresh
  <2> QED BY <2>1, <2>4, <2>5, <2>6 DEF Fresh
<1>6. ASSUME NEW r \in Requests, Publish(r) PROVE Fresh'
  <2> DEFINE n == <<r, cur[r]>>
  <2>1. /\ UNCHANGED <<request, status, todo, delayed, delivered, msg>>
        /\ request[r] # "idle" /\ cur[r] \in Subs
        /\ cur' = [cur EXCEPT ![r] = None]
    BY <1>6 DEF Publish, Alive
  <2>2. \A m \in Msgs : m # n => queue'[m] = queue[m]
    BY <1>6 DEF Publish, Route
  <2>3. status[n] # "none" /\ n \in Rows
    BY <1>a, <2>1 DEF RowBeforeMessage
  <2>4. \A m \in Msgs : Unborn(m)' => Unborn(m) /\ m # n
    <3> SUFFICES ASSUME NEW m \in Msgs, Unborn(m)' PROVE Unborn(m) /\ m # n
      OBVIOUS
    <3>1. CASE m \in Links
      BY <1>a, <2>1, <2>3, <3>1 DEF Unborn
    <3>2. CASE m \in Rows
      <4>1. m # n
        <5>1. cur'[r] # cur[r] /\ n[1] = r /\ n[2] = cur[r] /\ n \notin Links
          BY <1>a, <2>1, <2>3
        <5> QED BY <2>1, <2>3, <5>1 DEF Unborn
      <4>2. cur'[m[1]] = m[2] => cur[m[1]] = m[2]
        BY <1>a, <2>1, <3>2
      <4> QED BY <1>a, <2>1, <3>2, <4>1, <4>2 DEF Unborn
    <3> QED BY <1>a, <3>1, <3>2
  <2> QED BY <2>1, <2>2, <2>4 DEF Fresh
<1>7. ASSUME NEW r \in Requests, FinishDispatch(r) PROVE Fresh'
  BY <1>7, <1>b, <1>d DEF FinishDispatch
<1>8. ASSUME NEW r \in Requests, CancelRequest(r) PROVE Fresh'
  BY <1>8, <1>b, <1>d DEF CancelRequest
<1>9. ASSUME CrashApi PROVE Fresh'
  <2>1. /\ UNCHANGED <<status, queue, delayed, delivered, msg>>
        /\ \A r \in Requests : todo'[r] = {} /\ cur'[r] = None
        /\ \A r \in Requests \cup Links : request'[r] = "idle" => request[r] = "idle"
    BY <1>9 DEF CrashApi
  <2>2. \A m \in Msgs : Unborn(m)' => Unborn(m)
    BY <1>a, <2>1 DEF Unborn
  <2> QED BY <2>1, <2>2 DEF Fresh
<1>10. ASSUME NEW l \in Links, SendAccessLink(l) PROVE Fresh'
  <2>1. /\ UNCHANGED <<status, todo, cur, delayed, delivered, msg>>
        /\ request' = [request EXCEPT ![l] = "done"]
        /\ \A m \in Msgs : m # l => queue'[m] = queue[m]
    BY <1>10 DEF SendAccessLink, Route
  <2>2. \A m \in Msgs : Unborn(m)' => Unborn(m) /\ m # l
    BY <1>a, <2>1 DEF Unborn
  <2> QED BY <1>a, <2>1, <2>2 DEF Fresh
<1>11. ASSUME NEW w \in Workers, NEW m \in Msgs, Receive(w, m) PROVE Fresh'
  <2>1. ~Unborn(m)
    BY <1>11 DEF Receive, Fresh
  <2>2. /\ \A x \in Msgs : x # m => queue'[x] = queue[x]
        /\ UNCHANGED <<delayed, delivered>> /\ msg' = [msg EXCEPT ![w] = m]
    BY <1>11 DEF Receive
  <2>3. UNCHANGED <<todo, cur, request, status>>
    BY <1>11 DEF Receive
  <2> QED BY <2>1, <2>2, <2>3, <1>c DEF Fresh
<1>12. ASSUME NEW w \in Workers, Load(w) PROVE Fresh'
  BY <1>12, <1>c, <1>d DEF Load
<1>13. ASSUME NEW w \in Workers, Build(w) PROVE Fresh'
  BY <1>13, <1>c, <1>d DEF Build
<1>14. ASSUME NEW w \in Workers, Send(w) PROVE Fresh'
  <2>1. /\ UNCHANGED <<todo, cur, request, status, queue, delayed, msg>>
        /\ \A x \in Msgs : x # msg[w] => delivered'[x] = delivered[x]
    BY <1>14 DEF Send
  <2> QED BY <2>1, <1>c DEF Fresh
<1>e. \A w \in Workers : msg[w] \in Rows => status[msg[w]] # "none"
  BY <1>a DEF Fresh, Unborn
<1>15. ASSUME NEW w \in Workers, MarkSent(w) PROVE Fresh'
  <2>1. msg[w] \in Rows
    BY <1>15 DEF MarkSent, At, WorkerShape
  <2>2. \A n \in Rows : status'[n] = "none" <=> status[n] = "none"
    BY <1>15, <1>e, <2>1 DEF MarkSent
  <2> QED BY <1>15, <2>2, <1>b, <1>d DEF MarkSent
<1>16. ASSUME NEW w \in Workers, IncrementAttempts(w) PROVE Fresh'
  BY <1>16, <1>c, <1>d DEF IncrementAttempts
<1>17. ASSUME NEW w \in Workers, MarkFailed(w) PROVE Fresh'
  <2>1. msg[w] \in Rows
    BY <1>17 DEF MarkFailed, At, WorkerShape
  <2>2. \A n \in Rows : status'[n] = "none" <=> status[n] = "none"
    BY <1>17, <1>e, <2>1 DEF MarkFailed
  <2> QED BY <1>17, <2>2, <1>b, <1>d DEF MarkFailed
<1>18. ASSUME NEW w \in Workers, Republish(w) PROVE Fresh'
  <2>1. /\ UNCHANGED <<todo, cur, request, status, queue, delivered, msg>>
        /\ \A x \in Msgs : x # msg[w] => delayed'[x] = delayed[x]
    BY <1>18 DEF Republish, Route
  <2> QED BY <2>1, <1>c DEF Fresh
<1>19. ASSUME NEW w \in Workers, Settle(w) PROVE Fresh'
  <2>1. /\ UNCHANGED <<todo, cur, request, status, delayed, delivered>>
        /\ \A x \in Msgs : x # msg[w] => queue'[x] = queue[x]
        /\ msg' = [msg EXCEPT ![w] = None]
    BY <1>19 DEF Settle
  <2> QED BY <2>1, <1>c DEF Fresh
<1>20. ASSUME NEW w \in Workers, CrashWorker(w) PROVE Fresh'
  <2>1. /\ UNCHANGED <<todo, cur, request, status, delayed, delivered>>
        /\ \A x \in Msgs : x # msg[w] => queue'[x] = queue[x]
        /\ msg' = [msg EXCEPT ![w] = None]
    BY <1>20 DEF CrashWorker
  <2> QED BY <2>1, <1>c DEF Fresh
<1>23. ASSUME NEW w \in Workers, LoseConnection(w) PROVE Fresh'
  <2>1. /\ UNCHANGED <<todo, cur, request, status, delayed, delivered, msg>>
        /\ \A x \in Msgs : x # msg[w] => queue'[x] = queue[x]
    BY <1>23 DEF LoseConnection
  <2> QED BY <2>1, <1>c DEF Fresh
<1>24. ASSUME NEW w \in Workers, RestartWorker(w) PROVE Fresh'
  <2>1. /\ UNCHANGED <<todo, cur, request, status, queue, delayed, delivered>>
        /\ msg' = [msg EXCEPT ![w] = None]
    BY <1>24 DEF RestartWorker
  <2> QED BY <2>1, <1>c DEF Fresh
<1>21. ASSUME NEW m \in Msgs, DelayFires(m) PROVE Fresh'
  <2>1. /\ UNCHANGED <<todo, cur, request, status, delivered, msg>> /\ ~Unborn(m)
        /\ \A x \in Msgs : x # m => queue'[x] = queue[x] /\ delayed'[x] = delayed[x]
    BY <1>21 DEF DelayFires, Fresh
  <2> QED BY <2>1, <1>c DEF Fresh
<1>22. ASSUME UNCHANGED vars PROVE Fresh'
  BY <1>22, <1>c, <1>d DEF vars
<1> QED
  BY <1>1, <1>2, <1>3, <1>4, <1>5, <1>6, <1>7, <1>8, <1>9, <1>10, <1>11,
     <1>12, <1>13, <1>14, <1>15, <1>16, <1>17, <1>18, <1>19, <1>20, <1>21,
     <1>22, <1>23, <1>24
     DEF Next, Process

\* A step of one loop changes the number of live loops by that loop.
LEMMA Tally ==
    ASSUME NEW w \in Workers, NEW m,
           \A v \in Workers : v # w => pc'[v] = pc[v] /\ msg'[v] = msg[v]
    PROVE  \E c \in Nat :
             /\ Cardinality(LiveLoops(m)) = IF Live(w, m) THEN c + 1 ELSE c
             /\ Cardinality(LiveLoops(m)') = IF Live(w, m)' THEN c + 1 ELSE c
<1> DEFINE Others == LiveLoops(m) \ {w}
<1>1. IsFiniteSet(Others) /\ w \notin Others
  BY LoopsAreFinite, FS_Subset DEF LiveLoops
<1>2. Cardinality(Others) \in Nat
  BY <1>1, FS_CardinalityType
<1>3. Cardinality(Others \cup {w}) = Cardinality(Others) + 1
  BY <1>1, FS_AddElement
<1>4. LiveLoops(m) = IF Live(w, m) THEN Others \cup {w} ELSE Others
  BY DEF LiveLoops
<1>5. LiveLoops(m)' = IF Live(w, m)' THEN Others \cup {w} ELSE Others
  <2>1. \A v \in Workers : v # w => (Live(v, m)' <=> Live(v, m))
    BY DEF Live
  <2> QED BY <2>1 DEF LiveLoops
<1> QED BY <1>2, <1>3, <1>4, <1>5

\* Nothing is anywhere at first.
LEMMA CopiesInit == Init => CopiesArePaid
<1> SUFFICES ASSUME Init, NEW m \in Msgs PROVE Copies(m) + delivered[m] <= 1 + faults
  BY DEF CopiesArePaid
<1>1. LiveLoops(m) = {}
  BY DEF LiveLoops, Live, Init
<1>2. Cardinality(LiveLoops(m)) = 0
  BY <1>1, FS_EmptySet
<1> QED BY <1>2 DEF Init, Copies

\* A message is published once; a loop that takes, hands back, copies or
\* delivers it leaves one copy less for each one it makes, or something failed.
LEMMA CopiesStep ==
    TypeInv /\ RowBeforeMessage /\ Fresh /\ CopiesArePaid /\ [Next]_vars => CopiesArePaid'
<1> SUFFICES ASSUME TypeInv, RowBeforeMessage, Fresh, CopiesArePaid, [Next]_vars,
                    NEW m \in Msgs
             PROVE  (Copies(m) + delivered[m] <= 1 + faults)'
  BY DEF CopiesArePaid
<1> USE NamesAreDistinct DEF TypeInv, TypeOK,
        requestVars, journalVars, brokerVars, workerVars, recipientVars
<1>a. Copies(m) + delivered[m] <= 1 + faults
  BY DEF CopiesArePaid
<1>b. TypeOK'
  BY TypeStep
<1>c. Cardinality(LiveLoops(m)) \in Nat
  BY LoopsAreFinite, FS_Subset, FS_CardinalityType DEF LiveLoops
<1>d. ASSUME UNCHANGED <<queue, delayed, delivered, pc, msg>>, faults' >= faults
      PROVE  (Copies(m) + delivered[m] <= 1 + faults)'
  <2>1. Cardinality(LiveLoops(m)') = Cardinality(LiveLoops(m))
    BY <1>d DEF LiveLoops, Live
  <2> QED BY <1>a, <1>b, <1>c, <1>d, <2>1 DEF Copies
<1>e. ASSUME Unborn(m), UNCHANGED <<delayed, delivered, pc, msg>>,
             queue'[m] <= queue[m] + 1, faults' >= faults
      PROVE  (Copies(m) + delivered[m] <= 1 + faults)'
  <2>1. LiveLoops(m)' = {}
    BY <1>e DEF LiveLoops, Live, Fresh
  <2>2. Cardinality(LiveLoops(m)') = 0
    BY <2>1, FS_EmptySet
  <2>3. queue'[m] <= 1 /\ delayed'[m] = 0 /\ delivered'[m] = 0
    BY <1>b, <1>e DEF Fresh
  <2> QED BY <1>b, <1>e, <2>2, <2>3 DEF Copies
<1>f. ASSUME UNCHANGED <<delayed, delivered, pc, msg>>,
             queue'[m] = queue[m], faults' >= faults
      PROVE  (Copies(m) + delivered[m] <= 1 + faults)'
  <2>1. Cardinality(LiveLoops(m)') = Cardinality(LiveLoops(m))
    BY <1>f DEF LiveLoops, Live
  <2> QED BY <1>a, <1>b, <1>c, <1>f, <2>1 DEF Copies
<1>1. ASSUME NEW s \in Subs, ConfirmSubscriber(s) PROVE (Copies(m) + delivered[m] <= 1 + faults)'
  BY <1>1, <1>d DEF ConfirmSubscriber
<1>2. ASSUME NEW s \in Subs, DeleteSubscriber(s) PROVE (Copies(m) + delivered[m] <= 1 + faults)'
  BY <1>2, <1>d DEF DeleteSubscriber
<1>3. ASSUME NEW e \in Events, Dispatch(e) PROVE (Copies(m) + delivered[m] <= 1 + faults)'
  BY <1>3, <1>d DEF Dispatch, Fault
<1>4. ASSUME NEW c \in Confirms, NEW s \in Subs, SendConfirmation(c, s)
      PROVE (Copies(m) + delivered[m] <= 1 + faults)'
  BY <1>4, <1>d DEF SendConfirmation
<1>5. ASSUME NEW r \in Requests, NEW s \in Subs, CreateNotification(r, s)
      PROVE (Copies(m) + delivered[m] <= 1 + faults)'
  BY <1>5, <1>d DEF CreateNotification, Fault
<1>6. ASSUME NEW r \in Requests, Publish(r) PROVE (Copies(m) + delivered[m] <= 1 + faults)'
  <2>1. UNCHANGED <<delayed, delivered, pc, msg>> /\ faults' >= faults
    BY <1>6 DEF Publish, Fault
  <2>2. CASE m = <<r, cur[r]>>
    <3>1. Unborn(m)
      <4>1. m \in Rows /\ m[1] = r /\ m[2] = cur[r]
        BY <1>6, <2>2 DEF Publish, Rows
      <4> QED BY <4>1 DEF Unborn
    <3>2. queue' \in {queue, [queue EXCEPT ![m] = @ + 1]}
      BY <1>6, <2>2 DEF Publish, Route
    <3>3. queue'[m] <= queue[m] + 1
      BY <3>2
    <3> QED BY <1>e, <2>1, <3>1, <3>3
  <2>3. CASE m # <<r, cur[r]>>
    <3>1. queue'[m] = queue[m]
      BY <1>6, <2>3 DEF Publish, Route
    <3> QED BY <1>f, <2>1, <3>1
  <2> QED BY <2>2, <2>3
<1>7. ASSUME NEW r \in Requests, FinishDispatch(r) PROVE (Copies(m) + delivered[m] <= 1 + faults)'
  BY <1>7, <1>d DEF FinishDispatch
<1>8. ASSUME NEW r \in Requests, CancelRequest(r) PROVE (Copies(m) + delivered[m] <= 1 + faults)'
  BY <1>8, <1>d DEF CancelRequest, Fault
<1>9. ASSUME CrashApi PROVE (Copies(m) + delivered[m] <= 1 + faults)'
  BY <1>9, <1>d DEF CrashApi, Fault
<1>10. ASSUME NEW l \in Links, SendAccessLink(l) PROVE (Copies(m) + delivered[m] <= 1 + faults)'
  <2>1. UNCHANGED <<delayed, delivered, pc, msg>> /\ faults' >= faults /\ request[l] = "idle"
    BY <1>10 DEF SendAccessLink, Fault
  <2>2. CASE m = l
    <3>1. Unborn(m)
      BY <2>1, <2>2 DEF Unborn
    <3>2. queue'[m] <= queue[m] + 1
      BY <1>10 DEF SendAccessLink, Route
    <3> QED BY <1>e, <2>1, <3>1, <3>2
  <2>3. CASE m # l
    <3>1. queue'[m] = queue[m]
      BY <1>10, <2>3 DEF SendAccessLink, Route
    <3> QED BY <1>f, <2>1, <3>1
  <2> QED BY <2>2, <2>3
<1>t. /\ queue[m] \in Nat /\ delayed[m] \in Nat /\ delivered[m] \in Nat /\ faults \in Nat
      /\ queue'[m] \in Nat /\ delayed'[m] \in Nat /\ delivered'[m] \in Nat /\ faults' \in Nat
  BY <1>b
<1> DEFINE Weight(w) == IF Live(w, m) THEN 1 ELSE 0
<1>g. ASSUME NEW w \in Workers,
             \A v \in Workers : v # w => pc'[v] = pc[v] /\ msg'[v] = msg[v],
             queue'[m] + delayed'[m] + delivered'[m] + Weight(w)' + faults
               <= queue[m] + delayed[m] + delivered[m] + Weight(w) + faults'
      PROVE  (Copies(m) + delivered[m] <= 1 + faults)'
  <2>1. PICK c \in Nat :
          /\ Cardinality(LiveLoops(m)) = IF Live(w, m) THEN c + 1 ELSE c
          /\ Cardinality(LiveLoops(m)') = IF Live(w, m)' THEN c + 1 ELSE c
    BY <1>g, Tally
  <2>2. /\ Cardinality(LiveLoops(m)) = c + Weight(w)
        /\ Cardinality(LiveLoops(m)') = c + Weight(w)'
        /\ Weight(w) \in {0, 1} /\ Weight(w)' \in {0, 1}
    BY <2>1
  <2> HIDE DEF Weight
  <2> QED BY <1>a, <1>b, <1>g, <2>2 DEF Copies
<1> HIDE DEF Weight
<1>11. ASSUME NEW w \in Workers, NEW x \in Msgs, Receive(w, x)
       PROVE (Copies(m) + delivered[m] <= 1 + faults)'
  <2>1. CASE x = m
    <3>1. ~Live(w, m) /\ Live(w, m)'
      BY <1>11, <2>1 DEF Receive, Live, At, Goto
    <3>2. /\ queue'[m] + 1 = queue[m] /\ UNCHANGED <<delayed, delivered, faults>>
          /\ \A v \in Workers : v # w => pc'[v] = pc[v] /\ msg'[v] = msg[v]
      BY <1>11, <2>1 DEF Receive, Goto
    <3>9. queue'[m] + delayed'[m] + delivered'[m] + Weight(w)' + faults
           <= queue[m] + delayed[m] + delivered[m] + Weight(w) + faults'
      BY <1>t, <3>1, <3>2 DEF Weight
    <3> QED BY <1>g, <3>9, <3>1, <3>2
  <2>2. CASE x # m
    <3>1. ~Live(w, m) /\ ~Live(w, m)'
      BY <1>11, <2>2 DEF Receive, Live, At, Goto
    <3>2. /\ queue'[m] = queue[m] /\ UNCHANGED <<delayed, delivered, faults>>
          /\ \A v \in Workers : v # w => pc'[v] = pc[v] /\ msg'[v] = msg[v]
      BY <1>11, <2>2 DEF Receive, Goto
    <3>9. queue'[m] + delayed'[m] + delivered'[m] + Weight(w)' + faults
           <= queue[m] + delayed[m] + delivered[m] + Weight(w) + faults'
      BY <1>t, <3>1, <3>2 DEF Weight
    <3> QED BY <1>g, <3>9, <3>1, <3>2
  <2> QED BY <2>1, <2>2
<1>h. ASSUME NEW w \in Workers, UNCHANGED <<queue, delayed, delivered, msg>>,
             \A v \in Workers : v # w => pc'[v] = pc[v],
             Live(w, m)' => Live(w, m) \/ faults' = faults + 1, faults' >= faults
      PROVE  (Copies(m) + delivered[m] <= 1 + faults)'
  <2>1. queue'[m] + delayed'[m] + delivered'[m] + Weight(w)' + faults
          <= queue[m] + delayed[m] + delivered[m] + Weight(w) + faults'
    BY <1>t, <1>h DEF Weight
  <2> QED BY <1>g, <1>h, <2>1
<1>12. ASSUME NEW w \in Workers, Load(w) PROVE (Copies(m) + delivered[m] <= 1 + faults)'
  <2>1. Live(w, m)' => Live(w, m)
    BY <1>12 DEF Load, Live, At, Goto
  <2> QED BY <1>12, <1>h, <2>1 DEF Load, Goto, Fault
<1>13. ASSUME NEW w \in Workers, Build(w) PROVE (Copies(m) + delivered[m] <= 1 + faults)'
  <2>1. Live(w, m)' => Live(w, m)
    BY <1>13 DEF Build, Live, At, Goto
  <2> QED BY <1>13, <1>h, <2>1 DEF Build, Goto, Fault
<1>14. ASSUME NEW w \in Workers, Send(w) PROVE (Copies(m) + delivered[m] <= 1 + faults)'
  <2>1. /\ UNCHANGED <<queue, delayed, msg>> /\ msg[w] \in Msgs
        /\ \A v \in Workers : v # w => pc'[v] = pc[v]
    BY <1>14 DEF Send, Goto, At, WorkerShape
  <2>2. CASE m = msg[w]
    <3>1. Live(w, m)
      BY <1>14, <2>2 DEF Send, Live, At
    <3>2. \/ delivered'[m] = delivered[m] + 1 /\ ~Live(w, m)' /\ faults' = faults
          \/ delivered'[m] = delivered[m] + 1 /\ faults' = faults + 1
          \/ delivered'[m] = delivered[m] /\ faults' = faults
      BY <1>14, <2>1, <2>2 DEF Send, Live, At, Goto, Fault
    <3>9. queue'[m] + delayed'[m] + delivered'[m] + Weight(w)' + faults
           <= queue[m] + delayed[m] + delivered[m] + Weight(w) + faults'
      BY <1>t, <2>1, <3>1, <3>2 DEF Weight
    <3> QED BY <1>g, <3>9, <2>1, <3>1, <3>2
  <2>3. CASE m # msg[w]
    <3>1. ~Live(w, m) /\ ~Live(w, m)'
      BY <2>1, <2>3 DEF Live
    <3>2. delivered'[m] = delivered[m] /\ faults' >= faults
      BY <1>14, <2>1, <2>3 DEF Send, Fault
    <3>9. queue'[m] + delayed'[m] + delivered'[m] + Weight(w)' + faults
           <= queue[m] + delayed[m] + delivered[m] + Weight(w) + faults'
      BY <1>t, <2>1, <3>1, <3>2 DEF Weight
    <3> QED BY <1>g, <3>9, <2>1, <3>1, <3>2
  <2> QED BY <2>2, <2>3
<1>15. ASSUME NEW w \in Workers, MarkSent(w) PROVE (Copies(m) + delivered[m] <= 1 + faults)'
  <2>1. Live(w, m)' => faults' = faults + 1
    BY <1>15 DEF MarkSent, Live, At, Goto, Fault
  <2> QED BY <1>15, <1>h, <2>1 DEF MarkSent, Goto, Fault
<1>16. ASSUME NEW w \in Workers, IncrementAttempts(w)
       PROVE (Copies(m) + delivered[m] <= 1 + faults)'
  <2>1. Live(w, m)' => Live(w, m)
    BY <1>16 DEF IncrementAttempts, Live, At, Goto
  <2> QED BY <1>16, <1>h, <2>1 DEF IncrementAttempts, Goto, Fault
<1>17. ASSUME NEW w \in Workers, MarkFailed(w) PROVE (Copies(m) + delivered[m] <= 1 + faults)'
  <2>1. Live(w, m)' => faults' = faults + 1
    BY <1>17 DEF MarkFailed, Live, At, Goto, Fault
  <2> QED BY <1>17, <1>h, <2>1 DEF MarkFailed, Goto, Fault
<1>18. ASSUME NEW w \in Workers, Republish(w) PROVE (Copies(m) + delivered[m] <= 1 + faults)'
  <2>1. /\ UNCHANGED <<queue, delivered, msg>> /\ msg[w] \in Msgs
        /\ \A v \in Workers : v # w => pc'[v] = pc[v]
    BY <1>18 DEF Republish, Goto, At, WorkerShape
  <2>2. CASE m = msg[w]
    <3>1. Live(w, m)
      BY <1>18, <2>2 DEF Republish, Live, At
    <3>2. \/ delayed'[m] <= delayed[m] + 1 /\ ~Live(w, m)' /\ faults' = faults
          \/ delayed'[m] <= delayed[m] + 1 /\ faults' = faults + 1
      BY <1>18, <2>1, <2>2 DEF Republish, Route, Live, At, Goto, Fault
    <3>9. queue'[m] + delayed'[m] + delivered'[m] + Weight(w)' + faults
           <= queue[m] + delayed[m] + delivered[m] + Weight(w) + faults'
      BY <1>t, <2>1, <3>1, <3>2 DEF Weight
    <3> QED BY <1>g, <3>9, <2>1, <3>1, <3>2
  <2>3. CASE m # msg[w]
    <3>1. ~Live(w, m) /\ ~Live(w, m)'
      BY <2>1, <2>3 DEF Live
    <3>2. delayed'[m] = delayed[m] /\ faults' >= faults
      BY <1>18, <2>1, <2>3 DEF Republish, Route, Fault
    <3>9. queue'[m] + delayed'[m] + delivered'[m] + Weight(w)' + faults
           <= queue[m] + delayed[m] + delivered[m] + Weight(w) + faults'
      BY <1>t, <2>1, <3>1, <3>2 DEF Weight
    <3> QED BY <1>g, <3>9, <2>1, <3>1, <3>2
  <2> QED BY <2>2, <2>3
<1>19. ASSUME NEW w \in Workers, Settle(w) PROVE (Copies(m) + delivered[m] <= 1 + faults)'
  <2>1. /\ UNCHANGED <<delayed, delivered, faults>> /\ msg[w] \in Msgs
        /\ \A v \in Workers : v # w => pc'[v] = pc[v] /\ msg'[v] = msg[v]
        /\ ~Live(w, m)'
    BY <1>19 DEF Settle, Goto, WorkerShape, Live
  <2>2. \/ queue'[m] = queue[m]
        \/ queue'[m] = queue[m] + 1 /\ Live(w, m)
    BY <1>19, <2>1 DEF Settle, Live
  <2>9. queue'[m] + delayed'[m] + delivered'[m] + Weight(w)' + faults
         <= queue[m] + delayed[m] + delivered[m] + Weight(w) + faults'
    BY <1>t, <2>1, <2>2 DEF Weight
  <2> QED BY <1>g, <2>9, <2>1, <2>2
<1>20. ASSUME NEW w \in Workers, CrashWorker(w) PROVE (Copies(m) + delivered[m] <= 1 + faults)'
  <2>1. /\ UNCHANGED <<delayed, delivered>> /\ msg[w] \in Msgs /\ faults' = faults + 1
        /\ \A v \in Workers : v # w => pc'[v] = pc[v] /\ msg'[v] = msg[v]
        /\ ~Live(w, m)'
    BY <1>20 DEF CrashWorker, Goto, WorkerShape, Live, At, Fault
  <2>2. queue'[m] <= queue[m] + 1
    BY <1>20, <2>1 DEF CrashWorker
  <2>9. queue'[m] + delayed'[m] + delivered'[m] + Weight(w)' + faults
         <= queue[m] + delayed[m] + delivered[m] + Weight(w) + faults'
    BY <1>t, <2>1, <2>2 DEF Weight
  <2> QED BY <1>g, <2>9, <2>1, <2>2
<1>23. ASSUME NEW w \in Workers, LoseConnection(w) PROVE (Copies(m) + delivered[m] <= 1 + faults)'
  <2>1. /\ UNCHANGED <<delayed, delivered>> /\ faults' = faults + 1
        /\ UNCHANGED <<pc, msg>> /\ (Live(w, m)' <=> Live(w, m))
        /\ pc[w] # "idle" => msg[w] \in Msgs
    BY <1>23 DEF LoseConnection, Live, Fault, WorkerShape
  <2>2. queue'[m] <= queue[m] + 1
    BY <1>23, <2>1 DEF LoseConnection, At
  <2>9. queue'[m] + delayed'[m] + delivered'[m] + Weight(w)' + faults
         <= queue[m] + delayed[m] + delivered[m] + Weight(w) + faults'
    BY <1>t, <2>1, <2>2 DEF Weight
  <2> QED BY <1>g, <2>9, <2>1
<1>24. ASSUME NEW w \in Workers, RestartWorker(w) PROVE (Copies(m) + delivered[m] <= 1 + faults)'
  <2>1. /\ UNCHANGED <<queue, delayed, delivered, faults>>
        /\ \A v \in Workers : v # w => pc'[v] = pc[v] /\ msg'[v] = msg[v]
        /\ ~Live(w, m)'
    BY <1>24 DEF RestartWorker, Goto, Live
  <2>9. queue'[m] + delayed'[m] + delivered'[m] + Weight(w)' + faults
         <= queue[m] + delayed[m] + delivered[m] + Weight(w) + faults'
    BY <1>t, <2>1 DEF Weight
  <2> QED BY <1>g, <2>9, <2>1
<1>21. ASSUME NEW x \in Msgs, DelayFires(x) PROVE (Copies(m) + delivered[m] <= 1 + faults)'
  <2>1. UNCHANGED <<delivered, pc, msg, faults>>
    BY <1>21 DEF DelayFires
  <2>2. queue'[m] + delayed'[m] = queue[m] + delayed[m]
    BY <1>21 DEF DelayFires
  <2>3. Cardinality(LiveLoops(m)') = Cardinality(LiveLoops(m))
    BY <2>1 DEF LiveLoops, Live
  <2> QED BY <1>a, <1>b, <1>c, <2>1, <2>2, <2>3 DEF Copies
<1>22. ASSUME UNCHANGED vars PROVE (Copies(m) + delivered[m] <= 1 + faults)'
  BY <1>22, <1>d DEF vars
<1> QED
  BY <1>1, <1>2, <1>3, <1>4, <1>5, <1>6, <1>7, <1>8, <1>9, <1>10, <1>11,
     <1>12, <1>13, <1>14, <1>15, <1>16, <1>17, <1>18, <1>19, <1>20, <1>21,
     <1>22, <1>23, <1>24
     DEF Next, Process

-----------------------------------------------------------------------------
(* What is sent stays so, where one loop serves a queue.                   *)

\* No two consumer loops take messages of one channel.
OneLoopPerQueue == \A v, w \in Workers : Serves[v] \cap Serves[w] # {} => v = w

\* A loop past the journal check holds a row that is not sent: no other loop
\* can have marked it since.
UnsentInHand ==
    \A w \in Workers :
        /\ msg[w] # None => ChannelOf(msg[w]) \in Serves[w]
        /\ msg[w] \in Rows /\ pc[w] \in {"build", "send", "incr", "fail", "republish"}
             => status[msg[w]] # "sent"

\* The idle loops hold nothing.
LEMMA UnsentInit == Init => UnsentInHand
BY NamesAreDistinct DEF Init, UnsentInHand, Msgs

\* A row becomes sent at the hands of the loop that holds it.
LEMMA UnsentStep ==
    ASSUME OneLoopPerQueue
    PROVE  TypeInv /\ Fresh /\ UnsentInHand /\ [Next]_vars => UnsentInHand'
<1> SUFFICES ASSUME TypeInv, Fresh, UnsentInHand, [Next]_vars PROVE UnsentInHand'
  OBVIOUS
<1> USE NamesAreDistinct DEF TypeInv, TypeOK,
        requestVars, journalVars, brokerVars, workerVars, recipientVars
<1>a. ASSUME UNCHANGED <<pc, msg>>,
             \A n \in Rows : status'[n] = "sent" => status[n] = "sent"
      PROVE  UnsentInHand'
  BY <1>a DEF UnsentInHand
<1>b. ASSUME UNCHANGED <<pc, msg, status>> PROVE UnsentInHand'
  BY <1>b DEF UnsentInHand
<1>c. ASSUME NEW w \in Workers, UNCHANGED <<msg, status>>,
             \A v \in Workers : v # w => pc'[v] = pc[v],
             pc[w] \in {"build", "send", "incr", "fail", "republish"}
               \/ pc'[w] \notin {"build", "send", "incr", "fail", "republish"}
      PROVE  UnsentInHand'
  BY <1>c DEF UnsentInHand
<1>1. ASSUME NEW s \in Subs, ConfirmSubscriber(s) PROVE UnsentInHand'
  BY <1>1, <1>b DEF ConfirmSubscriber
<1>2. ASSUME NEW s \in Subs, DeleteSubscriber(s) PROVE UnsentInHand'
  BY <1>2, <1>a DEF DeleteSubscriber
<1>3. ASSUME NEW e \in Events, Dispatch(e) PROVE UnsentInHand'
  BY <1>3, <1>b DEF Dispatch
<1>4. ASSUME NEW c \in Confirms, NEW s \in Subs, SendConfirmation(c, s) PROVE UnsentInHand'
  BY <1>4, <1>b DEF SendConfirmation
<1>5. ASSUME NEW r \in Requests, NEW s \in Subs, CreateNotification(r, s) PROVE UnsentInHand'
  <2>1. \A n \in Rows : status'[n] = "sent" => status[n] = "sent"
    BY <1>5 DEF CreateNotification
  <2> QED BY <1>5, <1>a, <2>1 DEF CreateNotification
<1>6. ASSUME NEW r \in Requests, Publish(r) PROVE UnsentInHand'
  BY <1>6, <1>b DEF Publish
<1>7. ASSUME NEW r \in Requests, FinishDispatch(r) PROVE UnsentInHand'
  BY <1>7, <1>b DEF FinishDispatch
<1>8. ASSUME NEW r \in Requests, CancelRequest(r) PROVE UnsentInHand'
  BY <1>8, <1>b DEF CancelRequest
<1>9. ASSUME CrashApi PROVE UnsentInHand'
  BY <1>9, <1>b DEF CrashApi
<1>10. ASSUME NEW l \in Links, SendAccessLink(l) PROVE UnsentInHand'
  BY <1>10, <1>b DEF SendAccessLink
<1>11. ASSUME NEW w \in Workers, NEW m \in Msgs, Receive(w, m) PROVE UnsentInHand'
  <2>1. /\ msg' = [msg EXCEPT ![w] = m] /\ UNCHANGED status
        /\ pc' = [pc EXCEPT ![w] = IF m \in Links THEN "build" ELSE "load"]
        /\ ChannelOf(m) \in Serves[w]
    BY <1>11 DEF Receive, Goto
  <2>2. m \in Rows => m \notin Links
    OBVIOUS
  <2> QED BY <2>1, <2>2 DEF UnsentInHand
<1>12. ASSUME NEW w \in Workers, Load(w) PROVE UnsentInHand'
  <2>1. /\ UNCHANGED <<msg, status>> /\ \A v \in Workers : v # w => pc'[v] = pc[v]
        /\ pc'[w] = "build" => status[msg[w]] # "sent"
        /\ pc'[w] \in {"ack", "build", "requeue"}
    BY <1>12 DEF Load, Goto, At
  <2> QED BY <2>1 DEF UnsentInHand
<1>13. ASSUME NEW w \in Workers, Build(w) PROVE UnsentInHand'
  BY <1>13, <1>c DEF Build, At, Goto
<1>14. ASSUME NEW w \in Workers, Send(w) PROVE UnsentInHand'
  BY <1>14, <1>c DEF Send, At, Goto
<1>15. ASSUME NEW w \in Workers, MarkSent(w) PROVE UnsentInHand'
  <2>1. /\ UNCHANGED msg /\ msg[w] \in Rows
        /\ \A v \in Workers : v # w => pc'[v] = pc[v]
        /\ pc'[w] \in {"ack", "requeue"}
        /\ \A n \in Rows : n # msg[w] => status'[n] = status[n]
    BY <1>15 DEF MarkSent, At, Goto, WorkerShape
  <2>2. \A v \in Workers : v # w => msg[v] # msg[w]
    <3> SUFFICES ASSUME NEW v \in Workers, msg[v] = msg[w] PROVE v = w
      OBVIOUS
    <3>1. msg[w] # None
      BY <2>1 DEF Msgs
    <3>2. ChannelOf(msg[w]) \in Serves[v] /\ ChannelOf(msg[w]) \in Serves[w]
      BY <3>1 DEF UnsentInHand
    <3>3. Serves[v] \cap Serves[w] # {}
      BY <3>2
    <3> QED BY <3>3 DEF OneLoopPerQueue
  <2> QED BY <2>1, <2>2 DEF UnsentInHand
<1>16. ASSUME NEW w \in Workers, IncrementAttempts(w) PROVE UnsentInHand'
  BY <1>16, <1>c DEF IncrementAttempts, At, Goto
<1>17. ASSUME NEW w \in Workers, MarkFailed(w) PROVE UnsentInHand'
  <2>1. /\ UNCHANGED msg
        /\ \A v \in Workers : v # w => pc'[v] = pc[v]
        /\ pc'[w] \in {"reject", "requeue"}
        /\ \A n \in Rows : status'[n] = "sent" => status[n] = "sent"
    BY <1>17 DEF MarkFailed, Goto
  <2> QED BY <2>1 DEF UnsentInHand
<1>18. ASSUME NEW w \in Workers, Republish(w) PROVE UnsentInHand'
  BY <1>18, <1>c DEF Republish, At, Goto
<1>19. ASSUME NEW w \in Workers, Settle(w) PROVE UnsentInHand'
  BY <1>19 DEF Settle, Goto, UnsentInHand
<1>20. ASSUME NEW w \in Workers, CrashWorker(w) PROVE UnsentInHand'
  BY <1>20 DEF CrashWorker, Goto, UnsentInHand
<1>23. ASSUME NEW w \in Workers, LoseConnection(w) PROVE UnsentInHand'
  BY <1>23, <1>b DEF LoseConnection
<1>24. ASSUME NEW w \in Workers, RestartWorker(w) PROVE UnsentInHand'
  BY <1>24 DEF RestartWorker, Goto, UnsentInHand
<1>21. ASSUME NEW m \in Msgs, DelayFires(m) PROVE UnsentInHand'
  BY <1>21, <1>b DEF DelayFires
<1>22. ASSUME UNCHANGED vars PROVE UnsentInHand'
  BY <1>22, <1>b DEF vars
<1> QED
  BY <1>1, <1>2, <1>3, <1>4, <1>5, <1>6, <1>7, <1>8, <1>9, <1>10, <1>11,
     <1>12, <1>13, <1>14, <1>15, <1>16, <1>17, <1>18, <1>19, <1>20, <1>21,
     <1>22, <1>23, <1>24
     DEF Next, Process

\* Only the insert of a new row and MarkNotificationFailed could overwrite it.
LEMMA SentStays ==
    TypeInv /\ Fresh /\ UnsentInHand /\ [Next]_vars =>
      \A n \in Rows : status[n] = "sent" => status'[n] \in {"sent", "gone"}
<1> SUFFICES ASSUME TypeInv, Fresh, UnsentInHand, [Next]_vars,
                    NEW n \in Rows, status[n] = "sent"
             PROVE  status'[n] \in {"sent", "gone"}
  OBVIOUS
<1> USE DEF TypeInv, TypeOK, requestVars, journalVars, brokerVars, workerVars, recipientVars
<1>1. ASSUME NEW s \in Subs, DeleteSubscriber(s) PROVE status'[n] \in {"sent", "gone"}
  BY <1>1 DEF DeleteSubscriber
<1>2. ASSUME NEW r \in Requests, NEW s \in Subs, CreateNotification(r, s)
      PROVE  status'[n] \in {"sent", "gone"}
  BY <1>2 DEF CreateNotification, Fresh
<1>3. ASSUME NEW w \in Workers, MarkSent(w) PROVE status'[n] \in {"sent", "gone"}
  BY <1>3 DEF MarkSent
<1>4. ASSUME NEW w \in Workers, MarkFailed(w) PROVE status'[n] \in {"sent", "gone"}
  BY <1>4 DEF MarkFailed, At, WorkerShape, UnsentInHand
<1>5. CASE UNCHANGED status
  BY <1>5
<1>6. \/ \E s \in Subs : DeleteSubscriber(s)
      \/ \E r \in Requests, s \in Subs : CreateNotification(r, s)
      \/ \E w \in Workers : MarkSent(w) \/ MarkFailed(w)
      \/ UNCHANGED status
  BY DEF Next, Process, vars, ConfirmSubscriber, Dispatch, SendConfirmation, Publish,
         FinishDispatch, CancelRequest, CrashApi, SendAccessLink, Receive, Load, Build,
         Send, IncrementAttempts, Republish, Settle, CrashWorker, LoseConnection,
         RestartWorker, DelayFires
<1> QED BY <1>1, <1>2, <1>3, <1>4, <1>5, <1>6

-----------------------------------------------------------------------------
(* The theorems.                                                           *)

IndInv ==
    /\ TypeInv
    /\ InTransitIsRouted
    /\ JournalInv
    /\ FanOutInv
    /\ RowBeforeMessage
    /\ NeverLost

\* The conjunction of the invariants is inductive.
THEOREM Inductive == Spec => []IndInv
<1>1. Init => IndInv
  BY TypeInit, RoutedInit, JournalInit, FanOutInit, RowInit, LostInit DEF IndInv
<1>2. IndInv /\ [Next]_vars => IndInv'
  BY TypeStep, RoutedStep, JournalStep, FanOutStep, RowStep, LostStep DEF IndInv
<1> QED BY <1>1, <1>2, PTL DEF Spec

\* Whatever the broker confirmed is delivered and recorded, forgotten with its
\* subscriber, refused for good, or still somewhere: Process acknowledges a
\* message only when one of these holds (worker.go, engine.go Retry).
THEOREM NothingIsLost == Spec => []NeverLost
BY Inductive, PTL DEF IndInv

\* MarkNotificationSent runs only after the recipient's server accepted.
THEOREM SentIsTrue == Spec => []SentMeansDelivered
<1>1. IndInv => SentMeansDelivered
  BY DEF IndInv, JournalInv
<1> QED BY <1>1, Inductive, PTL

\* MarkNotificationFailed runs only once the retry schedule is used up.
THEOREM FailedIsTrue == Spec => []FailedMeansExhausted
<1>1. IndInv => FailedMeansExhausted
  BY DEF IndInv, JournalInv
<1> QED BY <1>1, Inductive, PTL

\* After DELETE FROM subscribers no worker starts a delivery to it.
THEOREM UnsubscribeHolds == Spec => []UnsubscribedStaysQuiet
<1>1. IndInv => UnsubscribedStaysQuiet
  BY DEF IndInv, JournalInv
<1> QED BY <1>1, Inductive, PTL

\* A dispatch that ran to its end has dealt with everyone it selected.
THEOREM FanOutIsComplete == Spec => []FanOutCompletes
<1>1. IndInv => FanOutCompletes
  BY DEF IndInv, FanOutInv, FanOutCompletes
<1> QED BY <1>1, Inductive, PTL

\* A message is published once, and while it is routed, retried, requeued and
\* redelivered its copies and deliveries grow by faults alone.
THEOREM DuplicatesArePaid == Spec => []DuplicatesCostFaults
<1>1. Init => TypeInv /\ RowBeforeMessage /\ Fresh /\ CopiesArePaid
  BY TypeInit, RowInit, FreshInit, CopiesInit
<1>2. TypeInv /\ RowBeforeMessage /\ Fresh /\ CopiesArePaid /\ [Next]_vars
        => (TypeInv /\ RowBeforeMessage /\ Fresh /\ CopiesArePaid)'
  BY TypeStep, RowStep, FreshStep, CopiesStep
<1>3. TypeInv /\ CopiesArePaid => DuplicatesCostFaults
  <2> SUFFICES ASSUME TypeInv, CopiesArePaid, NEW m \in Msgs PROVE delivered[m] <= 1 + faults
    BY DEF DuplicatesCostFaults
  <2>1. Cardinality(LiveLoops(m)) \in Nat
    BY LoopsAreFinite, FS_Subset, FS_CardinalityType DEF LiveLoops
  <2> QED BY <2>1 DEF CopiesArePaid, Copies, TypeInv, TypeOK
<1> QED BY <1>1, <1>2, <1>3, PTL DEF Spec

\* Where one loop serves each queue nothing overwrites "sent", although the
\* UPDATE of MarkNotificationFailed does not look at the row.
THEOREM SentRemains == ASSUME OneLoopPerQueue PROVE Spec => SentIsFinal
<1>1. Init => TypeInv /\ RowBeforeMessage /\ Fresh /\ UnsentInHand
  BY TypeInit, RowInit, FreshInit, UnsentInit
<1>2. TypeInv /\ RowBeforeMessage /\ Fresh /\ UnsentInHand /\ [Next]_vars
        => (TypeInv /\ RowBeforeMessage /\ Fresh /\ UnsentInHand)'
  BY OneLoopPerQueue, TypeStep, RowStep, FreshStep, UnsentStep
<1>3. TypeInv /\ Fresh /\ UnsentInHand /\ [Next]_vars
        => [\A n \in Rows : status[n] = "sent" => status'[n] \in {"sent", "gone"}]_vars
  BY SentStays
<1> QED BY <1>1, <1>2, <1>3, PTL DEF Spec, SentIsFinal
=============================================================================
