------------------------------ MODULE MCDelivery ------------------------------
(***************************************************************************)
(* Instances of Delivery for TLC.  Subscribers are strings, so that their  *)
(* channel and scope can be given here; the rest are model values.         *)
(***************************************************************************)
EXTENDS Delivery, TLC

CONSTANTS w1, w2, k1, k2, e1

\* ann takes the whole page by e-mail, wes follows k1 through an outgoing
\* webhook, sam k2 through Slack, and the feed reader fay is never pushed to.
MCChannel == [s \in Subs |->
    CASE s = "ann" -> "email" [] s = "wes" -> "webhook"
      [] s = "sam" -> "slack" [] s = "fay" -> "rss"]
MCScope == [s \in Subs |->
    [page |-> s \in {"ann", "fay"},
     components |-> CASE s = "wes" -> {k1} [] s = "sam" -> {k2} [] OTHER -> {}]]

\* The first event touches k1, the others both components.
MCAffected == [e \in Events |-> IF e = e1 THEN {k1} ELSE {k1, k2}]

\* Every loop serves every queue that has a worker at all ...
ServeAll == [w \in Workers |-> {"email", "telegram", "slack", "webhook"}]
\* ... or, as deployed, worker-email and the two loops of worker-webhook.
ServeOwn == [w \in Workers |-> IF w = w1 THEN {"email"} ELSE {"slack", "webhook"}]

Replicas == Permutations(Workers)
=============================================================================
