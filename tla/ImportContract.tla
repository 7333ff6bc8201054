---------------------------- MODULE ImportContract ----------------------------
(***************************************************************************)
(* What the importer promises whoever reads its verdict: what was carried  *)
(* over to a page stays carried over, and a job that reports a clean       *)
(* success has carried over everything the source has, except subscribers  *)
(* it failed to create: those it counts as skipped and says no more.       *)
(***************************************************************************)
CONSTANTS Jobs, Pages, Entities, Subscribers

VARIABLES
    missing,    \* Pages -> entities of the source the page does not have yet
    verdict,    \* Jobs -> <<>> or <<page, "open" | "clean" | "other">>
    skipped     \* Jobs -> subscribers that could not be created

vars == <<missing, verdict, skipped>>

Init ==
    /\ \E source \in SUBSET Entities : missing = [p \in Pages |-> source]
    /\ verdict = [j \in Jobs |-> <<>>]
    /\ skipped = [j \in Jobs |-> {}]

Submit(j, p) ==
    /\ verdict[j] = <<>>
    /\ verdict' = [verdict EXCEPT ![j] = <<p, "open">>]
    /\ UNCHANGED <<missing, skipped>>

\* A row may stand for several entities at once: all those of one address.
Import(p, rest) ==
    /\ missing' = [missing EXCEPT ![p] = rest]
    /\ UNCHANGED <<verdict, skipped>>

\* A verdict may be given again: a redelivered job is run once more.
Settle(j, v, S) ==
    /\ verdict[j] # <<>>
    /\ v = "clean" => missing[verdict[j][1]] \subseteq S
    /\ verdict' = [verdict EXCEPT ![j] = <<@[1], v>>]
    /\ skipped' = [skipped EXCEPT ![j] = S]
    /\ UNCHANGED missing

Next ==
    \/ \E j \in Jobs, p \in Pages : Submit(j, p)
    \/ \E p \in Pages : \E rest \in SUBSET missing[p] : Import(p, rest)
    \/ \E j \in Jobs, v \in {"open", "clean", "other"}, S \in SUBSET Subscribers :
         Settle(j, v, S)

Spec == Init /\ [][Next]_vars
===============================================================================
