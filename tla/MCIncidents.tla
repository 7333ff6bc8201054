----------------------------- MODULE MCIncidents -----------------------------
(***************************************************************************)
(* Instances of Incidents for TLC.                                         *)
(***************************************************************************)
EXTENDS Incidents, TLC

CONSTANT c1

\* What an incident says of c1, or that it touches no component at all.
Outage == [Nothing EXCEPT ![c1] = "major_outage"]
Slow == [Nothing EXCEPT ![c1] = "degraded_performance"]
EveryReport == {Outage, Slow, Nothing}
OutageOnly == {Outage}
Works == {[Nothing EXCEPT ![c1] = "under_maintenance"]}
NoWorks == {}

\* Requests and incidents are interchangeable.
Interchangeable == Permutations(Txs) \cup Permutations(Incidents)
==============================================================================
