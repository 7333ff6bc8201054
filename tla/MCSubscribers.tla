---------------------------- MODULE MCSubscribers ----------------------------
(***************************************************************************)
(* Instances of Subscribers for TLC.                                       *)
(***************************************************************************)
EXTENDS Subscribers, TLC

\* Requests and pages are interchangeable (safety only).
Interchangeable == Permutations(Requests) \cup Permutations(Pages)
==============================================================================
