----------------------------- MODULE MCSessions -----------------------------
(***************************************************************************)
(* Instances of Sessions for TLC.                                          *)
(***************************************************************************)
EXTENDS Sessions, TLC

\* Users, browsers and requests are interchangeable.
Interchangeable ==
    Permutations(Users) \cup Permutations(Browsers) \cup Permutations(Requests)
=============================================================================
