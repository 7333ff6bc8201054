------------------------------- MODULE MCPages -------------------------------
(***************************************************************************)
(* Instances of Pages for TLC.                                             *)
(***************************************************************************)
EXTENDS Pages, TLC

Body(private, password, domain) ==
    [private |-> private, password |-> password, domain |-> domain]

\* Each field alone, none at all, and a body whose later part may be refused.
OneFieldEach ==
    {Body(Keep, Keep, Keep), Body(TRUE, Keep, Keep), Body(Keep, Keep, None)}
        \cup {Body(Keep, w, Keep) : w \in Passwords}
        \cup {Body(TRUE, Keep, d) : d \in Domains}

\* Pages and requests are interchangeable.
Interchangeable == Permutations(Pages) \cup Permutations(Requests)
==============================================================================
