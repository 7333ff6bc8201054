------------------------------ MODULE MCBilling ------------------------------
(***************************************************************************)
(* Instances of Billing for TLC.                                           *)
(***************************************************************************)
EXTENDS Billing, TLC

\* Accounts, ids of a kind and webhook executions are interchangeable.
Interchangeable ==
    Permutations(Accounts) \cup Permutations(FirstPayments)
        \cup Permutations(Renewals) \cup Permutations(Hooks)
==============================================================================
