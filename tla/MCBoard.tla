------------------------------- MODULE MCBoard -------------------------------
(***************************************************************************)
(* Instances of Board for TLC.                                             *)
(***************************************************************************)
EXTENDS Board, TLC

\* One component of each kind: grouped, private, informational, created down.  A
\* PATCH takes one out of its group.
MCAttributes ==
    LET of(g, private, display, s) ==
            [group |-> g, private |-> private, display |-> display, status |-> s]
        g == CHOOSE h \in Groups : TRUE
    IN {of(g, FALSE, TRUE, "operational"), of(g, TRUE, TRUE, "operational"),
        of(g, FALSE, FALSE, "operational"), of(g, FALSE, TRUE, "major_outage")}

\* Bodies that mention one attribute.
MCBodies ==
    {b \in [group : Groups \cup {None, Keep}, private : {Keep} \cup BOOLEAN,
            display : {Keep} \cup BOOLEAN, status : Statuses \cup {Keep}] :
        Cardinality({f \in DOMAIN b : b[f] # Keep}) = 1}

\* Components and pages are interchangeable.
Interchangeable == Permutations(Components) \cup Permutations(Pages)
==============================================================================
