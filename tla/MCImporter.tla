------------------------------ MODULE MCImporter ------------------------------
(***************************************************************************)
(* Source pages of Importer for TLC: two services of which the child comes *)
(* first in the order of ids; one service with a closed incident that has  *)
(* three updates; one without services, with planned work that has begun   *)
(* and a subscriber.                                                       *)
(***************************************************************************)
EXTENDS Importer

Service(parent, children, incident) ==
    [parent |-> parent, children |-> children, incident |-> incident]
NoIncidents == [major |-> <<<<>>>>, minor |-> <<<<>>>>, scheduled |-> <<<<>>>>]

TreePage ==
    [roots |-> <<2>>, service |-> <<Service(2, <<>>, ""), Service(0, <<1>>, "major")>>,
     incidents |-> NoIncidents, subscriptions |-> <<<<>>>>]
IncidentPage ==
    [roots |-> <<1>>, service |-> <<Service(0, <<>>, "")>>,
     incidents |-> [NoIncidents EXCEPT !.major =
        <<<<[id |-> 10, type |-> "major", start |-> 1, end |-> 2, services |-> {1},
             updates |-> <<"issue", "update", "resolved">>]>>>>],
     subscriptions |-> <<<<>>>>]
WorksPage ==
    [roots |-> <<>>, service |-> <<>>,
     incidents |-> [NoIncidents EXCEPT !.scheduled =
        <<<<[id |-> 20, type |-> "scheduled", start |-> 4, end |-> 0, services |-> {},
             updates |-> <<"issue">>]>>>>],
     subscriptions |-> <<<<[id |-> 30, channel |-> "email", email |-> "ann"],
                           [id |-> 31, channel |-> "sms", email |-> ""]>>>>]
EveryPage == {TreePage, IncidentPage, WorksPage}

\* On a page that has no rows yet both modes do the same.
UpdateSecond == <<{"skip"}, {"skip", "update"}>>
===============================================================================
