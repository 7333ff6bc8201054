----------------------------- MODULE BoardProofs -----------------------------
(***************************************************************************)
(* Theorems about the summary and the uptime of module Board, for any      *)
(* pages, groups, components and requests served at a time, any length of  *)
(* a day and any number of periods and of days.                            *)
(***************************************************************************)
EXTENDS Board, FiniteSetTheorems, TLAPS

AllStatuses == {"operational", "degraded_performance", "under_maintenance",
                "partial_outage", "major_outage"}

-----------------------------------------------------------------------------
(* WorstStatus: the choice is from a set that has a worst member.          *)

\* Every status has its place in the order.
LEMMA Severities ==
    /\ displaySeverity["operational"] = 0 /\ displaySeverity["degraded_performance"] = 1
    /\ displaySeverity["under_maintenance"] = 2 /\ displaySeverity["partial_outage"] = 3
    /\ displaySeverity["major_outage"] = 4
  BY DEF displaySeverity

\* The worst of some statuses is one of them, or "operational", and none is worse.
LEMMA WorstIsWorst ==
    ASSUME NEW S \in SUBSET AllStatuses
    PROVE  /\ WorstStatus(S) \in S \cup {"operational"}
           /\ \A t \in S : displaySeverity[t] <= displaySeverity[WorstStatus(S)]
<1>1. \E s \in S \cup {"operational"} : \A t \in S : displaySeverity[t] <= displaySeverity[s]
  <2>0. \A t \in S : t \in AllStatuses
    OBVIOUS
  <2>1. CASE "major_outage" \in S
    BY <2>0, <2>1, Severities DEF AllStatuses
  <2>2. CASE "major_outage" \notin S /\ "partial_outage" \in S
    BY <2>0, <2>2, Severities DEF AllStatuses
  <2>3. CASE /\ "major_outage" \notin S /\ "partial_outage" \notin S
             /\ "under_maintenance" \in S
    BY <2>0, <2>3, Severities DEF AllStatuses
  <2>4. CASE /\ "major_outage" \notin S /\ "partial_outage" \notin S
             /\ "under_maintenance" \notin S /\ "degraded_performance" \in S
    BY <2>0, <2>4, Severities DEF AllStatuses
  <2>5. CASE /\ "major_outage" \notin S /\ "partial_outage" \notin S
             /\ "under_maintenance" \notin S /\ "degraded_performance" \notin S
    BY <2>0, <2>5, Severities DEF AllStatuses
  <2> QED
    BY <2>1, <2>2, <2>3, <2>4, <2>5
<1>2. WorstStatus(S) = CHOOSE s \in S \cup {"operational"} :
                          \A t \in S : displaySeverity[t] <= displaySeverity[s]
  BY DEF WorstStatus
<1> HIDE DEF displaySeverity
<1> QED
  BY <1>1, <1>2

-----------------------------------------------------------------------------
(* The inductive invariant: between the two queries of a summary the       *)
(* groups read are the page's, but for those changed in the meantime; once *)
(* shown, the summary is built from them and from the components as they   *)
(* are.                                                                    *)

GroupsRead(gs, p) ==
    \A g \in Groups \ disturbed : g \in gs <=> g \in ListComponentGroupsByPage(p)

SummaryInv ==
    /\ visit.pc = "components" => visit.groups \in SUBSET Groups /\ GroupsRead(visit.groups, visit.page)
    /\ visit.pc = "shown" => \E gs \in SUBSET Groups :
         /\ GroupsRead(gs, visit.page)
         /\ visit.summary = BuildPublicSummary(gs,
                              [c \in ListComponentsByPage(visit.page) |-> comps[c]])

Inv == TypeOK /\ SummaryInv

\* A step of somebody else: what it changes it marks, and it ends what was shown.
LEMMA OthersStep ==
    ASSUME SummaryInv, Answered,
           Serving => /\ disturbed \subseteq disturbed'
                      /\ \A g \in Groups \ disturbed' : groups'[g] = groups[g]
    PROVE  SummaryInv'
<1>1. CASE ~Serving
  BY <1>1 DEF Answered, SummaryInv, NoVisit
<1>2. CASE Serving
  <2>1. visit' = visit /\ visit.pc # "shown"
    BY <1>2 DEF Answered, Serving
  <2>2. ASSUME visit.pc = "components" PROVE GroupsRead(visit.groups, visit.page)'
    BY <1>2, <2>1, <2>2 DEF SummaryInv, GroupsRead, ListComponentGroupsByPage, ComponentGroupByID
  <2> QED
    BY <2>1, <2>2 DEF SummaryInv
<1> QED
  BY <1>1, <1>2

\* Disturb marks and answers.
LEMMA DisturbMarks ==
    ASSUME TypeOK, NEW x \in Groups \cup Components, Disturb(x)
    PROVE  /\ Answered /\ disturbed' \subseteq Groups \cup Components
           /\ Serving => disturbed \subseteq disturbed' /\ x \in disturbed'
           /\ visit'.pc \in {"none", "components", "history", "shown", "reported"}
  BY DEF Disturb, Answered, Serving, TypeOK, NoVisit

LEMMA InputCounts ==
    ASSUME TypeOK, Input
    PROVE  inputs' \in 0..MaxInputs
  BY BoardConstants DEF TypeOK, Input

-----------------------------------------------------------------------------
(* Groups.                                                                 *)

LEMMA GroupsStep ==
    ASSUME Inv, NEW g \in Groups, handleDeleteGroup(g) \/ \E p \in Pages : handleCreateGroup(g, p)
    PROVE  Inv'
<1>0. /\ TypeOK /\ SummaryInv /\ Input /\ Disturb(g) /\ UNCHANGED <<comps, history, req, now, log>>
      /\ groups \in [Groups -> {None} \cup GroupRow]
  BY DEF Inv, handleDeleteGroup, handleCreateGroup, TypeOK
<1>1. PICK row \in GroupRow : groups' = [groups EXCEPT ![g] = row]
  <2>1. CASE handleDeleteGroup(g)
    <3> DEFINE row == [groups[g] EXCEPT !.live = FALSE]
    <3>1. groups[g] \in GroupRow
      BY <1>0, <2>1 DEF handleDeleteGroup, ComponentGroupByID
    <3>2. row \in GroupRow
      BY <3>1 DEF GroupRow
    <3>3. groups' = [groups EXCEPT ![g] = row]
      BY <1>0, <2>1 DEF handleDeleteGroup, SoftDeleteComponentGroup
    <3> QED
      BY <3>2, <3>3
  <2>2. CASE \E p \in Pages : handleCreateGroup(g, p)
    <3>1. PICK p \in Pages : handleCreateGroup(g, p)
      BY <2>2
    <3>2. [page |-> p, live |-> TRUE] \in GroupRow
      BY DEF GroupRow
    <3> QED
      BY <3>1, <3>2 DEF handleCreateGroup, CreateComponentGroup
  <2> QED
    BY <2>1, <2>2
<1>2. /\ groups' \in [Groups -> {None} \cup GroupRow]
      /\ \A h \in Groups : h # g => groups'[h] = groups[h]
  BY <1>0, <1>1
<1>3. /\ Answered /\ disturbed' \subseteq Groups \cup Components
      /\ Serving => disturbed \subseteq disturbed' /\ g \in disturbed'
      /\ visit'.pc \in {"none", "components", "history", "shown", "reported"}
  BY <1>0, DisturbMarks
<1>4. SummaryInv'
  BY <1>0, <1>2, <1>3, OthersStep
<1>5. TypeOK'
  BY <1>0, <1>2, <1>3, InputCounts DEF TypeOK
<1> QED
  BY <1>4, <1>5 DEF Inv

-----------------------------------------------------------------------------
(* Components.                                                             *)

\* A step on component c: its row, its history and the requests may change.
LEMMA ComponentStep ==
    ASSUME Inv, NEW c \in Components, Disturb(c), UNCHANGED <<groups, now, log>>,
           comps' \in [Components -> {None} \cup ComponentRow],
           history' \in [Components -> Seq(Period)],
           req' \in [Requests -> {NoRequest}
             \cup [pc : {"update"}, comp : Components, copy : ComponentRow, status : Statuses \cup {Keep}]
             \cup [pc : {"status"}, comp : Components, copy : ComponentRow, status : Statuses]],
           inputs' \in 0..MaxInputs
    PROVE  Inv'
<1>1. TypeOK /\ SummaryInv
  BY DEF Inv
<1>2. /\ Answered /\ disturbed' \subseteq Groups \cup Components
      /\ Serving => disturbed \subseteq disturbed'
      /\ visit'.pc \in {"none", "components", "history", "shown", "reported"}
  BY <1>1, DisturbMarks
<1>3. SummaryInv'
  BY <1>1, <1>2, OthersStep
<1>4. TypeOK'
  BY <1>1, <1>2 DEF TypeOK
<1> QED
  BY <1>3, <1>4 DEF Inv

\* Closing the open period and opening a new one keeps the record a record.
LEMMA PeriodOpens ==
    ASSUME NEW h \in Seq(Period), NEW s \in Statuses, now \in Nat
    PROVE  OpenStatusPeriod(h, s) \in Seq(Period)
<1> DEFINE closed == CloseOpenStatusPeriod(h)
<1>1. ASSUME NEW i \in 1..Len(h)
      PROVE  (IF h[i].end = None THEN [h[i] EXCEPT !.end = now] ELSE h[i]) \in Period
  <2>1. h[i] \in Period
    OBVIOUS
  <2>2. [h[i] EXCEPT !.end = now] \in Period
    BY <2>1 DEF Period
  <2> QED
    BY <2>1, <2>2
<1>2. closed \in [1..Len(h) -> Period]
  BY <1>1 DEF CloseOpenStatusPeriod
<1>3. closed \in Seq(Period)
  <2>1. Len(h) \in Nat
    OBVIOUS
  <2> HIDE DEF closed
  <2> QED
    BY <1>2, <2>1
<1>4. [status |-> s, start |-> now, end |-> None] \in Period
  BY DEF Period
<1> HIDE DEF closed
<1>5. Append(closed, [status |-> s, start |-> now, end |-> None]) \in Seq(Period)
  BY <1>3, <1>4
<1> QED
  BY <1>5 DEF OpenStatusPeriod, closed

\* ChangeComponentStatus keeps the tables what they are.
LEMMA StatusChanges ==
    ASSUME TypeOK, NEW c \in Components, NEW s \in Statuses, ChangeComponentStatus(c, s)
    PROVE  /\ comps' \in [Components -> {None} \cup ComponentRow]
           /\ history' \in [Components -> Seq(Period)]
<1>0. /\ comps \in [Components -> {None} \cup ComponentRow] /\ history \in [Components -> Seq(Period)]
      /\ now \in Nat
  BY DEF TypeOK
<1>1. CASE ~ComponentByID(c) /\ UNCHANGED <<comps, history>>
  BY <1>0, <1>1
<1>2. CASE SetComponentStatus(c, s) /\ history' = [history EXCEPT ![c] = OpenStatusPeriod(@, s)]
  <2> DEFINE row == [comps[c] EXCEPT !.status = s]
             h == OpenStatusPeriod(history[c], s)
  <2>1. comps[c] \in ComponentRow
    BY <1>0, <1>2 DEF SetComponentStatus, ComponentByID
  <2>2. row \in ComponentRow
    BY <2>1 DEF ComponentRow
  <2>3. comps' = [comps EXCEPT ![c] = row]
    BY <1>0, <1>2 DEF SetComponentStatus
  <2>4. h \in Seq(Period)
    BY <1>0, PeriodOpens
  <2>5. history' = [history EXCEPT ![c] = h]
    BY <1>2
  <2> HIDE DEF row, h
  <2> QED
    BY <1>0, <2>2, <2>3, <2>4, <2>5
<1> QED
  BY <1>1, <1>2 DEF ChangeComponentStatus

LEMMA ComponentIsCreated ==
    ASSUME Inv, NEW c \in Components, NEW p \in Pages, NEW a \in Attributes,
           handleCreateComponent(c, p, a)
    PROVE  Inv'
<1>0. /\ TypeOK /\ Disturb(c) /\ UNCHANGED <<groups, history, req, now, log>> /\ Input
      /\ comps' = [comps EXCEPT ![c] = NewRow(a, p, now)]
  BY DEF Inv, handleCreateComponent, CreateComponent
<1>1. /\ a.group \in Groups \cup {None} /\ a.private \in BOOLEAN /\ a.display \in BOOLEAN
      /\ a.status \in Statuses
  BY BoardConstants
<1>2. NewRow(a, p, now) \in ComponentRow
  BY <1>0, <1>1 DEF NewRow, ComponentRow, TypeOK
<1>3. comps' \in [Components -> {None} \cup ComponentRow]
  BY <1>0, <1>2 DEF TypeOK
<1>4. inputs' \in 0..MaxInputs
  BY <1>0, InputCounts
<1> QED
  BY <1>0, <1>3, <1>4, ComponentStep DEF TypeOK

LEMMA ComponentIsDeleted ==
    ASSUME Inv, NEW c \in Components, handleDeleteComponent(c)
    PROVE  Inv'
<1>0. /\ TypeOK /\ Disturb(c) /\ UNCHANGED <<groups, history, req, now, log>> /\ Input
      /\ comps \in [Components -> {None} \cup ComponentRow]
  BY DEF Inv, handleDeleteComponent, TypeOK
<1> DEFINE row == [comps[c] EXCEPT !.live = FALSE]
<1>1. comps[c] \in ComponentRow
  BY <1>0 DEF handleDeleteComponent, ComponentByID
<1>2. row \in ComponentRow
  BY <1>1 DEF ComponentRow
<1>3. comps' = [comps EXCEPT ![c] = row]
  BY <1>0 DEF handleDeleteComponent, SoftDeleteComponent
<1> HIDE DEF row
<1>4. comps' \in [Components -> {None} \cup ComponentRow]
  BY <1>0, <1>2, <1>3
<1>5. inputs' \in 0..MaxInputs
  BY <1>0, InputCounts
<1> QED
  BY <1>0, <1>4, <1>5, ComponentStep DEF TypeOK

LEMMA StatusIsDerived ==
    ASSUME Inv, NEW c \in Components, NEW s \in Statuses, Derive(c, s)
    PROVE  Inv'
<1>0. /\ TypeOK /\ Disturb(c) /\ UNCHANGED <<groups, req, now, log>> /\ Input
      /\ ChangeComponentStatus(c, s)
  BY DEF Inv, Derive
<1>1. inputs' \in 0..MaxInputs
  BY <1>0, InputCounts
<1> QED
  BY <1>0, <1>1, StatusChanges, ComponentStep DEF TypeOK

-----------------------------------------------------------------------------
(* PATCH.                                                                  *)

RequestRows ==
    {NoRequest}
    \cup [pc : {"update"}, comp : Components, copy : ComponentRow, status : Statuses \cup {Keep}]
    \cup [pc : {"status"}, comp : Components, copy : ComponentRow, status : Statuses]

\* What a request in progress holds.
LEMMA RequestFacts ==
    ASSUME TypeOK, NEW r \in Requests
    PROVE  /\ req \in [Requests -> RequestRows] /\ NoRequest \in RequestRows
           /\ NoRequest.pc = "idle"
           /\ req[r].pc = "update" =>
                req[r] \in [pc : {"update"}, comp : Components, copy : ComponentRow,
                            status : Statuses \cup {Keep}]
           /\ req[r].pc = "status" =>
                req[r] \in [pc : {"status"}, comp : Components, copy : ComponentRow,
                            status : Statuses]
<1>1. req \in [Requests -> RequestRows] /\ NoRequest \in RequestRows /\ NoRequest.pc = "idle"
  BY DEF TypeOK, RequestRows, NoRequest
<1>2. req[r] \in RequestRows
  BY <1>1
<1> QED
  BY <1>1, <1>2 DEF RequestRows

\* The body is laid over the row as it was read.
LEMMA CopyIsRow ==
    ASSUME NEW row \in ComponentRow, NEW body \in Bodies
    PROVE  [row EXCEPT !.group = Over(@, body.group), !.private = Over(@, body.private),
                       !.display = Over(@, body.display)] \in ComponentRow
<1>1. /\ body.group \in Groups \cup {None, Keep} /\ body.private \in {Keep} \cup BOOLEAN
      /\ body.display \in {Keep} \cup BOOLEAN
  BY BoardConstants
<1>2. PICK g \in Groups \cup {None} : g = Over(row.group, body.group)
  BY <1>1 DEF Over, ComponentRow
<1>3. Over(row.private, body.private) \in BOOLEAN /\ Over(row.display, body.display) \in BOOLEAN
  <2>1. row.private \in BOOLEAN /\ row.display \in BOOLEAN
    BY DEF ComponentRow
  <2>2. CASE body.private = Keep
    BY <1>1, <2>1, <2>2 DEF Over
  <2>3. CASE body.private # Keep
    BY <1>1, <2>1, <2>3 DEF Over
  <2> QED
    BY <2>2, <2>3
<1>4. PICK a \in BOOLEAN : a = Over(row.private, body.private)
  BY <1>3
<1>5. PICK b \in BOOLEAN : b = Over(row.display, body.display)
  BY <1>3
<1>6. [row EXCEPT !.group = g, !.private = a, !.display = b] \in ComponentRow
  BY DEF ComponentRow
<1>7. [row EXCEPT !.group = Over(@, body.group), !.private = Over(@, body.private),
                  !.display = Over(@, body.display)]
       = [row EXCEPT !.group = g, !.private = a, !.display = b]
  BY <1>2, <1>4, <1>5
<1> QED
  BY <1>6, <1>7

LEMMA PatchBegins ==
    ASSUME Inv, NEW r \in Requests, NEW c \in Components, NEW body \in Bodies,
           handlePatchComponent(r, c, body)
    PROVE  Inv'
<1>0. /\ TypeOK /\ SummaryInv /\ Answered /\ Input /\ ComponentByID(c)
      /\ UNCHANGED <<groups, comps, history, now, log, disturbed>>
  BY DEF Inv, handlePatchComponent
<1> DEFINE copy == [comps[c] EXCEPT !.group = Over(@, body.group),
                                    !.private = Over(@, body.private),
                                    !.display = Over(@, body.display)]
           q == [pc |-> "update", comp |-> c, status |-> body.status, copy |-> copy]
<1>1. comps[c] \in ComponentRow
  BY <1>0 DEF ComponentByID, TypeOK
<1>2. copy \in ComponentRow
  BY <1>1, CopyIsRow
<1>3. req' = [req EXCEPT ![r] = q]
  BY DEF handlePatchComponent
<1>4. body.status \in Statuses \cup {Keep}
  BY BoardConstants
<1> HIDE DEF copy
<1>5. q \in RequestRows
  BY <1>2, <1>4 DEF RequestRows
<1> HIDE DEF q
<1>6. req' \in [Requests -> RequestRows]
  BY <1>0, <1>3, <1>5, RequestFacts
<1>7. inputs' \in 0..MaxInputs
  BY <1>0, InputCounts
<1>8. visit'.pc \in {"none", "components", "history", "shown", "reported"}
  BY <1>0 DEF Answered, TypeOK, NoVisit
<1>9. TypeOK'
  BY <1>0, <1>6, <1>7, <1>8 DEF TypeOK, RequestRows
<1>10. SummaryInv'
  BY <1>0, OthersStep
<1> QED
  BY <1>9, <1>10 DEF Inv

LEMMA AttributesAreWritten ==
    ASSUME Inv, NEW r \in Requests, PatchAttributes(r)
    PROVE  Inv'
<1>0. TypeOK /\ req[r].pc = "update" /\ UNCHANGED <<groups, history, now, log, inputs>>
  BY DEF Inv, PatchAttributes
<1>1. req[r] \in [pc : {"update"}, comp : Components, copy : ComponentRow, status : Statuses \cup {Keep}]
  BY <1>0, RequestFacts
<1>2. PICK c \in Components : c = req[r].comp
  BY <1>1
<1>3. PICK copy \in ComponentRow : copy = req[r].copy
  BY <1>1
<1>4. /\ UpdateComponent(c, copy) /\ Disturb(c)
      /\ req' = [req EXCEPT ![r] =
                   IF ComponentByID(c) /\ req[r].status \notin {Keep, comps[c].status}
                   THEN [@ EXCEPT !.pc = "status"] ELSE NoRequest]
  BY <1>2, <1>3 DEF PatchAttributes
<1>5. comps' \in [Components -> {None} \cup ComponentRow]
  <2>0. comps \in [Components -> {None} \cup ComponentRow]
    BY <1>0 DEF TypeOK
  <2>1. CASE ~ComponentByID(c)
    BY <1>4, <2>0, <2>1 DEF UpdateComponent
  <2>2. CASE ComponentByID(c)
    <3> DEFINE row == [comps[c] EXCEPT !.group = copy.group, !.private = copy.private,
                                       !.display = copy.display]
    <3>1. comps[c] \in ComponentRow
      BY <2>0, <2>2 DEF ComponentByID
    <3>2. row \in ComponentRow
      BY <3>1 DEF ComponentRow
    <3>3. comps' = [comps EXCEPT ![c] = row]
      BY <1>4, <2>0, <2>2 DEF UpdateComponent
    <3> HIDE DEF row
    <3> QED
      BY <2>0, <3>2, <3>3
  <2> QED
    BY <2>1, <2>2
<1>6. req' \in [Requests -> RequestRows]
  <2> DEFINE q == [req[r] EXCEPT !.pc = "status"]
  <2>1. CASE req[r].status \notin {Keep, comps[c].status} /\ ComponentByID(c)
    <3>1. q \in RequestRows
      BY <1>1, <2>1 DEF RequestRows
    <3>2. req' = [req EXCEPT ![r] = q]
      BY <1>4, <2>1
    <3> HIDE DEF q
    <3> QED
      BY <1>0, <3>1, <3>2, RequestFacts
  <2>2. CASE ~(req[r].status \notin {Keep, comps[c].status} /\ ComponentByID(c))
    <3>1. req' = [req EXCEPT ![r] = NoRequest]
      BY <1>4, <2>2
    <3> QED
      BY <1>0, <3>1, RequestFacts
  <2> QED
    BY <2>1, <2>2
<1>7. history' \in [Components -> Seq(Period)] /\ inputs' \in 0..MaxInputs
  BY <1>0 DEF TypeOK
<1> QED
  BY <1>0, <1>4, <1>5, <1>6, <1>7, ComponentStep DEF RequestRows

LEMMA StatusIsPatched ==
    ASSUME Inv, NEW r \in Requests, PatchStatus(r)
    PROVE  Inv'
<1>0. TypeOK /\ req[r].pc = "status" /\ UNCHANGED <<groups, now, log, inputs>>
      /\ req' = [req EXCEPT ![r] = NoRequest]
  BY DEF Inv, PatchStatus
<1>1. req[r] \in [pc : {"status"}, comp : Components, copy : ComponentRow, status : Statuses]
  BY <1>0, RequestFacts
<1>2. PICK c \in Components : c = req[r].comp
  BY <1>1
<1>3. PICK s \in Statuses : s = req[r].status
  BY <1>1
<1>4. ChangeComponentStatus(c, s) /\ Disturb(c)
  BY <1>2, <1>3 DEF PatchStatus
<1>5. req' \in [Requests -> RequestRows]
  BY <1>0, RequestFacts
<1>6. inputs' \in 0..MaxInputs
  BY <1>0 DEF TypeOK
<1> QED
  BY <1>0, <1>4, <1>5, <1>6, StatusChanges, ComponentStep DEF RequestRows

LEMMA TickStep ==
    ASSUME Inv, Tick
    PROVE  Inv'
<1>0. /\ TypeOK /\ SummaryInv /\ Answered /\ now < Horizon /\ now' = now + 1
      /\ UNCHANGED <<groups, comps, history, req, disturbed, inputs>>
      /\ log' = [c \in Components |->
                   IF comps[c] = None THEN log[c] ELSE Append(log[c], Recorded(c))]
  BY DEF Inv, Tick
<1>1. now' \in 0..Horizon
  BY <1>0, BoardConstants DEF TypeOK
<1>2. ASSUME NEW c \in Components
      PROVE  Recorded(c) \in Statuses \cup {"operational"}
  <2>1. CASE history[c] = <<>>
    BY <2>1 DEF Recorded
  <2>2. CASE history[c] # <<>>
    <3>1. history[c] \in Seq(Period)
      BY <1>0 DEF TypeOK
    <3>2. Last(history[c]) \in Period
      BY <2>2, <3>1 DEF Last
    <3> QED
      BY <2>2, <3>2 DEF Recorded, Period
  <2> QED
    BY <2>1, <2>2
<1>3. log' \in [Components -> Seq(Statuses \cup {"operational"})]
  <2>1. log \in [Components -> Seq(Statuses \cup {"operational"})]
    BY <1>0 DEF TypeOK
  <2>2. ASSUME NEW c \in Components
        PROVE  Append(log[c], Recorded(c)) \in Seq(Statuses \cup {"operational"})
    BY <1>2, <2>1
  <2> QED
    BY <1>0, <2>1, <2>2
<1>4. visit'.pc \in {"none", "components", "history", "shown", "reported"}
  BY <1>0 DEF Answered, TypeOK, NoVisit
<1>5. TypeOK'
  BY <1>0, <1>1, <1>3, <1>4 DEF TypeOK
<1>6. SummaryInv'
  BY <1>0, OthersStep
<1> QED
  BY <1>5, <1>6 DEF Inv

-----------------------------------------------------------------------------
(* The visitor.                                                            *)

LEMMA VisitStep ==
    ASSUME Inv,
           \/ \E p \in Pages : handlePublicSummary(p)
           \/ SummaryComponents \/ UptimeHistory
           \/ \E c \in Components, days \in Periods : handleUptime(c, days)
    PROVE  Inv'
<1>0. TypeOK /\ SummaryInv
  BY DEF Inv
<1>1. CASE \E p \in Pages : handlePublicSummary(p)
  <2>1. PICK p \in Pages : handlePublicSummary(p)
    BY <1>1
  <2>2. /\ visit'.pc = "components" /\ visit'.page = p /\ visit'.groups = ListComponentGroupsByPage(p)
        /\ disturbed' = {} /\ UNCHANGED <<groups, comps, history, req, now, log, inputs>>
    BY <2>1 DEF handlePublicSummary
  <2>3. visit'.groups \in SUBSET Groups
    BY <2>2 DEF ListComponentGroupsByPage
  <2>4. TypeOK'
    BY <1>0, <2>2 DEF TypeOK
  <2>5. SummaryInv'
    BY <2>2, <2>3 DEF SummaryInv, GroupsRead, ListComponentGroupsByPage, ComponentGroupByID
  <2> QED
    BY <2>4, <2>5 DEF Inv
<1>2. CASE SummaryComponents
  <2>1. /\ visit.pc = "components" /\ visit'.pc = "shown" /\ visit'.page = visit.page
        /\ visit'.summary = BuildPublicSummary(visit.groups,
                               [c \in ListComponentsByPage(visit.page) |-> comps[c]])
        /\ UNCHANGED <<groups, comps, history, req, now, log, disturbed, inputs>>
    BY <1>2 DEF SummaryComponents
  <2>2. TypeOK'
    BY <1>0, <2>1 DEF TypeOK
  <2>3. PICK gs \in SUBSET Groups : gs = visit.groups /\ GroupsRead(gs, visit.page)
    BY <1>0, <2>1 DEF SummaryInv
  <2>4. GroupsRead(gs, visit.page)'
    BY <2>1, <2>3 DEF GroupsRead, ListComponentGroupsByPage, ComponentGroupByID
  <2>5. ListComponentsByPage(visit.page)' = ListComponentsByPage(visit.page)
    BY <2>1 DEF ListComponentsByPage, ComponentByID
  <2>6. [c \in ListComponentsByPage(visit.page) |-> comps[c]]'
          = [c \in ListComponentsByPage(visit.page) |-> comps[c]]
    BY <2>1, <2>5
  <2>7. visit'.summary = BuildPublicSummary(gs,
                            [c \in ListComponentsByPage(visit.page) |-> comps[c]]')
    BY <2>1, <2>3, <2>6
  <2>8. SummaryInv'
    BY <2>1, <2>4, <2>7 DEF SummaryInv
  <2> QED
    BY <2>2, <2>8 DEF Inv
<1>3. CASE UptimeHistory \/ \E c \in Components, days \in Periods : handleUptime(c, days)
  <2>1. /\ visit'.pc \in {"reported", "history"} /\ disturbed' \in {disturbed, {}}
        /\ UNCHANGED <<groups, comps, history, req, now, log, inputs>>
    BY <1>3 DEF UptimeHistory, handleUptime
  <2>2. TypeOK'
    BY <1>0, <2>1 DEF TypeOK
  <2>3. SummaryInv'
    BY <2>1 DEF SummaryInv
  <2> QED
    BY <2>2, <2>3 DEF Inv
<1> QED
  BY <1>1, <1>2, <1>3

-----------------------------------------------------------------------------
(* The record of statuses.  The log of the model takes down, instant by    *)
(* instant, what status a component had; the periods must tell the same.   *)

\* Period i of h holds instant t: a period ends before its end.
Holds(h, i, t) == h[i].start <= t /\ (h[i].end = None \/ t < h[i].end)

\* The instants the log of c covers, and what it says of one of them.
Logged(c) == comps[c].created..(now - 1)
Said(c, t) == log[c][t - comps[c].created + 1]

\* Nothing is recorded of a component before it is created, and every instant after.
Kept(c) ==
    IF comps[c] = None THEN history[c] = <<>> /\ log[c] = <<>>
    ELSE comps[c].created <= now /\ Len(log[c]) = now - comps[c].created

\* Periods follow one another; the last, and no other, is open.
InOrder(h) ==
    /\ \A i \in 1..Len(h) : /\ h[i].start <= now
                            /\ h[i].end = None <=> i = Len(h)
                            /\ i < Len(h) => h[i].start <= h[i].end /\ h[i].end <= now
    /\ \A i, j \in 1..Len(h) : i < j => h[i].end <= h[j].start

\* Whatever instant is asked for, some period holds it with the logged
\* status, or the component was operational before its first period.
Tells(c) ==
    \A t \in Logged(c) :
      \/ Said(c, t) = "operational" /\ \A i \in 1..Len(history[c]) : t < history[c][i].start
      \/ \E i \in 1..Len(history[c]) :
           Holds(history[c], i, t) /\ Said(c, t) = history[c][i].status

Chronicle ==
    \A c \in Components : Kept(c) /\ InOrder(history[c]) /\ (comps[c] # None => Tells(c))

\* The fields OpenStatusPeriod leaves and changes.
LEMMA OpenedPeriod ==
    ASSUME NEW h \in Seq(Period), NEW s \in Statuses, now \in Nat
    PROVE  LET k == OpenStatusPeriod(h, s) IN
           /\ Len(k) = Len(h) + 1
           /\ \A i \in 1..Len(h) :
                /\ k[i].start = h[i].start /\ k[i].status = h[i].status
                /\ k[i].end = IF h[i].end = None THEN now ELSE h[i].end
           /\ k[Len(h) + 1].start = now /\ k[Len(h) + 1].end = None
<1> DEFINE closed == CloseOpenStatusPeriod(h)
           last == [status |-> s, start |-> now, end |-> None]
<1>1. Len(h) \in Nat /\ \A i \in 1..Len(h) : h[i] \in Period
  OBVIOUS
<1>2. ASSUME NEW i \in 1..Len(h)
      PROVE  /\ closed[i].start = h[i].start /\ closed[i].status = h[i].status
             /\ closed[i].end = IF h[i].end = None THEN now ELSE h[i].end
             /\ closed[i] \in Period
  <2>1. closed[i] = IF h[i].end = None THEN [h[i] EXCEPT !.end = now] ELSE h[i]
    BY DEF CloseOpenStatusPeriod
  <2> QED
    BY <1>1, <2>1 DEF Period
<1>3. closed \in [1..Len(h) -> Period]
  <2>1. closed = [i \in 1..Len(h) |-> closed[i]]
    BY DEF CloseOpenStatusPeriod
  <2> HIDE DEF closed
  <2> QED
    BY <1>2, <2>1
<1>4. closed \in Seq(Period) /\ Len(closed) = Len(h)
  <2> HIDE DEF closed
  <2> QED
    BY <1>1, <1>3
<1>5. last \in Period /\ last.start = now /\ last.end = None
  BY DEF Period
<1>6. OpenStatusPeriod(h, s) = Append(closed, last)
  BY DEF OpenStatusPeriod
<1> HIDE DEF closed, last
<1>7. /\ Len(Append(closed, last)) = Len(h) + 1
      /\ \A i \in 1..Len(h) : Append(closed, last)[i] = closed[i]
      /\ Append(closed, last)[Len(h) + 1] = last
  BY <1>1, <1>4, <1>5
<1> QED
  BY <1>2, <1>5, <1>6, <1>7

\* A step that leaves the record alone and creates nothing.
LEMMA RecordStays ==
    ASSUME Chronicle, UNCHANGED <<history, log, now>>,
           \A c \in Components : /\ comps'[c] = None <=> comps[c] = None
                                 /\ comps[c] # None => comps'[c].created = comps[c].created
    PROVE  Chronicle'
<1> SUFFICES ASSUME NEW c \in Components
             PROVE  (Kept(c) /\ InOrder(history[c]) /\ (comps[c] # None => Tells(c)))'
  BY DEF Chronicle
<1>1. Kept(c) /\ InOrder(history[c]) /\ (comps[c] # None => Tells(c))
  BY DEF Chronicle
<1>2. Kept(c)'
  BY <1>1 DEF Kept
<1>3. InOrder(history[c])'
  BY <1>1 DEF InOrder
<1>4. (comps[c] # None => Tells(c))'
  BY <1>1 DEF Tells, Logged, Said, Holds
<1> QED
  BY <1>2, <1>3, <1>4

\* A new component has no period and no instant behind it.
LEMMA CreationIsKept ==
    ASSUME Inv, Chronicle, NEW c \in Components, NEW p \in Pages, NEW a \in Attributes,
           handleCreateComponent(c, p, a)
    PROVE  Chronicle'
<1>0. /\ comps[c] = None /\ UNCHANGED <<history, log, now>>
      /\ comps' = [comps EXCEPT ![c] = NewRow(a, p, now)]
      /\ comps \in [Components -> {None} \cup ComponentRow] /\ now \in Nat
  BY DEF handleCreateComponent, CreateComponent, Inv, TypeOK
<1> SUFFICES ASSUME NEW d \in Components
             PROVE  (Kept(d) /\ InOrder(history[d]) /\ (comps[d] # None => Tells(d)))'
  BY DEF Chronicle
<1>1. Kept(d) /\ InOrder(history[d]) /\ (comps[d] # None => Tells(d))
  BY DEF Chronicle
<1>2. InOrder(history[d])'
  BY <1>0, <1>1 DEF InOrder
<1>3. CASE d # c
  <2>1. comps'[d] = comps[d]
    BY <1>0, <1>3
  <2>2. Kept(d)'
    BY <1>0, <1>1, <2>1 DEF Kept
  <2>3. (comps[d] # None => Tells(d))'
    BY <1>0, <1>1, <2>1 DEF Tells, Logged, Said, Holds
  <2> QED
    BY <1>2, <2>2, <2>3
<1>4. CASE d = c
  <2>1. comps'[c] = NewRow(a, p, now) /\ NewRow(a, p, now).created = now
    BY <1>0 DEF NewRow
  <2>2. history'[c] = <<>> /\ log'[c] = <<>>
    BY <1>0, <1>1, <1>4 DEF Kept
  <2>3. Kept(c)'
    BY <1>0, <2>1, <2>2 DEF Kept
  <2>4. Logged(c)' = {}
    BY <1>0, <2>1 DEF Logged
  <2>5. Tells(c)'
    BY <2>4 DEF Tells
  <2> QED
    BY <1>2, <1>4, <2>3, <2>5
<1> QED
  BY <1>3, <1>4

\* OpenStatusPeriod ends the open period where the new one starts.
LEMMA OpeningKeepsOrder ==
    ASSUME NEW h \in Seq(Period), NEW s \in Statuses, now \in Nat, InOrder(h)
    PROVE  InOrder(OpenStatusPeriod(h, s))
<1> DEFINE k == OpenStatusPeriod(h, s)
           n == Len(h)
<1>0. n \in Nat /\ None \notin Nat
  BY BoardConstants
<1>1. /\ Len(k) = n + 1
      /\ \A i \in 1..n : /\ k[i].start = h[i].start
                         /\ k[i].end = IF h[i].end = None THEN now ELSE h[i].end
      /\ k[n + 1].start = now /\ k[n + 1].end = None
  BY OpenedPeriod
<1>2. \A i \in 1..n : h[i].start \in Nat /\ h[i].end \in Nat \cup {None} /\ h[i].start <= now
  <2>1. \A i \in 1..n : h[i] \in Period
    OBVIOUS
  <2> QED
    BY <2>1 DEF InOrder, Period
<1>3. \A i \in 1..n : (h[i].end = None <=> i = n) /\ (i < n => h[i].start <= h[i].end /\ h[i].end <= now)
  BY DEF InOrder
<1>4. \A i, j \in 1..n : i < j => h[i].end <= h[j].start
  BY DEF InOrder
<1> HIDE DEF k, n
<1>5. ASSUME NEW i \in 1..n
      PROVE  k[i].end \in Nat /\ k[i].start <= k[i].end /\ k[i].end <= now
  BY <1>0, <1>1, <1>2, <1>3
<1>6. ASSUME NEW i \in 1..(n + 1)
      PROVE  /\ k[i].start <= now
             /\ k[i].end = None <=> i = n + 1
             /\ i < n + 1 => k[i].start <= k[i].end /\ k[i].end <= now
  <2>1. CASE i \in 1..n
    <3>1. k[i].end # None /\ i # n + 1
      BY <1>0, <1>5, <2>1
    <3> QED
      BY <1>1, <1>2, <1>5, <2>1, <3>1
  <2>2. CASE i = n + 1
    BY <1>0, <1>1, <2>2
  <2> QED
    BY <1>0, <2>1, <2>2
<1>7. ASSUME NEW i \in 1..(n + 1), NEW j \in 1..(n + 1), i < j
      PROVE  k[i].end <= k[j].start
  <2>1. i \in 1..n
    BY <1>0, <1>7
  <2>2. CASE j = n + 1
    BY <1>1, <1>5, <2>1, <2>2
  <2>3. CASE j \in 1..n
    <3>1. i # n
      BY <1>0, <1>7, <2>3
    <3>2. k[i].end = h[i].end
      BY <1>1, <1>3, <2>1, <3>1
    <3> QED
      BY <1>1, <1>4, <1>7, <2>1, <2>3, <3>2
  <2> QED
    BY <1>0, <2>2, <2>3
<1>8. InOrder(k)
  BY <1>1, <1>6, <1>7 DEF InOrder
<1> QED
  BY <1>8 DEF k

\* A change of status keeps what the record tells of the past.
LEMMA ChangeIsKept ==
    ASSUME Inv, Chronicle, NEW c \in Components, NEW s \in Statuses,
           ChangeComponentStatus(c, s), UNCHANGED <<log, now>>
    PROVE  Chronicle'
<1>0. /\ comps \in [Components -> {None} \cup ComponentRow] /\ now \in Nat
      /\ history \in [Components -> Seq(Period)] /\ history[c] \in Seq(Period)
  BY DEF Inv, TypeOK
<1>1. CASE ~ComponentByID(c) /\ UNCHANGED <<comps, history>>
  BY <1>1, RecordStays
<1>2. CASE SetComponentStatus(c, s) /\ history' = [history EXCEPT ![c] = OpenStatusPeriod(@, s)]
  <2> DEFINE row == [comps[c] EXCEPT !.status = s]
  <2>1. comps[c] \in ComponentRow /\ comps' = [comps EXCEPT ![c] = row]
    BY <1>0, <1>2 DEF SetComponentStatus, ComponentByID
  <2>2. row.created = comps[c].created
    BY <2>1 DEF ComponentRow
  <2> HIDE DEF row
  <2>3. ASSUME NEW d \in Components, d # c
        PROVE  (Kept(d) /\ InOrder(history[d]) /\ (comps[d] # None => Tells(d)))'
    <3>1. comps'[d] = comps[d] /\ history'[d] = history[d]
      BY <1>0, <1>2, <2>1, <2>3
    <3>2. Kept(d) /\ InOrder(history[d]) /\ (comps[d] # None => Tells(d))
      BY DEF Chronicle
    <3>3. Kept(d)'
      BY <3>1, <3>2 DEF Kept
    <3>4. InOrder(history[d])'
      BY <3>1, <3>2 DEF InOrder
    <3>5. (comps[d] # None => Tells(d))'
      BY <3>1, <3>2 DEF Tells, Logged, Said, Holds
    <3> QED
      BY <3>3, <3>4, <3>5
  <2>4. (Kept(c) /\ InOrder(history[c]) /\ (comps[c] # None => Tells(c)))'
    <3> DEFINE h == history[c]
               k == OpenStatusPeriod(h, s)
               n == Len(h)
    <3>0. /\ comps[c] # None /\ comps'[c].created = comps[c].created /\ comps[c].created \in Nat
          /\ history'[c] = k
      BY <1>0, <1>2, <2>1, <2>2 DEF SetComponentStatus, ComponentByID, ComponentRow
    <3>1. Kept(c) /\ InOrder(h) /\ Tells(c)
      BY <3>0 DEF Chronicle
    <3>2. /\ Len(k) = n + 1 /\ n \in Nat
          /\ \A i \in 1..n :
               /\ k[i].start = h[i].start /\ k[i].status = h[i].status
               /\ k[i].end = IF h[i].end = None THEN now ELSE h[i].end
          /\ k[n + 1].start = now
      BY <1>0, OpenedPeriod
    <3>3. InOrder(k)
      BY <1>0, <3>1, OpeningKeepsOrder
    <3>4. comps'[c] # None
      <4>1. row \in ComponentRow /\ comps'[c] = row
        BY <1>0, <2>1 DEF ComponentRow, row
      <4>2. None \notin ComponentRow
        BY BoardConstants
      <4> QED
        BY <4>1, <4>2
    <3>5. Kept(c)'
      BY <3>0, <3>1, <3>4 DEF Kept
    <3> HIDE DEF h, k, n
    <3>6. ASSUME NEW t \in Logged(c)
          PROVE  \/ Said(c, t) = "operational" /\ \A i \in 1..Len(k) : t < k[i].start
                 \/ \E i \in 1..Len(k) : Holds(k, i, t) /\ Said(c, t) = k[i].status
      <4>0. t \in Int /\ t < now
        BY <1>0, <3>0, <3>6 DEF Logged
      <4>1. CASE Said(c, t) = "operational" /\ \A i \in 1..n : t < h[i].start
        BY <3>2, <4>0, <4>1
      <4>2. CASE \E i \in 1..n : Holds(h, i, t) /\ Said(c, t) = h[i].status
        <5>1. PICK i \in 1..n : Holds(h, i, t) /\ Said(c, t) = h[i].status
          BY <4>2
        <5>2. Holds(k, i, t) /\ Said(c, t) = k[i].status
          BY <3>2, <4>0, <5>1 DEF Holds
        <5> QED
          BY <3>2, <5>2
      <4> QED
        BY <3>1, <3>6, <4>1, <4>2 DEF Tells, h, n
    <3>7. Logged(c)' = Logged(c) /\ \A t : Said(c, t)' = Said(c, t)
      BY <3>0 DEF Logged, Said
    <3>8. Tells(c)'
      BY <3>0, <3>6, <3>7 DEF Tells, Holds
    <3>9. InOrder(history[c])'
      BY <3>0, <3>3 DEF InOrder
    <3> QED
      BY <3>5, <3>8, <3>9
  <2> QED
    BY <2>3, <2>4 DEF Chronicle
<1> QED
  BY <1>1, <1>2 DEF ChangeComponentStatus

\* An instant passes: it is held by the open period, or by none if none began.
LEMMA InstantIsTold ==
    ASSUME Inv, Chronicle, Tick
    PROVE  Chronicle'
<1>0. /\ comps \in [Components -> {None} \cup ComponentRow] /\ now \in Nat
      /\ history \in [Components -> Seq(Period)]
      /\ log \in [Components -> Seq(Statuses \cup {"operational"})]
      /\ now' = now + 1 /\ UNCHANGED <<comps, history>>
      /\ log' = [c \in Components |->
                   IF comps[c] = None THEN log[c] ELSE Append(log[c], Recorded(c))]
  BY DEF Inv, TypeOK, Tick
<1> SUFFICES ASSUME NEW c \in Components
             PROVE  (Kept(c) /\ InOrder(history[c]) /\ (comps[c] # None => Tells(c)))'
  BY DEF Chronicle
<1>1. Kept(c) /\ InOrder(history[c]) /\ (comps[c] # None => Tells(c))
  BY DEF Chronicle
<1> DEFINE h == history[c]
<1>2. h \in Seq(Period) /\ \A i \in 1..Len(h) : h[i].start \in Nat /\ h[i].end \in Nat \cup {None}
  <2>1. h \in Seq(Period)
    BY <1>0
  <2>2. \A i \in 1..Len(h) : h[i] \in Period
    BY <2>1
  <2> QED
    BY <2>1, <2>2 DEF Period
<1>3. InOrder(h)'
  <2>1. \A i \in 1..Len(h) : /\ h[i].start <= now
                             /\ h[i].end = None <=> i = Len(h)
                             /\ i < Len(h) => h[i].start <= h[i].end /\ h[i].end <= now
    BY <1>1 DEF InOrder
  <2>2. \A i, j \in 1..Len(h) : i < j => h[i].end <= h[j].start
    BY <1>1 DEF InOrder
  <2>3. \A i \in 1..Len(h) : /\ h[i].start <= now + 1
                             /\ i < Len(h) => h[i].end <= now + 1
    <3> SUFFICES ASSUME NEW i \in 1..Len(h)
                 PROVE  /\ h[i].start <= now + 1
                        /\ i < Len(h) => h[i].end <= now + 1
      OBVIOUS
    <3>1. h[i].start \in Nat /\ h[i].end \in Nat \cup {None} /\ Len(h) \in Nat
      BY <1>2
    <3>2. h[i].start <= now + 1
      BY <1>0, <2>1, <3>1
    <3>3. ASSUME i < Len(h) PROVE h[i].end <= now + 1
      <4>1. h[i].end # None
        BY <2>1, <3>1, <3>3
      <4> QED
        BY <1>0, <2>1, <3>1, <3>3, <4>1
    <3> QED
      BY <3>2, <3>3
  <2>4. h' = h
    BY <1>0
  <2> HIDE DEF h
  <2> QED
    BY <1>0, <2>1, <2>2, <2>3, <2>4 DEF InOrder
<1>4. CASE comps[c] = None
  <2>1. log'[c] = log[c]
    BY <1>0, <1>4
  <2> QED
    BY <1>0, <1>1, <1>3, <1>4, <2>1 DEF Kept
<1>5. CASE comps[c] # None
  <2> DEFINE l == log[c]
             e == Recorded(c)
  <2>0. comps[c] \in ComponentRow
    BY <1>0, <1>5
  <2>a. PICK b \in Nat : b = comps[c].created
    BY <2>0 DEF ComponentRow
  <2>1. /\ b <= now /\ l \in Seq(Statuses \cup {"operational"}) /\ Len(l) = now - b
        /\ log'[c] = Append(l, e) /\ comps'[c].created = b
    BY <1>0, <1>1, <1>5, <2>a DEF Kept
  <2>2. e = IF h = <<>> THEN "operational" ELSE h[Len(h)].status
    BY DEF Recorded, Last
  <2> HIDE DEF e, l
  <2>3. e \in Statuses \cup {"operational"}
    <3>1. CASE h = <<>>
      BY <2>2, <3>1
    <3>2. CASE h # <<>>
      <4>1. h[Len(h)] \in Period
        BY <1>2, <3>2
      <4> QED
        BY <2>2, <3>2, <4>1 DEF Period
    <3> QED
      BY <3>1, <3>2
  <2>4. /\ Len(Append(l, e)) = now + 1 - b /\ Append(l, e)[now - b + 1] = e
        /\ \A i \in 1..(now - b) : Append(l, e)[i] = l[i]
    <3>1. /\ Len(Append(l, e)) = Len(l) + 1 /\ Append(l, e)[Len(l) + 1] = e
          /\ \A i \in 1..Len(l) : Append(l, e)[i] = l[i]
      BY <2>1, <2>3
    <3>2. Len(l) + 1 = now + 1 - b /\ Len(l) + 1 = now - b + 1
      BY <1>0, <2>1
    <3> QED
      BY <2>1, <3>1, <3>2
  <2>5. Kept(c)'
    <3>1. comps'[c] # None
      BY <1>0, <1>5
    <3>2. Len(log'[c]) = now' - b
      BY <1>0, <2>1, <2>4
    <3>3. b <= now'
      BY <1>0, <2>1
    <3> QED
      BY <2>1, <3>1, <3>2, <3>3 DEF Kept
  <2>6. ASSUME NEW t \in b..now
        PROVE  LET said == Append(l, e)[t - b + 1] IN
               \/ said = "operational" /\ \A i \in 1..Len(h) : t < h[i].start
               \/ \E i \in 1..Len(h) : Holds(h, i, t) /\ said = h[i].status
    <3>1. CASE t = now
      <4>1. Append(l, e)[t - b + 1] = e
        BY <2>4, <3>1
      <4>2. CASE h = <<>>
        <5>1. e = "operational" /\ 1..Len(h) = {}
          BY <2>2, <4>2
        <5> QED
          BY <4>1, <5>1
      <4>3. CASE h # <<>>
        <5>1. Len(h) \in 1..Len(h)
          BY <1>2, <4>3
        <5>2. Holds(h, Len(h), t)
          BY <1>1, <3>1, <5>1 DEF InOrder, Holds
        <5> QED
          BY <2>2, <4>1, <4>3, <5>1, <5>2
      <4> QED
        BY <4>2, <4>3
    <3>2. CASE t # now
      <4>0. t \in b..(now - 1)
        BY <1>0, <3>2
      <4>1. t \in Logged(c) /\ t - b + 1 \in 1..(now - b)
        <5>1. t \in Logged(c)
          BY <2>a, <4>0 DEF Logged
        <5>2. t - b + 1 \in 1..(now - b)
          BY <1>0, <4>0
        <5> QED
          BY <5>1, <5>2
      <4>2. Append(l, e)[t - b + 1] = Said(c, t)
        BY <2>4, <2>a, <4>1 DEF Said, l
      <4> QED
        BY <1>1, <1>5, <4>1, <4>2 DEF Tells
    <3> QED
      BY <3>1, <3>2
  <2>7. Tells(c)'
    <3>1. Logged(c)' = b..now
      BY <1>0, <2>1 DEF Logged
    <3>2. \A t : Said(c, t)' = Append(l, e)[t - b + 1]
      BY <2>1 DEF Said
    <3> QED
      BY <1>0, <2>6, <3>1, <3>2 DEF Tells, Holds
  <2> QED
    BY <1>3, <2>5, <2>7
<1> QED
  BY <1>4, <1>5

LEMMA ChronicleInit ==
    ASSUME Init
    PROVE  Chronicle
<1> SUFFICES ASSUME NEW c \in Components
             PROVE  Kept(c) /\ InOrder(history[c]) /\ (comps[c] # None => Tells(c))
  BY DEF Chronicle
<1>1. history[c] = <<>> /\ log[c] = <<>> /\ now = 0
  BY DEF Init
<1>2. comps[c] # None => comps[c].created = 0
  <2> DEFINE R == {NewRow(a, p, 0) : a \in {b \in Attributes : GroupExists(b.group)}, p \in Pages}
  <2>1. \A row \in R : row.created = 0
    BY DEF NewRow
  <2>2. comps \in [Components -> {None} \cup R]
    BY DEF Init
  <2> HIDE DEF R
  <2> QED
    BY <2>1, <2>2
<1>3. Kept(c)
  BY <1>1, <1>2 DEF Kept
<1>4. InOrder(history[c])
  BY <1>1 DEF InOrder
<1>5. comps[c] # None => Logged(c) = {}
  BY <1>1, <1>2 DEF Logged
<1> QED
  BY <1>3, <1>4, <1>5 DEF Tells

LEMMA ChronicleStep ==
    ASSUME Inv, Chronicle, [Next]_vars
    PROVE  Chronicle'
<1>0. comps \in [Components -> {None} \cup ComponentRow] /\ None \notin ComponentRow
  BY BoardConstants DEF Inv, TypeOK
<1>1. CASE \/ UNCHANGED vars
           \/ \E g \in Groups : handleDeleteGroup(g) \/ \E p \in Pages : handleCreateGroup(g, p)
           \/ \E r \in Requests, c \in Components, body \in Bodies : handlePatchComponent(r, c, body)
           \/ \E p \in Pages : handlePublicSummary(p)
           \/ SummaryComponents \/ UptimeHistory
           \/ \E c \in Components, days \in Periods : handleUptime(c, days)
  <2>1. UNCHANGED <<comps, history, log, now>>
    BY <1>1 DEF vars, handleDeleteGroup, handleCreateGroup, handlePatchComponent,
                handlePublicSummary, SummaryComponents, UptimeHistory, handleUptime
  <2> QED
    BY <2>1, RecordStays
<1>2. CASE \E c \in Components : handleDeleteComponent(c)
  <2>1. PICK c \in Components : handleDeleteComponent(c)
    BY <1>2
  <2> DEFINE row == [comps[c] EXCEPT !.live = FALSE]
  <2>2. /\ comps[c] \in ComponentRow /\ comps' = [comps EXCEPT ![c] = row]
        /\ UNCHANGED <<history, log, now>>
    BY <1>0, <2>1 DEF handleDeleteComponent, ComponentByID, SoftDeleteComponent
  <2>3. row \in ComponentRow /\ row.created = comps[c].created
    BY <2>2 DEF ComponentRow
  <2> HIDE DEF row
  <2>4. \A d \in Components : comps'[d] = IF d = c THEN row ELSE comps[d]
    BY <1>0, <2>2
  <2> QED
    BY <1>0, <2>2, <2>3, <2>4, RecordStays
<1>3. CASE \E r \in Requests : PatchAttributes(r)
  <2>1. PICK r \in Requests : PatchAttributes(r)
    BY <1>3
  <2>2. PICK c \in Components : c = req[r].comp
    BY <2>1, RequestFacts DEF Inv, PatchAttributes
  <2>3. UNCHANGED <<history, log, now>> /\ UpdateComponent(c, req[r].copy)
    BY <2>1, <2>2 DEF PatchAttributes
  <2>4. CASE ~ComponentByID(c)
    <3>1. UNCHANGED comps
      BY <2>3, <2>4 DEF UpdateComponent
    <3> QED
      BY <2>3, <3>1, RecordStays
  <2>5. CASE ComponentByID(c)
    <3> DEFINE row == [comps[c] EXCEPT !.group = req[r].copy.group, !.private = req[r].copy.private,
                                       !.display = req[r].copy.display]
    <3>1. comps[c] \in ComponentRow /\ req[r].copy \in ComponentRow
      BY <1>0, <2>1, <2>5, RequestFacts DEF ComponentByID, Inv, PatchAttributes
    <3>2. comps' = [comps EXCEPT ![c] = row]
      BY <1>0, <2>3, <2>5 DEF UpdateComponent
    <3>3. row \in ComponentRow /\ row.created = comps[c].created
      BY <3>1 DEF ComponentRow
    <3> HIDE DEF row
    <3>4. \A d \in Components : comps'[d] = IF d = c THEN row ELSE comps[d]
      BY <1>0, <3>2
    <3> QED
      BY <1>0, <2>3, <3>1, <3>3, <3>4, RecordStays
  <2> QED
    BY <2>4, <2>5
<1>4. CASE \E r \in Requests : PatchStatus(r)
  <2>1. PICK r \in Requests : PatchStatus(r)
    BY <1>4
  <2>2. PICK c \in Components, s \in Statuses : c = req[r].comp /\ s = req[r].status
    BY <2>1, RequestFacts DEF Inv, PatchStatus
  <2>3. ChangeComponentStatus(c, s) /\ UNCHANGED <<log, now>>
    BY <2>1, <2>2 DEF PatchStatus
  <2> QED
    BY <2>3, ChangeIsKept
<1>5. CASE \E c \in Components, s \in Statuses : Derive(c, s)
  <2>1. PICK c \in Components, s \in Statuses : Derive(c, s)
    BY <1>5
  <2>2. ChangeComponentStatus(c, s) /\ UNCHANGED <<log, now>>
    BY <2>1 DEF Derive
  <2> QED
    BY <2>2, ChangeIsKept
<1>6. CASE \E c \in Components, p \in Pages, a \in Attributes : handleCreateComponent(c, p, a)
  BY <1>6, CreationIsKept
<1>7. CASE Tick
  BY <1>7, InstantIsTold
<1> QED
  BY <1>1, <1>2, <1>3, <1>4, <1>5, <1>6, <1>7 DEF Next

-----------------------------------------------------------------------------
(* What the record answers when the uptime is asked for.                   *)

\* Any instant at or after since has one period among those fetched, and the
\* logged status is its status; or the component was operational from the start.
Answers(c, since) ==
    \A t \in Logged(c) : t >= since =>
      \/ /\ Said(c, t) = "operational"
         /\ \A j \in 1..Len(history[c]) : ~Holds(history[c], j, t)
      \/ \E i \in StatusHistorySince(history[c], since) :
           /\ Said(c, t) = history[c][i].status
           /\ \A j \in 1..Len(history[c]) : Holds(history[c], j, t) <=> j = i

RecordAnswers ==
    \A c \in Components, since \in Int : comps[c] # None => Answers(c, since)

\* No instant is held by two periods.
LEMMA OnePeriodHolds ==
    ASSUME NEW h \in Seq(Period), InOrder(h), NEW i \in 1..Len(h), NEW j \in 1..Len(h), NEW t \in Int,
           Holds(h, i, t), Holds(h, j, t)
    PROVE  i = j
<1>0. /\ Len(h) \in Nat /\ None \notin Nat
      /\ \A k \in 1..Len(h) : h[k].start \in Nat /\ h[k].end \in Nat \cup {None}
  <2>1. \A k \in 1..Len(h) : h[k] \in Period
    OBVIOUS
  <2> QED
    BY <2>1, BoardConstants DEF Period
<1>1. ASSUME NEW k \in 1..Len(h), NEW l \in 1..Len(h), k < l, Holds(h, k, t), Holds(h, l, t)
      PROVE  FALSE
  <2>1. h[k].end # None
    BY <1>0, <1>1 DEF InOrder
  <2>2. h[k].end <= h[l].start
    BY <1>1 DEF InOrder
  <2> QED
    BY <1>0, <1>1, <2>1, <2>2 DEF Holds
<1> QED
  BY <1>0, <1>1

LEMMA ChronicleAnswers ==
    ASSUME Inv, Chronicle
    PROVE  RecordAnswers
<1> SUFFICES ASSUME NEW c \in Components, NEW since \in Int, comps[c] # None,
                    NEW t \in Logged(c), t >= since
             PROVE  \/ /\ Said(c, t) = "operational"
                       /\ \A j \in 1..Len(history[c]) : ~Holds(history[c], j, t)
                    \/ \E i \in StatusHistorySince(history[c], since) :
                         /\ Said(c, t) = history[c][i].status
                         /\ \A j \in 1..Len(history[c]) : Holds(history[c], j, t) <=> j = i
  BY DEF RecordAnswers, Answers
<1> DEFINE h == history[c]
<1>0. /\ h \in Seq(Period) /\ InOrder(h) /\ Tells(c) /\ t \in Int
      /\ \A k \in 1..Len(h) : h[k].start \in Nat /\ h[k].end \in Nat \cup {None}
  <2>1. h \in Seq(Period) /\ comps[c] \in ComponentRow /\ now \in Nat
    BY DEF Inv, TypeOK
  <2>2. \A k \in 1..Len(h) : h[k] \in Period
    BY <2>1
  <2>3. t \in Int
    BY <2>1 DEF Logged, ComponentRow
  <2> QED
    BY <2>1, <2>2, <2>3 DEF Chronicle, Period
<1>1. CASE Said(c, t) = "operational" /\ \A i \in 1..Len(h) : t < h[i].start
  BY <1>0, <1>1 DEF Holds
<1>2. CASE \E i \in 1..Len(h) : Holds(h, i, t) /\ Said(c, t) = h[i].status
  <2>1. PICK i \in 1..Len(h) : Holds(h, i, t) /\ Said(c, t) = h[i].status
    BY <1>2
  <2>2. i \in StatusHistorySince(h, since)
    BY <1>0, <2>1 DEF StatusHistorySince, Holds
  <2>3. \A j \in 1..Len(h) : Holds(h, j, t) <=> j = i
    BY <1>0, <2>1, OnePeriodHolds
  <2> QED
    BY <2>1, <2>2, <2>3
<1> QED
  BY <1>0, <1>1, <1>2 DEF Tells

-----------------------------------------------------------------------------
(* Sums.  SumFunction is a fold: the CHOICE of a recursive function.  That *)
(* there is such a function is shown by giving one, that it is the only    *)
(* one by taking a smallest set on which two of them differ.               *)

\* f is a sum over the subsets of D, one element taken out at a time.
SumsUp(f, a, D) ==
    f = [s \in SUBSET D |->
           IF s = {} THEN 0 ELSE a[CHOOSE x \in s : TRUE] + f[s \ {CHOOSE x \in s : TRUE}]]

LEMMA SumUnfolds ==
  ASSUME NEW a, NEW g, SumsUp(g, a, DOMAIN a)
  PROVE  \E f : SumsUp(f, a, DOMAIN a) /\ SumFunction(a) = f[DOMAIN a]
<1> DEFINE D == DOMAIN a
           f == CHOOSE i : i = [s \in SUBSET D |->
                  IF s = {} THEN 0 ELSE a[CHOOSE x \in s : TRUE] + i[s \ {CHOOSE x \in s : TRUE}]]
<1>1. SumsUp(f, a, D)
  BY DEF SumsUp
<1>2. SumFunction(a) = f[D]
  BY DEF SumFunction, SumFunctionOnSet, FoldFunctionOnSet, MapThenFoldSet
<1> HIDE DEF f
<1> QED BY <1>1, <1>2

\* A finite set has no two such sums.
LEMMA SumIsUnique ==
  ASSUME NEW D, IsFiniteSet(D), NEW a, NEW f, NEW g, SumsUp(f, a, D), SumsUp(g, a, D)
  PROVE  f[D] = g[D]
<1> DEFINE bad == {s \in SUBSET D : f[s] # g[s]}
           R == StrictSubsetOrdering(D)
<1>1. SUFFICES ASSUME bad # {} PROVE FALSE
  BY DEF SumsUp
<1>2. IsWellFoundedOn(R, SUBSET D)
  BY FS_StrictSubsetOrderingWellFounded, FS_FiniteSubsetsOfFinite
<1>3. PICK s \in bad : \A t \in bad : <<t, s>> \notin R
  <2>1. bad \subseteq SUBSET D
    OBVIOUS
  <2> HIDE DEF bad, R
  <2> QED
    BY <1>1, <1>2, <2>1, WFMin
<1>4. s \in SUBSET D /\ f[s] # g[s]
  OBVIOUS
<1>5. s # {}
  BY <1>4 DEF SumsUp
<1>6. PICK x \in s : x = CHOOSE y \in s : TRUE
  BY <1>5
<1>7. /\ f[s] = a[x] + f[s \ {x}] /\ g[s] = a[x] + g[s \ {x}]
  BY <1>4, <1>5, <1>6 DEF SumsUp
<1>8. s \ {x} \in bad
  BY <1>4, <1>7
<1>9. <<s \ {x}, s>> \in R
  <2>1. s \ {x} \in SUBSET D /\ s \ {x} \subseteq s /\ s \ {x} # s
    BY <1>4, <1>6
  <2> QED
    BY <1>4, <2>1 DEF StrictSubsetOrdering
<1> QED
  BY <1>3, <1>8, <1>9

\* U is made of the disjoint finite sets B[x] for x in D, and a gives their sizes.
Parts(D, B, a, U) ==
    /\ a = [x \in D |-> a[x]]
    /\ \A x \in D : IsFiniteSet(B[x]) /\ a[x] = Cardinality(B[x])
    /\ \A x, y \in D : x # y => B[x] \cap B[y] = {}
    /\ \A u : u \in U <=> \E x \in D : u \in B[x]

\* Adding up the sizes of the parts gives the size of the whole.
LEMMA SumOfSizes ==
    ASSUME NEW D, IsFiniteSet(D), NEW B, NEW a, NEW U, Parts(D, B, a, U)
    PROVE  IsFiniteSet(U) /\ SumFunction(a) = Cardinality(U)
<1>0. /\ a = [x \in D |-> a[x]]
      /\ \A x \in D : IsFiniteSet(B[x]) /\ a[x] = Cardinality(B[x])
      /\ \A x, y \in D : x # y => B[x] \cap B[y] = {}
      /\ \A u : u \in U <=> \E x \in D : u \in B[x]
  BY DEF Parts
<1> DEFINE Of(s) == UNION {B[x] : x \in s}
           g == [s \in SUBSET D |-> Cardinality(Of(s))]
<1>1. ASSUME NEW s \in SUBSET D PROVE IsFiniteSet(Of(s))
  <2> DEFINE W == {B[x] : x \in s}
  <2>1. IsFiniteSet(s)
    BY FS_Subset
  <2>2. IsFiniteSet(W)
    <3> DEFINE F == [x \in s |-> B[x]]
    <3>1. F \in Surjection(s, W)
      BY DEF Surjection
    <3> HIDE DEF F, W
    <3> QED
      BY <2>1, <3>1, FS_Surjection
  <2>3. \A T \in W : IsFiniteSet(T)
    BY <1>0
  <2>4. Of(s) = UNION W
    OBVIOUS
  <2> HIDE DEF Of, W
  <2> QED
    BY <2>2, <2>3, <2>4, FS_UNION
<1>2. Of({}) = {}
  OBVIOUS
<1>3. ASSUME NEW s \in SUBSET D, NEW x \in s
      PROVE  Cardinality(Of(s)) = Cardinality(B[x]) + Cardinality(Of(s \ {x}))
  <2>1. Of(s) = B[x] \cup Of(s \ {x})
    OBVIOUS
  <2>2. B[x] \cap Of(s \ {x}) = {}
    BY <1>0
  <2>3. IsFiniteSet(B[x]) /\ IsFiniteSet(Of(s \ {x}))
    BY <1>0, <1>1
  <2> DEFINE V == Of(s \ {x})
             W == B[x]
             T == Of(s)
  <2> HIDE DEF Of, V, W, T
  <2>4. /\ T = W \cup V /\ W \cap V = {} /\ IsFiniteSet(W) /\ IsFiniteSet(V)
    BY <2>1, <2>2, <2>3 DEF V, W, T
  <2>5. Cardinality(T) = Cardinality(W) + Cardinality(V) - Cardinality({})
    BY <2>4, FS_Union
  <2>6. Cardinality({}) = 0 /\ Cardinality(W) \in Nat /\ Cardinality(V) \in Nat
    BY <2>4, FS_EmptySet, FS_CardinalityType
  <2> QED
    BY <2>5, <2>6 DEF V, W, T
<1>4. SumsUp(g, a, D)
  <2>1. ASSUME NEW s \in SUBSET D
        PROVE  g[s] = IF s = {} THEN 0
                      ELSE a[CHOOSE x \in s : TRUE] + g[s \ {CHOOSE x \in s : TRUE}]
    <3>1. CASE s = {}
      BY <1>2, <3>1, FS_EmptySet
    <3>2. CASE s # {}
      <4>1. PICK x \in s : x = CHOOSE y \in s : TRUE
        BY <3>2
      <4>2. g[s] = Cardinality(Of(s)) /\ g[s \ {x}] = Cardinality(Of(s \ {x})) /\ a[x] = Cardinality(B[x])
        BY <1>0, <4>1
      <4>3. Cardinality(Of(s)) = Cardinality(B[x]) + Cardinality(Of(s \ {x}))
        BY <1>3
      <4> HIDE DEF g, Of
      <4>4. g[s] = a[x] + g[s \ {x}]
        BY <4>2, <4>3
      <4> QED
        BY <3>2, <4>1, <4>4
    <3> QED
      BY <3>1, <3>2
  <2>2. g = [s \in SUBSET D |-> g[s]]
    OBVIOUS
  <2> HIDE DEF g
  <2> QED
    BY <2>1, <2>2 DEF SumsUp
<1>5. DOMAIN a = D /\ g[D] = Cardinality(Of(D))
  BY <1>0
<1>6. PICK f : SumsUp(f, a, D) /\ SumFunction(a) = f[D]
  <2> HIDE DEF g
  <2> QED
    BY <1>4, <1>5, SumUnfolds
<1>7. f[D] = g[D]
  <2> HIDE DEF g
  <2> QED
    BY <1>4, <1>6, SumIsUnique
<1>8. SumFunction(a) = Cardinality(Of(D)) /\ IsFiniteSet(Of(D))
  <2> HIDE DEF g, Of
  <2> QED
    BY <1>1, <1>5, <1>6, <1>7
<1>9. Of(D) = U
  BY <1>0
<1> QED
  BY <1>8, <1>9

-----------------------------------------------------------------------------
(* The days of the window.                                                 *)

\* Days do not shrink.
LEMMA DaysGrow ==
    ASSUME NEW k \in Int, NEW l \in Int
    PROVE  /\ k <= l => k * DayLen <= l * DayLen
           /\ k * DayLen < l * DayLen => k < l
           /\ (k + l) * DayLen = k * DayLen + l * DayLen
           /\ (k - l) * DayLen = k * DayLen - l * DayLen
<1>0. DayLen \in Nat /\ DayLen > 0
  BY BoardConstants
<1>1. k <= l => k * DayLen <= l * DayLen
  <2> SUFFICES ASSUME k <= l PROVE k * DayLen <= l * DayLen
    OBVIOUS
  <2>1. (l - k) * DayLen >= 0
    BY <1>0
  <2>2. (l - k) * DayLen = l * DayLen - k * DayLen
    BY <1>0
  <2>3. l * DayLen \in Int /\ k * DayLen \in Int
    BY <1>0
  <2> QED
    BY <2>1, <2>2, <2>3
<1>2. k * DayLen < l * DayLen => k < l
  <2> SUFFICES ASSUME l <= k PROVE l * DayLen <= k * DayLen
    BY <1>0
  <2>1. (k - l) * DayLen >= 0
    BY <1>0
  <2>2. (k - l) * DayLen = k * DayLen - l * DayLen
    BY <1>0
  <2>3. l * DayLen \in Int /\ k * DayLen \in Int
    BY <1>0
  <2> QED
    BY <2>1, <2>2, <2>3
<1>3. (k + l) * DayLen = k * DayLen + l * DayLen /\ (k - l) * DayLen = k * DayLen - l * DayLen
  BY <1>0
<1> QED
  BY <1>1, <1>2, <1>3

\* The next day begins where a day ends.
LEMMA NextDay ==
    ASSUME NEW k \in Int
    PROVE  k * DayLen \in Int /\ (k + 1) * DayLen = k * DayLen + DayLen
<1>0. DayLen \in Nat /\ DayLen > 0
  BY BoardConstants
<1> QED
  BY <1>0

\* The day an instant falls in.
LEMMA DayOf ==
    ASSUME NEW t \in Nat
    PROVE  /\ t \div DayLen \in Nat
           /\ (t \div DayLen) * DayLen <= t /\ t < (t \div DayLen) * DayLen + DayLen
<1>0. DayLen \in Nat /\ DayLen > 0
  BY BoardConstants
<1>1. t \div DayLen \in Int /\ DayLen * (t \div DayLen) <= t /\ t < DayLen * (t \div DayLen) + DayLen
  BY <1>0
<1>2. t \div DayLen >= 0
  BY <1>0
<1> QED
  BY <1>0, <1>1, <1>2

\* The days of the window: they begin no later than t, follow one another
\* without touching, and the instants before t each fall in one of them.
LEMMA WindowDays ==
    ASSUME NEW t \in Nat, NEW days \in Nat \ {0}, NEW start, start = WindowStart(t, days)
    PROVE  /\ start \in Int
           /\ \A d \in 1..days : /\ (d - 1) * DayLen \in Int /\ d * DayLen = (d - 1) * DayLen + DayLen
                                 /\ 0 <= (d - 1) * DayLen /\ start + (d - 1) * DayLen <= t
           /\ \A d, e \in 1..days : d < e => d * DayLen <= (e - 1) * DayLen
           /\ \A u \in start..(t - 1) : \E d \in 1..days :
                start + (d - 1) * DayLen <= u /\ u < start + d * DayLen
<1>0. DayLen \in Nat /\ DayLen > 0
  BY BoardConstants
<1>1. PICK q \in Nat : /\ q = t \div DayLen /\ q * DayLen <= t /\ t < q * DayLen + DayLen
  BY DayOf
<1>2. start = q * DayLen - (days - 1) * DayLen /\ (days - 1) * DayLen \in Int /\ q * DayLen \in Int
  BY <1>1, NextDay, DaysGrow DEF WindowStart
<1>3. start \in Int
  BY <1>2
<1>4. ASSUME NEW d \in 1..days
      PROVE  /\ (d - 1) * DayLen \in Int /\ d * DayLen = (d - 1) * DayLen + DayLen
             /\ 0 <= (d - 1) * DayLen /\ start + (d - 1) * DayLen <= t
  <2>1. (d - 1) * DayLen \in Int /\ ((d - 1) + 1) * DayLen = (d - 1) * DayLen + DayLen
    <3>1. d - 1 \in Int
      OBVIOUS
    <3> QED
      BY <3>1, NextDay, Zenon
  <2>2. (d - 1) + 1 = d
    OBVIOUS
  <2>3. 0 * DayLen <= (d - 1) * DayLen /\ (d - 1) * DayLen <= (days - 1) * DayLen
    <3>1. /\ 0 \in Int /\ d - 1 \in Int /\ days - 1 \in Int
          /\ 0 <= d - 1 /\ d - 1 <= days - 1
      OBVIOUS
    <3> QED
      BY <3>1, DaysGrow, Zenon
  <2>4. 0 * DayLen = 0
    BY <1>0
  <2> QED
    BY <1>1, <1>2, <2>1, <2>2, <2>3, <2>4
<1>5. ASSUME NEW d \in 1..days, NEW e \in 1..days, d < e
      PROVE  d * DayLen <= (e - 1) * DayLen
  BY <1>5, DaysGrow
<1>6. ASSUME NEW u \in start..(t - 1)
      PROVE  \E d \in 1..days : start + (d - 1) * DayLen <= u /\ u < start + d * DayLen
  <2>1. u \in Int /\ start <= u /\ u < t /\ u - start \in Nat
    BY <1>3
  <2>2. PICK k \in Nat : k * DayLen <= u - start /\ u - start < k * DayLen + DayLen
    BY <2>1, DayOf
  <2>3. k * DayLen \in Int /\ (k + 1) * DayLen = k * DayLen + DayLen
    BY NextDay
  <2>4. days * DayLen = (days - 1) * DayLen + DayLen
    <3>1. days \in 1..days
      OBVIOUS
    <3> QED
      BY <3>1, <1>4
  <2>5. k * DayLen < days * DayLen
    BY <1>0, <1>1, <1>2, <2>1, <2>2, <2>3, <2>4
  <2>6. k < days
    BY <2>5, DaysGrow
  <2>7. k + 1 \in 1..days /\ (k + 1) - 1 = k
    BY <2>6
  <2>8. start + ((k + 1) - 1) * DayLen <= u /\ u < start + (k + 1) * DayLen
    BY <1>0, <1>3, <2>1, <2>2, <2>3, <2>7
  <2> QED
    BY <2>7, <2>8
<1> QED
  BY <1>3, <1>4, <1>5, <1>6

-----------------------------------------------------------------------------
(* What the sums of ComputeUptime count.                                   *)

\* What overlap measures: the instants two intervals share.
Shared(lo, hi, s, e) == {u \in lo..(hi - 1) : s <= u /\ u < e}

LEMMA OverlapCounts ==
    ASSUME NEW lo \in Int, NEW hi \in Int, NEW s \in Int, NEW e \in Int
    PROVE  /\ IsFiniteSet(Shared(lo, hi, s, e))
           /\ overlap(lo, hi, s, e) = Cardinality(Shared(lo, hi, s, e))
<1>1. PICK a \in Int : a = Later(lo, s)
  BY DEF Later
<1>2. PICK b \in Int : b = Earlier(hi, e)
  BY DEF Earlier
<1>3. Shared(lo, hi, s, e) = a..(b - 1)
  <2>1. \A u \in Int : (u \in lo..(hi - 1) /\ s <= u /\ u < e) <=> (a <= u /\ u <= b - 1)
    BY <1>1, <1>2 DEF Later, Earlier
  <2>2. \A u : u \in Shared(lo, hi, s, e) <=> u \in a..(b - 1)
    BY <2>1 DEF Shared
  <2> QED
    BY <2>2
<1>4. /\ b - 1 \in Int /\ IsFiniteSet(a..(b - 1))
      /\ Cardinality(a..(b - 1)) = IF a > b - 1 THEN 0 ELSE (b - 1) - a + 1
  BY FS_Interval
<1>5. overlap(lo, hi, s, e) = Later(0, b - a)
  BY <1>1, <1>2 DEF overlap
<1>6. Later(0, b - a) = IF a > b - 1 THEN 0 ELSE (b - 1) - a + 1
  BY DEF Later
<1> QED
  BY <1>3, <1>4, <1>5, <1>6

\* Time in some statuses is the number of instants logged with one of them:
\* each is held by one period, and no period holds another.
LEMMA TimeIsCounted ==
    ASSUME Inv, Chronicle, NEW c \in Components, comps[c] # None, NEW since \in Int,
           NEW S, "operational" \notin S, NEW t \in Nat, t <= now,
           NEW lo \in Int, NEW hi \in Int, since <= lo, comps[c].created <= lo, hi <= t
    PROVE  LET told == {u \in lo..(hi - 1) : Said(c, u) \in S} IN
           /\ IsFiniteSet(told)
           /\ TimeIn(S, history[c], StatusHistorySince(history[c], since), t, lo, hi)
                = Cardinality(told)
<1> DEFINE h == history[c]
           I == StatusHistorySince(h, since)
           D == {j \in I : h[j].status \in S}
           B == [i \in D |-> {u \in lo..(hi - 1) : Holds(h, i, u)}]
           a == [i \in D |-> overlap(lo, hi, h[i].start, IF h[i].end = None THEN t ELSE h[i].end)]
           told == {u \in lo..(hi - 1) : Said(c, u) \in S}
<1>0. h \in Seq(Period) /\ InOrder(h) /\ Len(h) \in Nat /\ now \in Nat /\ comps[c].created \in Nat
  <2>1. h \in Seq(Period) /\ comps[c] \in ComponentRow /\ now \in Nat
    BY DEF Inv, TypeOK
  <2> QED
    BY <2>1 DEF Chronicle, ComponentRow
<1>1. D \subseteq 1..Len(h) /\ IsFiniteSet(D)
  <2>1. D \subseteq 1..Len(h)
    BY DEF StatusHistorySince
  <2>2. IsFiniteSet(1..Len(h))
    <3>1. 1 \in Int /\ Len(h) \in Int
      BY <1>0
    <3> HIDE DEF h
    <3> QED
      BY <3>1, FS_Interval
  <2> HIDE DEF D
  <2> QED
    BY <2>1, <2>2, FS_Subset
<1>2. ASSUME NEW i \in D PROVE IsFiniteSet(B[i]) /\ a[i] = Cardinality(B[i])
  <2> DEFINE e == IF h[i].end = None THEN t ELSE h[i].end
  <2>1. i \in 1..Len(h)
    BY <1>1
  <2>2. /\ B[i] = {u \in lo..(hi - 1) : Holds(h, i, u)}
        /\ a[i] = overlap(lo, hi, h[i].start, e)
    OBVIOUS
  <2>3. h[i] \in Period
    <3> HIDE DEF h
    <3> QED
      BY <1>0, <2>1
  <2> HIDE DEF h, a, B, D
  <2>4. /\ h[i].start \in Int /\ e \in Int
        /\ \A u \in lo..(hi - 1) : Holds(h, i, u) <=> h[i].start <= u /\ u < e
    BY <2>3, BoardConstants DEF Period, Holds
  <2>5. PICK from \in Int : from = h[i].start
    BY <2>4
  <2>6. PICK to \in Int : to = e
    BY <2>4
  <2>7. B[i] = Shared(lo, hi, from, to)
    <3>1. \A u \in lo..(hi - 1) : Holds(h, i, u) <=> from <= u /\ u < to
      BY <2>4, <2>5, <2>6
    <3> QED
      BY <2>2, <3>1 DEF Shared
  <2>8. /\ IsFiniteSet(Shared(lo, hi, from, to))
        /\ overlap(lo, hi, from, to) = Cardinality(Shared(lo, hi, from, to))
    BY OverlapCounts
  <2> QED
    BY <2>2, <2>5, <2>6, <2>7, <2>8
<1>3. ASSUME NEW i \in D, NEW j \in D, i # j PROVE B[i] \cap B[j] = {}
  <2>1. i \in 1..Len(h) /\ j \in 1..Len(h)
    BY <1>1
  <2>2. ASSUME NEW u \in B[i] \cap B[j] PROVE FALSE
    <3>1. u \in Int /\ Holds(h, i, u) /\ Holds(h, j, u)
      BY <2>2
    <3> HIDE DEF h, D, B
    <3> QED
      BY <1>0, <1>3, <2>1, <3>1, OnePeriodHolds
  <2> QED
    BY <2>2
<1>4. \A u : u \in told <=> \E i \in D : u \in B[i]
  <2>1. ASSUME NEW u \in lo..(hi - 1)
        PROVE  Said(c, u) \in S <=> \E i \in D : Holds(h, i, u)
    <3>1. u \in Logged(c) /\ u >= since
      BY <1>0 DEF Logged
    <3>2. Answers(c, since)
      BY ChronicleAnswers DEF RecordAnswers
    <3>3. \A i \in D : i \in 1..Len(h)
      BY <1>1
    <3>4. CASE /\ Said(c, u) = "operational"
               /\ \A j \in 1..Len(h) : ~Holds(h, j, u)
      <4> HIDE DEF h, D
      <4> QED
        BY <3>3, <3>4
    <3>5. CASE \E i \in I : /\ Said(c, u) = h[i].status
                            /\ \A j \in 1..Len(h) : Holds(h, j, u) <=> j = i
      <4>1. PICK i \in I : /\ Said(c, u) = h[i].status
                           /\ \A j \in 1..Len(h) : Holds(h, j, u) <=> j = i
        BY <3>5
      <4>2. i \in 1..Len(h)
        BY DEF StatusHistorySince
      <4>3. i \in D <=> Said(c, u) \in S
        BY <4>1
      <4> HIDE DEF h, D, I
      <4> QED
        BY <3>3, <4>1, <4>2, <4>3
    <3>6. \/ /\ Said(c, u) = "operational"
             /\ \A j \in 1..Len(h) : ~Holds(h, j, u)
          \/ \E i \in I : /\ Said(c, u) = h[i].status
                          /\ \A j \in 1..Len(h) : Holds(h, j, u) <=> j = i
      BY <3>1, <3>2 DEF Answers
    <3> QED
      BY <3>4, <3>5, <3>6
  <2> HIDE DEF D, h
  <2> QED
    BY <2>1
<1>5. TimeIn(S, h, I, t, lo, hi) = SumFunction(a)
  BY DEF TimeIn
<1>6. a = [i \in D |-> a[i]]
  OBVIOUS
<1>7. IsFiniteSet(told) /\ SumFunction(a) = Cardinality(told)
  <2> HIDE DEF a, B, D, told
  <2>1. Parts(D, B, a, told)
    BY <1>2, <1>3, <1>4, <1>6 DEF Parts
  <2> QED
    BY <1>1, <2>1, SumOfSizes
<1> QED
  BY <1>5, <1>7

\* The instants between lo and hi, from c's creation to t, logged with a status of S.
Told(S, c, t, lo, hi) ==
    {u \in lo..(hi - 1) : u >= comps[c].created /\ u < t /\ Said(c, u) \in S}

Up == (Statuses \cup {"operational"}) \ {"under_maintenance"}
Down == {s \in Statuses : statusIsDown(s)}

\* One day: the part of it between creation and t, without maintenance.
LEMMA DayIsCounted ==
    ASSUME Inv, Chronicle, NEW c \in Components, comps[c] # None, NEW since \in Int,
           NEW t \in Nat, comps[c].created <= t, t <= now,
           NEW a \in Int, NEW b \in Int, since <= a, a <= t, a <= b,
           NEW lo, lo = Later(a, comps[c].created), NEW hi, hi = Later(lo, Earlier(b, t)),
           NEW I, I = StatusHistorySince(history[c], since)
    PROVE  /\ IsFiniteSet(Told(Down, c, t, a, b)) /\ IsFiniteSet(Told(Up, c, t, a, b))
           /\ TimeIn(Down, history[c], I, t, lo, hi) = Cardinality(Told(Down, c, t, a, b))
           /\ hi - lo - TimeIn({"under_maintenance"}, history[c], I, t, lo, hi)
                = Cardinality(Told(Up, c, t, a, b))
<1>0. /\ comps[c].created \in Nat /\ now \in Nat
      /\ \A u \in Logged(c) : Said(c, u) \in Statuses \cup {"operational"}
  <2>1. comps[c] \in ComponentRow /\ now \in Nat /\ log[c] \in Seq(Statuses \cup {"operational"})
    BY DEF Inv, TypeOK
  <2>2. comps[c].created \in Nat /\ Len(log[c]) = now - comps[c].created
    BY <2>1 DEF Chronicle, Kept, ComponentRow
  <2>3. ASSUME NEW u \in Logged(c) PROVE Said(c, u) \in Statuses \cup {"operational"}
    <3>1. u \in comps[c].created..(now - 1)
      BY <2>3 DEF Logged
    <3>2. u - comps[c].created + 1 \in 1..Len(log[c])
      BY <2>1, <2>2, <3>1
    <3> QED
      BY <2>1, <3>2 DEF Said
  <2> QED
    BY <2>1, <2>2, <2>3
<1>1. /\ lo \in Int /\ hi \in Int /\ lo <= hi /\ hi <= t /\ since <= lo /\ comps[c].created <= lo
      /\ \A u \in Int : (lo <= u /\ u < hi) <=> (a <= u /\ u < b /\ u >= comps[c].created /\ u < t)
  BY <1>0 DEF Later, Earlier
<1> DEFINE W == lo..(hi - 1)
           inS(S) == {u \in W : Said(c, u) \in S}
<1>2. ASSUME NEW S PROVE inS(S) = Told(S, c, t, a, b)
  <2>1. \A u : u \in W <=> u \in a..(b - 1) /\ u >= comps[c].created /\ u < t
    BY <1>1
  <2> HIDE DEF W
  <2> QED
    BY <2>1 DEF Told
<1>3. /\ "operational" \notin Down /\ "operational" \notin {"under_maintenance"}
      /\ "under_maintenance" \notin Down
  BY DEF Down, statusIsDown
<1>4. ASSUME NEW S, "operational" \notin S
      PROVE  IsFiniteSet(inS(S)) /\ TimeIn(S, history[c], I, t, lo, hi) = Cardinality(inS(S))
  BY <1>1, <1>4, TimeIsCounted
<1>5. IsFiniteSet(W) /\ Cardinality(W) = hi - lo
  <2>1. lo \in Int /\ hi - 1 \in Int
    BY <1>1
  <2>2. IsFiniteSet(W) /\ Cardinality(W) = IF lo > hi - 1 THEN 0 ELSE (hi - 1) - lo + 1
    BY <2>1, FS_Interval
  <2> QED
    BY <1>1, <2>2
<1> DEFINE M == inS({"under_maintenance"})
<1>6. inS(Up) = W \ M
  <2>1. \A u \in W : Said(c, u) \in Statuses \cup {"operational"}
    BY <1>0, <1>1 DEF Logged
  <2> HIDE DEF W
  <2> QED
    BY <2>1 DEF Up
<1>7. IsFiniteSet(W \ M) /\ Cardinality(W \ M) = Cardinality(W) - Cardinality(M)
  <2>1. W \cap M = M
    OBVIOUS
  <2> HIDE DEF W, M
  <2>2. IsFiniteSet(W \ M) /\ Cardinality(W \ M) = Cardinality(W) - Cardinality(W \cap M)
    BY <1>5, FS_Difference
  <2> QED
    BY <2>1, <2>2
<1>8. IsFiniteSet(M) /\ TimeIn({"under_maintenance"}, history[c], I, t, lo, hi) = Cardinality(M)
  BY <1>3, <1>4
<1>9. IsFiniteSet(inS(Down)) /\ TimeIn(Down, history[c], I, t, lo, hi) = Cardinality(inS(Down))
  BY <1>3, <1>4
<1> HIDE DEF inS, W, M
<1> QED
  BY <1>2, <1>5, <1>6, <1>7, <1>8, <1>9

\* The days of the window add up to the window.
LEMMA DaysAddUp ==
    ASSUME Inv, NEW c \in Components, NEW S, NEW t \in Nat, NEW days \in Nat \ {0},
           NEW start, start = WindowStart(t, days), NEW a, a = [d \in 1..days |-> a[d]],
           \A d \in 1..days :
             LET told == Told(S, c, t, start + (d - 1) * DayLen, start + d * DayLen)
             IN  IsFiniteSet(told) /\ a[d] = Cardinality(told)
    PROVE  SumFunction(a) = Cardinality(Told(S, c, t, start, t))
<1> DEFINE D == 1..days
           B == [d \in D |-> Told(S, c, t, start + (d - 1) * DayLen, start + d * DayLen)]
           U == Told(S, c, t, start, t)
<1>1. IsFiniteSet(D)
  <2>1. 1 \in Int /\ days \in Int
    OBVIOUS
  <2> QED
    BY <2>1, FS_Interval
<1>2. /\ start \in Int
      /\ \A d \in D : /\ (d - 1) * DayLen \in Int /\ d * DayLen = (d - 1) * DayLen + DayLen
                      /\ 0 <= (d - 1) * DayLen /\ start + (d - 1) * DayLen <= t
      /\ \A d, e \in D : d < e => d * DayLen <= (e - 1) * DayLen
      /\ \A u \in start..(t - 1) : \E d \in D :
           start + (d - 1) * DayLen <= u /\ u < start + d * DayLen
  BY WindowDays
<1>3. DayLen \in Nat
  BY BoardConstants
<1>4. \A d \in D : (d - 1) * DayLen \in Int /\ d * DayLen \in Int /\ 0 <= (d - 1) * DayLen
  BY <1>2, <1>3
<1>5. ASSUME NEW d \in D, NEW u
      PROVE  u \in B[d] <=> /\ u \in Int /\ start + (d - 1) * DayLen <= u /\ u < start + d * DayLen
                            /\ u >= comps[c].created /\ u < t /\ Said(c, u) \in S
  BY <1>2, <1>4 DEF Told
<1>6. ASSUME NEW d \in D, NEW e \in D, d # e PROVE B[d] \cap B[e] = {}
  <2>1. ASSUME NEW u \in B[d] \cap B[e] PROVE FALSE
    <3>1. /\ u \in Int /\ start + (d - 1) * DayLen <= u /\ u < start + d * DayLen
          /\ start + (e - 1) * DayLen <= u /\ u < start + e * DayLen
      BY <1>5, <2>1
    <3>2. d < e \/ e < d
      BY <1>6
    <3>3. d * DayLen <= (e - 1) * DayLen \/ e * DayLen <= (d - 1) * DayLen
      BY <1>2, <3>2
    <3> QED
      BY <1>2, <1>4, <3>1, <3>3
  <2> QED
    BY <2>1
<1>7. \A u : u \in U <=> \E d \in D : u \in B[d]
  <2>1. ASSUME NEW u \in U PROVE \E d \in D : u \in B[d]
    <3>1. /\ u \in start..(t - 1) /\ u \in Int /\ u >= comps[c].created /\ u < t
          /\ Said(c, u) \in S
      BY <1>2 DEF Told
    <3>2. PICK d \in D : start + (d - 1) * DayLen <= u /\ u < start + d * DayLen
      BY <1>2, <3>1
    <3> QED
      BY <1>5, <3>1, <3>2
  <2>2. ASSUME NEW d \in D, NEW u \in B[d] PROVE u \in U
    <3>1. /\ u \in Int /\ start + (d - 1) * DayLen <= u /\ u >= comps[c].created /\ u < t
          /\ Said(c, u) \in S
      BY <1>5, <2>2
    <3>2. start <= u /\ u <= t - 1
      BY <1>2, <1>4, <3>1
    <3> QED
      BY <1>2, <3>1, <3>2 DEF Told
  <2> QED
    BY <2>1, <2>2
<1>8. \A d \in D : IsFiniteSet(B[d]) /\ a[d] = Cardinality(B[d])
  OBVIOUS
<1>9. a = [d \in D |-> a[d]]
  OBVIOUS
<1> HIDE DEF D, B, U
<1>10. Parts(D, B, a, U)
  BY <1>6, <1>7, <1>8, <1>9 DEF Parts
<1>11. SumFunction(a) = Cardinality(U)
  BY <1>1, <1>10, SumOfSizes
<1> QED
  BY <1>11 DEF U

\* ComputeUptime tells what the log would.
LEMMA UptimeCounts ==
    ASSUME Inv, Chronicle, NEW c \in Components, comps[c] # None,
           NEW t \in Nat, comps[c].created <= t, t <= now, NEW days \in Nat \ {0},
           NEW start, start = WindowStart(t, days),
           NEW I, I = StatusHistorySince(history[c], start)
    PROVE  LET report == ComputeUptime(history[c], I, comps[c].created, t, days) IN
           /\ report.percent = FairShare(log[c], comps[c].created, t, start, t)
           /\ \A d \in 1..days :
                report.daily[d] = FairShare(log[c], comps[c].created, t,
                                            start + (d - 1) * DayLen, start + d * DayLen)
<1> DEFINE from(d) == start + (d - 1) * DayLen
           lo(d) == Later(from(d), comps[c].created)
           hi(d) == Later(lo(d), Earlier(from(d) + DayLen, t))
           down(d) == TimeIn(Down, history[c], I, t, lo(d), hi(d))
           effective(d) ==
             hi(d) - lo(d) - TimeIn({"under_maintenance"}, history[c], I, t, lo(d), hi(d))
           downs == [d \in 1..days |-> down(d)]
           effectives == [d \in 1..days |-> effective(d)]
           told(S, d) == Told(S, c, t, start + (d - 1) * DayLen, start + d * DayLen)
<1>1. /\ start \in Int
      /\ \A d \in 1..days : /\ (d - 1) * DayLen \in Int /\ d * DayLen = (d - 1) * DayLen + DayLen
                            /\ 0 <= (d - 1) * DayLen /\ start + (d - 1) * DayLen <= t
  BY WindowDays
<1>2. ASSUME NEW d \in 1..days
      PROVE  /\ IsFiniteSet(told(Down, d)) /\ down(d) = Cardinality(told(Down, d))
             /\ IsFiniteSet(told(Up, d)) /\ effective(d) = Cardinality(told(Up, d))
  <2>0. /\ (d - 1) * DayLen \in Int /\ d * DayLen = (d - 1) * DayLen + DayLen
        /\ 0 <= (d - 1) * DayLen /\ start + (d - 1) * DayLen <= t
    BY <1>1
  <2>1. PICK a \in Int : a = from(d)
    BY <1>1, <2>0
  <2>2. PICK b \in Int : b = from(d) + DayLen
    BY <1>1, <2>0, BoardConstants
  <2>3. b = start + d * DayLen
    BY <1>1, <2>0, <2>2, BoardConstants
  <2>4. start <= a /\ a <= t /\ a <= b
    BY <1>1, <2>0, <2>1, <2>2, BoardConstants
  <2>5. lo(d) = Later(a, comps[c].created) /\ hi(d) = Later(lo(d), Earlier(b, t))
    BY <2>1, <2>2
  <2> HIDE DEF lo, hi
  <2>6. /\ IsFiniteSet(Told(Down, c, t, a, b)) /\ IsFiniteSet(Told(Up, c, t, a, b))
        /\ down(d) = Cardinality(Told(Down, c, t, a, b))
        /\ effective(d) = Cardinality(Told(Up, c, t, a, b))
    BY <1>1, <2>4, <2>5, DayIsCounted
  <2> QED
    BY <2>1, <2>3, <2>6
<1>3. SumFunction(downs) = Cardinality(Told(Down, c, t, start, t))
  <2>1. downs = [d \in 1..days |-> downs[d]] /\ \A d \in 1..days : downs[d] = down(d)
    OBVIOUS
  <2> HIDE DEF downs, down
  <2>2. \A d \in 1..days : /\ IsFiniteSet(told(Down, d)) /\ downs[d] = Cardinality(told(Down, d))
    BY <1>2, <2>1
  <2> QED
    BY <2>1, <2>2, DaysAddUp
<1>4. SumFunction(effectives) = Cardinality(Told(Up, c, t, start, t))
  <2>1. effectives = [d \in 1..days |-> effectives[d]] /\ \A d \in 1..days : effectives[d] = effective(d)
    OBVIOUS
  <2> HIDE DEF effectives, effective
  <2>2. \A d \in 1..days : /\ IsFiniteSet(told(Up, d)) /\ effectives[d] = Cardinality(told(Up, d))
    BY <1>2, <2>1
  <2> QED
    BY <2>1, <2>2, DaysAddUp
<1>5. ComputeUptime(history[c], I, comps[c].created, t, days)
        = [daily |-> [d \in 1..days |-> Percent(effective(d) - down(d), effective(d))],
           percent |-> Percent(SumFunction(effectives) - SumFunction(downs), SumFunction(effectives))]
  BY DEF ComputeUptime, Down
<1>6. ASSUME NEW first, NEW end
      PROVE  FairShare(log[c], comps[c].created, t, first, end)
               = Percent(Cardinality(Told(Up, c, t, first, end)) - Cardinality(Told(Down, c, t, first, end)),
                         Cardinality(Told(Up, c, t, first, end)))
  BY DEF FairShare, Instants, Told, Said, Up, Down
<1> HIDE DEF effective, down, effectives, downs
<1> QED
  BY <1>2, <1>3, <1>4, <1>5, <1>6

-----------------------------------------------------------------------------
(* What the invariant says of a summary that is shown.                     *)

\* Where BuildPublicSummary puts a component, and what it counts.
LEMMA SummaryFields ==
    ASSUME NEW gs, NEW rows
    PROVE  LET s == BuildPublicSummary(gs, rows) IN
           /\ s.overall = ComputeOverallStatus(rows) /\ s.rows = rows
           /\ DOMAIN s.section = gs
           /\ \A g \in gs : /\ s.status[g] = ComputeGroupStatus(g, rows)
                            /\ s.section[g] = {c \in Visible(rows) : rows[c].group = g}
           /\ s.ungrouped = {c \in Visible(rows) : rows[c].group = None}
  BY DEF BuildPublicSummary

\* The rows a summary was built from are those of the page's components.
LEMMA ShownIsRead ==
    ASSUME Inv, Shown
    PROVE  \E gs \in SUBSET Groups :
             /\ GroupsRead(gs, visit.page)
             /\ LET rows == [c \in ListComponentsByPage(visit.page) |-> comps[c]] IN
                /\ visit.summary.overall = ComputeOverallStatus(rows) /\ visit.summary.rows = rows
                /\ DOMAIN visit.summary.section = gs
                /\ \A g \in gs : /\ visit.summary.status[g] = ComputeGroupStatus(g, rows)
                                 /\ visit.summary.section[g] = {c \in Visible(rows) : rows[c].group = g}
                /\ visit.summary.ungrouped = {c \in Visible(rows) : rows[c].group = None}
<1> DEFINE rows == [c \in ListComponentsByPage(visit.page) |-> comps[c]]
<1>1. PICK gs \in SUBSET Groups :
        GroupsRead(gs, visit.page) /\ visit.summary = BuildPublicSummary(gs, rows)
  BY DEF Inv, SummaryInv, Shown
<1> HIDE DEF rows
<1>2. /\ visit.summary.overall = ComputeOverallStatus(rows) /\ visit.summary.rows = rows
      /\ DOMAIN visit.summary.section = gs
      /\ \A g \in gs : /\ visit.summary.status[g] = ComputeGroupStatus(g, rows)
                       /\ visit.summary.section[g] = {c \in Visible(rows) : rows[c].group = g}
      /\ visit.summary.ungrouped = {c \in Visible(rows) : rows[c].group = None}
  BY <1>1, SummaryFields
<1> QED
  BY <1>1, <1>2 DEF rows

LEMMA ListedOnce ==
    ASSUME Inv
    PROVE  ShownOnce
<1> SUFFICES ASSUME Shown, NEW c \in ListComponentsByPage(visit.page) \ disturbed
             PROVE  LET g == comps[c].group IN
                    /\ comps[c].private => Places(c) = {}
                    /\ (~comps[c].private /\ g \notin disturbed
                         /\ (g = None \/ g \in ListComponentGroupsByPage(visit.page)))
                          => Places(c) = {g}
  BY DEF ShownOnce
<1> DEFINE L == ListComponentsByPage(visit.page)
           rows == [d \in L |-> comps[d]]
           g == comps[c].group
<1>1. PICK gs \in SUBSET Groups :
        /\ GroupsRead(gs, visit.page)
        /\ DOMAIN visit.summary.section = gs
        /\ \A h \in gs : visit.summary.section[h] = {d \in Visible(rows) : rows[d].group = h}
        /\ visit.summary.ungrouped = {d \in Visible(rows) : rows[d].group = None}
  BY ShownIsRead
<1>2. c \in DOMAIN rows /\ rows[c] = comps[c]
  OBVIOUS
<1> HIDE DEF rows
<1>3. c \in Visible(rows) <=> ~comps[c].private
  BY <1>2 DEF Visible
<1>4. /\ Places(c) = {h \in gs : c \in Visible(rows) /\ g = h}
                       \cup (IF c \in Visible(rows) /\ g = None THEN {None} ELSE {})
  BY <1>1, <1>2 DEF Places
<1>5. CASE comps[c].private
  BY <1>3, <1>4, <1>5
<1>6. ASSUME ~comps[c].private, g \notin disturbed,
             g = None \/ g \in ListComponentGroupsByPage(visit.page)
      PROVE  Places(c) = {g}
  <2>1. CASE g = None
    BY <1>3, <1>4, <1>6, <2>1, BoardConstants
  <2>2. CASE g # None /\ g \in ListComponentGroupsByPage(visit.page)
    <3>1. g \in gs
      BY <1>1, <1>6, <2>2 DEF GroupsRead, ListComponentGroupsByPage
    <3> QED
      BY <1>3, <1>4, <1>6, <2>2, <3>1
  <2> QED
    BY <1>6, <2>1, <2>2
<1> QED
  BY <1>5, <1>6

LEMMA HeadIsRight ==
    ASSUME Inv
    PROVE  HeadIsExplained
<1> SUFFICES ASSUME Shown
             PROVE  LET v == visit.summary
                        seen == {c \in DOMAIN v.rows : Places(c) # {} /\ v.rows[c].display}
                        lost == {c \in Visible(v.rows) : Places(c) = {}}
                    IN /\ \A c \in seen : displaySeverity[v.rows[c].status] <= displaySeverity[v.overall]
                       /\ lost = {} => (v.overall = "operational"
                                         \/ \E c \in seen : v.rows[c].status = v.overall)
                       /\ \A g \in DOMAIN v.section :
                            v.status[g] = WorstStatus({v.rows[c].status : c \in seen \cap v.section[g]})
  BY DEF HeadIsExplained
<1> DEFINE L == ListComponentsByPage(visit.page)
           rows == [d \in L |-> comps[d]]
           v == visit.summary
           seen == {c \in DOMAIN v.rows : Places(c) # {} /\ v.rows[c].display}
           lost == {c \in Visible(v.rows) : Places(c) = {}}
           counted == {c \in DOMAIN rows : CountsTowardStatus(rows[c])}
           S == {rows[c].status : c \in counted}
<1>1. PICK gs \in SUBSET Groups :
        /\ v.overall = ComputeOverallStatus(rows) /\ v.rows = rows
        /\ DOMAIN v.section = gs
        /\ \A g \in gs : /\ v.status[g] = ComputeGroupStatus(g, rows)
                         /\ v.section[g] = {c \in Visible(rows) : rows[c].group = g}
        /\ v.ungrouped = {c \in Visible(rows) : rows[c].group = None}
  BY ShownIsRead
<1>2. \A c \in DOMAIN rows : rows[c].status \in AllStatuses
  <2>1. \A c \in L : comps[c] \in ComponentRow
    BY DEF ListComponentsByPage, ComponentByID, Inv, TypeOK
  <2> QED
    BY <2>1, BoardConstants DEF ComponentRow, AllStatuses
<1> HIDE DEF rows
<1>3. ASSUME NEW c, Places(c) # {} PROVE c \in Visible(rows)
  BY <1>1, <1>3 DEF Places
<1>4. seen \subseteq counted /\ \A c \in counted : c \in seen \/ Places(c) = {}
  BY <1>1, <1>3 DEF Visible, CountsTowardStatus
<1>5. counted \subseteq Visible(rows)
  BY DEF Visible, CountsTowardStatus
<1>6. S \in SUBSET AllStatuses /\ v.overall = WorstStatus(S)
  BY <1>1, <1>2 DEF ComputeOverallStatus
<1>7. v.overall \in S \cup {"operational"} /\ \A t \in S : displaySeverity[t] <= displaySeverity[v.overall]
  BY <1>6, WorstIsWorst
<1>8. ASSUME NEW c \in seen PROVE displaySeverity[v.rows[c].status] <= displaySeverity[v.overall]
  <2>1. rows[c].status \in S
    BY <1>4
  <2> QED
    BY <1>1, <1>7, <2>1
<1>9. ASSUME lost = {}, v.overall # "operational" PROVE \E c \in seen : v.rows[c].status = v.overall
  <2>1. PICK c \in counted : rows[c].status = v.overall
    BY <1>7, <1>9
  <2>2. Places(c) # {}
    BY <1>1, <1>5, <1>9
  <2> QED
    BY <1>1, <1>4, <2>1, <2>2
<1>10. ASSUME NEW g \in DOMAIN v.section
       PROVE  v.status[g] = WorstStatus({v.rows[c].status : c \in seen \cap v.section[g]})
  <2> DEFINE G == {d \in DOMAIN rows : rows[d].group = g /\ CountsTowardStatus(rows[d])}
  <2>1. g \in gs /\ v.section[g] = {c \in Visible(rows) : rows[c].group = g}
    BY <1>1, <1>10
  <2>2. \A c \in v.section[g] : Places(c) # {}
    BY <1>1, <2>1 DEF Places
  <2>3. seen \cap v.section[g] = G
    BY <1>1, <2>1, <2>2 DEF Visible, CountsTowardStatus
  <2>4. v.status[g] = WorstStatus({rows[c].status : c \in G})
    BY <1>1, <2>1 DEF ComputeGroupStatus
  <2>5. {v.rows[c].status : c \in seen \cap v.section[g]} = {rows[c].status : c \in G}
    <3>1. v.rows = rows
      BY <1>1
    <3> HIDE DEF seen, G
    <3> QED
      BY <2>3, <3>1
  <2> QED
    BY <2>4, <2>5
<1> QED
  BY <1>8, <1>9, <1>10

-----------------------------------------------------------------------------
(* The invariant.                                                          *)

LEMMA InvInit ==
    ASSUME Init
    PROVE  Inv
<1>1. groups \in [Groups -> {None} \cup GroupRow]
  <2> DEFINE R == {[page |-> p, live |-> TRUE] : p \in Pages}
  <2>1. ASSUME NEW p \in Pages PROVE [page |-> p, live |-> TRUE] \in GroupRow
    BY DEF GroupRow
  <2>2. R \subseteq GroupRow
    BY <2>1, Zenon
  <2>3. groups \in [Groups -> {None} \cup R]
    BY DEF Init
  <2> HIDE DEF R
  <2> QED
    BY <2>2, <2>3
<1>2. comps \in [Components -> {None} \cup ComponentRow]
  <2>1. ASSUME NEW a \in Attributes, NEW p \in Pages PROVE NewRow(a, p, 0) \in ComponentRow
    <3>1. /\ a.group \in Groups \cup {None} /\ a.private \in BOOLEAN /\ a.display \in BOOLEAN
          /\ a.status \in Statuses
      BY BoardConstants
    <3> QED
      BY <3>1 DEF NewRow, ComponentRow
  <2> DEFINE R == {NewRow(a, p, 0) : a \in {b \in Attributes : GroupExists(b.group)}, p \in Pages}
  <2>2. R \subseteq ComponentRow
    BY <2>1
  <2>3. comps \in [Components -> {None} \cup R]
    BY DEF Init
  <2> HIDE DEF R
  <2> QED
    BY <2>2, <2>3
<1>3. history \in [Components -> Seq(Period)] /\ log \in [Components -> Seq(Statuses \cup {"operational"})]
  BY DEF Init
<1>4. req \in [Requests -> RequestRows]
  BY DEF Init, RequestRows
<1>5. TypeOK
  BY <1>1, <1>2, <1>3, <1>4, BoardConstants DEF Init, TypeOK, RequestRows, NoVisit
<1>6. SummaryInv
  BY DEF Init, SummaryInv, NoVisit
<1> QED
  BY <1>5, <1>6 DEF Inv

LEMMA InvStep ==
    ASSUME Inv, [Next]_vars
    PROVE  Inv'
<1>1. CASE UNCHANGED vars
  <2>1. TypeOK'
    BY <1>1 DEF Inv, TypeOK, vars
  <2>2. SummaryInv'
    BY <1>1 DEF Inv, SummaryInv, GroupsRead, ListComponentGroupsByPage, ComponentGroupByID,
                ListComponentsByPage, ComponentByID, vars
  <2> QED
    BY <2>1, <2>2 DEF Inv
<1> QED
  BY <1>1, GroupsStep, ComponentIsCreated, ComponentIsDeleted, StatusIsDerived, PatchBegins,
     AttributesAreWritten, StatusIsPatched, TickStep, VisitStep DEF Next

LEMMA InvHolds == Spec => []Inv
<1>1. Inv /\ [Next]_vars => Inv'
  BY InvStep
<1> QED
  BY <1>1, InvInit, PTL DEF Spec

-----------------------------------------------------------------------------
(* The request for the uptime: what it holds until its second query.       *)

\* The component asked for was there, and the clock has not gone back.
Asked ==
    visit.pc = "history" =>
        /\ visit.comp \in Components /\ comps[visit.comp] # None
        /\ visit.created = comps[visit.comp].created
        /\ visit.at \in Nat /\ visit.created <= visit.at /\ visit.at <= now
        /\ visit.days \in Periods

\* A component keeps its creation, and the clock goes on.
LEMMA CreationStays ==
    ASSUME Inv, [Next]_vars
    PROVE  /\ now <= now'
           /\ \A c \in Components : comps[c] # None =>
                comps'[c] # None /\ comps'[c].created = comps[c].created
<1>0. /\ comps \in [Components -> {None} \cup ComponentRow] /\ now \in Nat
      /\ None \notin ComponentRow
  BY BoardConstants DEF Inv, TypeOK
<1>1. CASE UNCHANGED <<comps, now>>
  BY <1>0, <1>1
<1>2. CASE Tick
  BY <1>0, <1>2 DEF Tick
<1>3. ASSUME NEW c \in Components, now' = now,
             \E row \in ComponentRow : /\ comps' = [comps EXCEPT ![c] = row]
                                       /\ comps[c] # None => row.created = comps[c].created
      PROVE  /\ now <= now'
             /\ \A d \in Components : comps[d] # None =>
                  comps'[d] # None /\ comps'[d].created = comps[d].created
  BY <1>0, <1>3
<1>4. ASSUME NEW c \in Components, NEW s \in Statuses, now' = now, ChangeComponentStatus(c, s)
      PROVE  /\ now <= now'
             /\ \A d \in Components : comps[d] # None =>
                  comps'[d] # None /\ comps'[d].created = comps[d].created
  <2>1. CASE ~ComponentByID(c)
    BY <1>0, <1>4, <2>1 DEF ChangeComponentStatus, SetComponentStatus
  <2>2. CASE ComponentByID(c)
    <3> DEFINE row == [comps[c] EXCEPT !.status = s]
    <3>1. comps[c] \in ComponentRow
      BY <1>0, <2>2 DEF ComponentByID
    <3>2. row \in ComponentRow /\ row.created = comps[c].created
      BY <3>1 DEF ComponentRow
    <3>3. comps' = [comps EXCEPT ![c] = row]
      BY <1>4, <2>2 DEF ChangeComponentStatus, SetComponentStatus
    <3> HIDE DEF row
    <3> QED
      BY <1>3, <1>4, <3>2, <3>3
  <2> QED
    BY <2>1, <2>2
<1>5. ASSUME NEW c \in Components, NEW p \in Pages, NEW a \in Attributes,
             handleCreateComponent(c, p, a)
      PROVE  /\ now <= now'
             /\ \A d \in Components : comps[d] # None =>
                  comps'[d] # None /\ comps'[d].created = comps[d].created
  BY <1>0, <1>5 DEF handleCreateComponent, CreateComponent
<1>6. ASSUME NEW c \in Components, handleDeleteComponent(c)
      PROVE  /\ now <= now'
             /\ \A d \in Components : comps[d] # None =>
                  comps'[d] # None /\ comps'[d].created = comps[d].created
  <2> DEFINE row == [comps[c] EXCEPT !.live = FALSE]
  <2>1. comps[c] \in ComponentRow
    BY <1>0, <1>6 DEF handleDeleteComponent, ComponentByID
  <2>2. row \in ComponentRow /\ row.created = comps[c].created
    BY <2>1 DEF ComponentRow
  <2>3. comps' = [comps EXCEPT ![c] = row] /\ now' = now
    BY <1>6 DEF handleDeleteComponent, SoftDeleteComponent
  <2> HIDE DEF row
  <2> QED
    BY <1>3, <2>2, <2>3
<1>7. ASSUME NEW r \in Requests, PatchAttributes(r)
      PROVE  /\ now <= now'
             /\ \A d \in Components : comps[d] # None =>
                  comps'[d] # None /\ comps'[d].created = comps[d].created
  <2> DEFINE c == req[r].comp
             copy == req[r].copy
  <2>1. c \in Components /\ copy \in ComponentRow /\ now' = now /\ UpdateComponent(c, copy)
    BY <1>7, RequestFacts DEF PatchAttributes, Inv
  <2>2. CASE ~ComponentByID(c)
    BY <1>0, <2>1, <2>2 DEF UpdateComponent
  <2>3. CASE ComponentByID(c)
    <3> DEFINE row == [comps[c] EXCEPT !.group = copy.group, !.private = copy.private,
                                       !.display = copy.display]
    <3>1. comps[c] \in ComponentRow
      BY <1>0, <2>1, <2>3 DEF ComponentByID
    <3>2. row \in ComponentRow /\ row.created = comps[c].created
      BY <2>1, <3>1 DEF ComponentRow
    <3>3. comps' = [comps EXCEPT ![c] = row]
      BY <2>1, <2>3 DEF UpdateComponent
    <3> HIDE DEF row, c, copy
    <3> QED
      BY <1>3, <2>1, <3>2, <3>3
  <2> QED
    BY <2>2, <2>3
<1>8. ASSUME NEW r \in Requests, PatchStatus(r)
      PROVE  /\ now <= now'
             /\ \A d \in Components : comps[d] # None =>
                  comps'[d] # None /\ comps'[d].created = comps[d].created
  <2>1. req[r].comp \in Components /\ req[r].status \in Statuses
    BY <1>8, RequestFacts DEF PatchStatus, Inv
  <2> QED
    BY <1>4, <1>8, <2>1 DEF PatchStatus
<1>9. ASSUME NEW c \in Components, NEW s \in Statuses, Derive(c, s)
      PROVE  /\ now <= now'
             /\ \A d \in Components : comps[d] # None =>
                  comps'[d] # None /\ comps'[d].created = comps[d].created
  BY <1>4, <1>9 DEF Derive
<1>10. CASE \/ \E g \in Groups : handleDeleteGroup(g) \/ \E p \in Pages : handleCreateGroup(g, p)
            \/ \E c \in Components :
                 \/ \E r \in Requests, body \in Bodies : handlePatchComponent(r, c, body)
                 \/ \E days \in Periods : handleUptime(c, days)
            \/ \E p \in Pages : handlePublicSummary(p)
            \/ SummaryComponents \/ UptimeHistory \/ UNCHANGED vars
  BY <1>1, <1>10 DEF handleDeleteGroup, handleCreateGroup, handlePatchComponent, handleUptime,
     handlePublicSummary, SummaryComponents, UptimeHistory, vars
<1> QED
  BY <1>2, <1>5, <1>6, <1>7, <1>8, <1>9, <1>10 DEF Next

\* Only the visitor's own steps read anything: every other one answers.
LEMMA OthersAnswer ==
    ASSUME [Next]_vars
    PROVE  \/ Answered \/ UNCHANGED vars \/ UptimeHistory \/ SummaryComponents
           \/ \E p \in Pages : handlePublicSummary(p)
           \/ \E c \in Components, days \in Periods : handleUptime(c, days)
  BY DEF Next, Disturb, handleDeleteGroup, handleCreateGroup, handleCreateComponent,
     handlePatchComponent, Derive, handleDeleteComponent, PatchAttributes, PatchStatus, Tick

LEMMA ReportIsExact ==
    ASSUME Inv, Chronicle, Asked, UptimeHistory
    PROVE  UptimeIsExact'
<1> DEFINE c == visit.comp
           t == visit.at
           days == visit.days
           start == WindowStart(t, days)
           I == StatusHistorySince(history[c], start)
           report == ComputeUptime(history[c], I, comps[c].created, t, days)
<1>1. /\ c \in Components /\ comps[c] # None /\ visit.created = comps[c].created
      /\ t \in Nat /\ comps[c].created <= t /\ t <= now /\ days \in Nat \ {0}
  BY BoardConstants DEF UptimeHistory, Asked
<1>2. /\ visit'.pc = "reported" /\ visit'.comp = c /\ visit'.created = comps[c].created
      /\ visit'.at = t /\ visit'.days = days /\ visit'.report = report /\ log' = log
  BY <1>1 DEF UptimeHistory
<1>3. /\ report.percent = FairShare(log[c], comps[c].created, t, start, t)
      /\ \A d \in 1..days :
           report.daily[d] = FairShare(log[c], comps[c].created, t,
                                       start + (d - 1) * DayLen, start + d * DayLen)
  <2> HIDE DEF c, t, days, start, I
  <2>1. start = WindowStart(t, days) /\ I = StatusHistorySince(history[c], start)
    BY DEF start, I
  <2> QED
    BY <1>1, <2>1, UptimeCounts
<1> HIDE DEF report
<1> QED
  BY <1>2, <1>3 DEF UptimeIsExact

LEMMA AskedStep ==
    ASSUME Inv, Chronicle, Asked, [Next]_vars
    PROVE  Asked'
<1>0. /\ now \in Nat /\ now' \in Nat /\ now <= now'
      /\ \A c \in Components : comps[c] # None =>
           comps'[c] # None /\ comps'[c].created = comps[c].created
  BY InvStep, CreationStays DEF Inv, TypeOK
<1>1. CASE visit' = visit
  BY <1>0, <1>1 DEF Asked
<1>2. CASE visit'.pc # "history"
  BY <1>2 DEF Asked
<1>3. CASE Answered
  <2>1. visit' = visit \/ visit'.pc # "history"
    BY <1>3 DEF Answered, NoVisit
  <2> QED
    BY <1>1, <1>2, <2>1
<1>4. CASE \E c \in Components, days \in Periods : handleUptime(c, days)
  <2>1. PICK c \in Components, days \in Periods : handleUptime(c, days)
    BY <1>4
  <2>2. /\ ComponentByID(c) /\ comps' = comps /\ now' = now
        /\ visit'.comp = c /\ visit'.created = comps[c].created /\ visit'.at = now
        /\ visit'.days = days
    BY <2>1 DEF handleUptime
  <2>3. comps[c] # None /\ comps[c].created <= now
    BY <2>2 DEF ComponentByID, Chronicle, Kept
  <2> QED
    BY <1>0, <2>2, <2>3 DEF Asked
<1>5. CASE UptimeHistory \/ SummaryComponents \/ \E p \in Pages : handlePublicSummary(p)
  BY <1>2, <1>5 DEF UptimeHistory, SummaryComponents, handlePublicSummary
<1> QED
  BY <1>1, <1>3, <1>4, <1>5, OthersAnswer DEF vars

\* A report is looked at before anything else happens.
LEMMA ExactStep ==
    ASSUME Inv, Chronicle, Asked, UptimeIsExact, [Next]_vars
    PROVE  UptimeIsExact'
<1>1. CASE UNCHANGED vars
  BY <1>1 DEF UptimeIsExact, vars
<1>2. CASE visit'.pc # "reported"
  BY <1>2 DEF UptimeIsExact
<1>3. CASE UptimeHistory
  BY <1>3, ReportIsExact
<1>4. CASE Answered
  BY <1>2, <1>4 DEF Answered, Serving, NoVisit
<1>5. CASE SummaryComponents \/ (\E p \in Pages : handlePublicSummary(p))
           \/ \E c \in Components, days \in Periods : handleUptime(c, days)
  BY <1>2, <1>5 DEF SummaryComponents, handlePublicSummary, handleUptime
<1> QED
  BY <1>1, <1>3, <1>4, <1>5, OthersAnswer

-----------------------------------------------------------------------------
(* The theorems.                                                           *)

(***************************************************************************)
(* Type correctness of groups, components, their records and requests.     *)
(***************************************************************************)
THEOREM TypeCorrect == Spec => []TypeOK
<1>1. Inv => TypeOK
  BY DEF Inv
<1> QED
  BY <1>1, InvHolds, PTL

(***************************************************************************)
(* handlePublicSummary lists every public component it should exactly once *)
(* and no private one, however groups and components change between its    *)
(* two queries, except for those that changed themselves.                  *)
(***************************************************************************)
THEOREM SummaryIsComplete == Spec => []ShownOnce
<1>1. Inv => ShownOnce
  BY ListedOnce
<1> QED
  BY <1>1, InvHolds, PTL

(***************************************************************************)
(* The status at the head of the page and of each group is the worst of    *)
(* what the visitor sees there, for any set of components.                 *)
(***************************************************************************)
THEOREM HeadIsWorst == Spec => []HeadIsExplained
<1>1. Inv => HeadIsExplained
  BY HeadIsRight
<1> QED
  BY <1>1, InvHolds, PTL

(***************************************************************************)
(* The record kept by OpenStatusPeriod and CloseOpenStatusPeriod has an    *)
(* answer for every instant: whatever the window, exactly one of the       *)
(* periods StatusHistorySince fetches holds an instant of it, with the     *)
(* status the component had then, or the component had been operational    *)
(* since it was created.  ComputeUptime sums over these periods.           *)
(***************************************************************************)
THEOREM RecordIsComplete == Spec => []RecordAnswers
<1>1. Init => Inv /\ Chronicle
  BY InvInit, ChronicleInit
<1>2. (Inv /\ Chronicle) /\ [Next]_vars => (Inv /\ Chronicle)'
  BY InvStep, ChronicleStep
<1>3. Inv /\ Chronicle => RecordAnswers
  BY ChronicleAnswers
<1> QED
  BY <1>1, <1>2, <1>3, PTL DEF Spec

(***************************************************************************)
(* What handleUptime and ComputeUptime tell a visitor is what the log      *)
(* says, for any window and length of a day, any number of periods and any *)
(* changes of status before, within and after the window, and whatever     *)
(* happens between the two queries: no period is counted twice, none that  *)
(* matters is missing from StatusHistorySince, the days add up to the      *)
(* window, and maintenance is left out of both sides of the share.         *)
(***************************************************************************)
THEOREM UptimeExact == Spec => []UptimeIsExact
<1>1. Init => Inv /\ Chronicle /\ Asked /\ UptimeIsExact
  BY InvInit, ChronicleInit DEF Init, NoVisit, Asked, UptimeIsExact
<1>2. (Inv /\ Chronicle /\ Asked /\ UptimeIsExact) /\ [Next]_vars
        => (Inv /\ Chronicle /\ Asked /\ UptimeIsExact)'
  BY InvStep, ChronicleStep, AskedStep, ExactStep
<1> QED
  BY <1>1, <1>2, PTL DEF Spec
=============================================================================
