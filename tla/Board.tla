-------------------------------- MODULE Board --------------------------------
(***************************************************************************)
(* Components and groups (api/components.go, store/components.go) and what *)
(* a visitor is told about them: the summary of a page                     *)
(* (handlePublicSummary, domain/summary.go, domain/page_status.go) and the *)
(* uptime of a component (handleUptime, domain/uptime.go).  The incidents  *)
(* and maintenances listed beside a summary are those of module Incidents. *)
(*                                                                         *)
(* A visitor's request makes several queries without a transaction, an     *)
(* operator's PATCH writes a whole row from a copy; both are taken apart.  *)
(* A change of status is one transaction here (its races are those of      *)
(* module Incidents).  Names, descriptions and positions are payload.      *)
(***************************************************************************)
EXTENDS Integers, Sequences, SequencesExt, FiniteSets

CONSTANTS
    None,
    Keep,          \* a field a request does not mention
    Pages, Groups, Components,
    Statuses,      \* statuses given in this instance
    Attributes,    \* what components are created with in this instance
    Bodies,        \* bodies of the PATCH requests in this instance
    Requests,      \* PATCH requests served at a time
    DayLen,        \* instants of a day
    Periods,       \* numbers of days a visitor asks for
    Horizon,       \* bound on the clock
    MaxInputs      \* bound on requests and outside changes

\* Rows of component_groups, components and component_status_history.
GroupRow == [page : Pages, live : BOOLEAN]
ComponentRow == [page : Pages, group : Groups \cup {None}, status : Statuses, private : BOOLEAN,
                 display : BOOLEAN, live : BOOLEAN, created : Nat]
Period == [status : Statuses, start : Nat, end : Nat \cup {None}]

ASSUME BoardConstants ==
    /\ None \notin Groups \cup Components \cup ComponentRow \cup Nat /\ Keep \notin Statuses
    /\ Statuses \subseteq {"operational", "degraded_performance", "under_maintenance",
                           "partial_outage", "major_outage"}
    /\ Attributes \subseteq [group : Groups \cup {None}, private : BOOLEAN,
                               display : BOOLEAN, status : Statuses]
    /\ Bodies \subseteq [group : Groups \cup {None, Keep}, private : {Keep} \cup BOOLEAN,
                           display : {Keep} \cup BOOLEAN, status : Statuses \cup {Keep}]
    /\ DayLen \in Nat \ {0} /\ Periods \subseteq Nat \ {0}
    /\ Horizon \in Nat /\ MaxInputs \in Nat

VARIABLES
    groups,     \* group -> row, None before it is created
    comps,      \* component -> row, None before it is created
    history,    \* component -> its periods in order of their start
    req,        \* PATCH requests in progress
    visit,      \* the visitor's request
    now,        \* the clock
    log,        \* history: component -> its status in each instant, by the record
    disturbed,  \* history: groups and components changed since the visit began
    inputs      \* requests so far

vars == <<groups, comps, history, req, visit, now, log, disturbed, inputs>>

NoRequest == [pc |-> "idle", comp |-> None, copy |-> None, status |-> Keep]
NoVisit == [pc |-> "none"]

\* What the foreign key allows: a group of any page, deleted or not.
GroupExists(g) == g \in {None} \cup {h \in Groups : groups[h] # None}

\* The row of a component created with attributes a.
NewRow(a, p, t) == [page |-> p, group |-> a.group, status |-> a.status, private |-> a.private,
                    display |-> a.display, live |-> TRUE, created |-> t]

\* Groups and components of some pages, as they were created.
Init ==
    /\ groups \in [Groups -> {None} \cup {[page |-> p, live |-> TRUE] : p \in Pages}]
    /\ comps \in [Components -> {None} \cup
                     {NewRow(a, p, 0) : a \in {b \in Attributes : GroupExists(b.group)}, p \in Pages}]
    /\ history = [c \in Components |-> <<>>]
    /\ req = [r \in Requests |-> NoRequest]
    /\ visit = NoVisit
    /\ now = 0
    /\ log = [c \in Components |-> <<>>]
    /\ disturbed = {} /\ inputs = 0

Input == inputs < MaxInputs /\ inputs' = inputs + 1

\* A request being served; an answer is looked at before anything else happens.
Serving == visit.pc \in {"components", "history"}
Answered == visit' = IF Serving THEN visit ELSE NoVisit
Disturb(x) == Answered /\ disturbed' = IF Serving THEN disturbed \cup {x} ELSE {}

-----------------------------------------------------------------------------
(* Groups. *)

ComponentGroupByID(g) == groups[g] # None /\ groups[g].live

ListComponentGroupsByPage(p) == {g \in Groups : ComponentGroupByID(g) /\ groups[g].page = p}

CreateComponentGroup(g, p) == groups' = [groups EXCEPT ![g] = [page |-> p, live |-> TRUE]]

handleCreateGroup(g, p) ==
    /\ Input /\ groups[g] = None
    /\ CreateComponentGroup(g, p)
    /\ Disturb(g)
    /\ UNCHANGED <<comps, history, req, now, log>>

\* The row stays, and so do the references of the group's components.
SoftDeleteComponentGroup(g) == groups' = [groups EXCEPT ![g].live = FALSE]

handleDeleteGroup(g) ==
    /\ Input /\ ComponentGroupByID(g)
    /\ SoftDeleteComponentGroup(g)
    /\ Disturb(g)
    /\ UNCHANGED <<comps, history, req, now, log>>

-----------------------------------------------------------------------------
(* Components. *)

ComponentByID(c) == comps[c] # None /\ comps[c].live

ListComponentsByPage(p) == {c \in Components : ComponentByID(c) /\ comps[c].page = p}

CreateComponent(c, row) == comps' = [comps EXCEPT ![c] = row]

\* No period is opened for the status a component is created with.
handleCreateComponent(c, p, a) ==
    /\ Input /\ comps[c] = None
    /\ GroupExists(a.group)
    /\ CreateComponent(c, NewRow(a, p, now))
    /\ Disturb(c)
    /\ UNCHANGED <<groups, history, req, now, log>>

\* Every attribute but the status; nothing happens to a deleted component.
UpdateComponent(c, copy) ==
    comps' = IF ComponentByID(c)
             THEN [comps EXCEPT ![c].group = copy.group, ![c].private = copy.private,
                                ![c].display = copy.display]
             ELSE comps

CloseOpenStatusPeriod(h) ==
    [i \in 1..Len(h) |-> IF h[i].end = None THEN [h[i] EXCEPT !.end = now] ELSE h[i]]

OpenStatusPeriod(h, s) ==
    Append(CloseOpenStatusPeriod(h), [status |-> s, start |-> now, end |-> None])

\* No row answers for a deleted component.
SetComponentStatus(c, s) == ComponentByID(c) /\ comps' = [comps EXCEPT ![c].status = s]

\* changeComponentStatusTx: rolled back when the component is deleted.
ChangeComponentStatus(c, s) ==
    \/ SetComponentStatus(c, s) /\ history' = [history EXCEPT ![c] = OpenStatusPeriod(@, s)]
    \/ ~ComponentByID(c) /\ UNCHANGED <<comps, history>>

Over(old, new) == IF new = Keep THEN old ELSE new

\* PATCH: the row is read and the body laid over the copy.
handlePatchComponent(r, c, body) ==
    /\ Input /\ req[r].pc = "idle"
    /\ ComponentByID(c)
    /\ body.group # Keep => GroupExists(body.group)
    /\ req' = [req EXCEPT ![r] =
                 [pc |-> "update", comp |-> c, status |-> body.status,
                  copy |-> [comps[c] EXCEPT !.group = Over(@, body.group),
                                            !.private = Over(@, body.private),
                                            !.display = Over(@, body.display)]]]
    /\ Answered /\ UNCHANGED <<groups, comps, history, now, log, disturbed>>

\* The copy is written; a status that differs from the row's is set next.
PatchAttributes(r) ==
    /\ req[r].pc = "update"
    /\ LET c == req[r].comp
       IN /\ UpdateComponent(c, req[r].copy)
          /\ Disturb(c)
          /\ req' = [req EXCEPT ![r] =
                       IF ComponentByID(c) /\ req[r].status \notin {Keep, comps[c].status}
                       THEN [@ EXCEPT !.pc = "status"] ELSE NoRequest]
    /\ UNCHANGED <<groups, history, now, log, inputs>>

PatchStatus(r) ==
    /\ req[r].pc = "status"
    /\ ChangeComponentStatus(req[r].comp, req[r].status)
    /\ Disturb(req[r].comp)
    /\ req' = [req EXCEPT ![r] = NoRequest]
    /\ UNCHANGED <<groups, now, log, inputs>>

\* An incident or a maintenance imposes a status (recomputeComponentStatusesTx).
Derive(c, s) ==
    /\ Input /\ ComponentByID(c) /\ comps[c].status # s
    /\ ChangeComponentStatus(c, s)
    /\ Disturb(c)
    /\ UNCHANGED <<groups, req, now, log>>

SoftDeleteComponent(c) == comps' = [comps EXCEPT ![c].live = FALSE]

handleDeleteComponent(c) ==
    /\ Input /\ ComponentByID(c)
    /\ SoftDeleteComponent(c)
    /\ Disturb(c)
    /\ UNCHANGED <<groups, history, req, now, log>>

\* An instant passes.  The log takes down what the record says of it.
Recorded(c) == IF history[c] = <<>> THEN "operational" ELSE Last(history[c]).status

Tick ==
    /\ now < Horizon /\ now' = now + 1
    /\ log' = [c \in Components |->
                 IF comps[c] = None THEN log[c] ELSE Append(log[c], Recorded(c))]
    /\ Answered /\ UNCHANGED <<groups, comps, history, req, disturbed, inputs>>

-----------------------------------------------------------------------------
(* The summary. *)

displaySeverity == [operational |-> 0, degraded_performance |-> 1, under_maintenance |-> 2,
                    partial_outage |-> 3, major_outage |-> 4]

WorstStatus(S) ==
    CHOOSE s \in S \cup {"operational"} : \A t \in S : displaySeverity[t] <= displaySeverity[s]

\* Mutant: a private component counts.
CountsWhenPrivate(row) == row.display

CountsTowardStatus(row) == ~row.private /\ row.display

\* rows is the list of components as it was read.
ComputeOverallStatus(rows) ==
    WorstStatus({rows[c].status : c \in {d \in DOMAIN rows : CountsTowardStatus(rows[d])}})

ComputeGroupStatus(g, rows) ==
    WorstStatus({rows[c].status : c \in {d \in DOMAIN rows :
                    rows[d].group = g /\ CountsTowardStatus(rows[d])}})

Visible(rows) == {c \in DOMAIN rows : ~rows[c].private}

\* Mutant: informational components are left out of their group.
SummaryOfCounted(gs, rows) ==
    [overall |-> ComputeOverallStatus(rows),
     status |-> [g \in gs |-> ComputeGroupStatus(g, rows)],
     section |-> [g \in gs |-> {c \in Visible(rows) : rows[c].group = g /\ rows[c].display}],
     ungrouped |-> {c \in Visible(rows) : rows[c].group = None},
     rows |-> rows]

BuildPublicSummary(gs, rows) ==
    [overall |-> ComputeOverallStatus(rows),
     status |-> [g \in gs |-> ComputeGroupStatus(g, rows)],
     section |-> [g \in gs |-> {c \in Visible(rows) : rows[c].group = g}],
     ungrouped |-> {c \in Visible(rows) : rows[c].group = None},
     rows |-> rows]

\* handlePublicSummary: the groups first ...
handlePublicSummary(p) ==
    /\ ~Serving
    /\ visit' = [pc |-> "components", page |-> p, groups |-> ListComponentGroupsByPage(p)]
    /\ disturbed' = {}
    /\ UNCHANGED <<groups, comps, history, req, now, log, inputs>>

\* ... then the components.
SummaryComponents ==
    /\ visit.pc = "components"
    /\ visit' = [pc |-> "shown", page |-> visit.page,
                 summary |-> BuildPublicSummary(visit.groups,
                                [c \in ListComponentsByPage(visit.page) |-> comps[c]])]
    /\ UNCHANGED <<groups, comps, history, req, now, log, disturbed, inputs>>

-----------------------------------------------------------------------------
(* Uptime.  Percentages are in hundredths, which is what round2 leaves.    *)

statusIsDown(s) == s \in {"partial_outage", "major_outage"}

Later(a, b) == IF a > b THEN a ELSE b
Earlier(a, b) == IF a < b THEN a ELSE b

overlap(a1, a2, b1, b2) == Later(0, Earlier(a2, b2) - Later(a1, b1))

round2(part, whole) == (20000 * part + whole) \div (2 * whole)

Percent(part, whole) == IF whole > 0 THEN round2(part, whole) ELSE 10000

\* Mutant: a period that began before the window is not fetched.
SinceStarted(h, since) == {i \in 1..Len(h) : h[i].start >= since}

\* StatusHistorySince: what is open or ended within the window.
StatusHistorySince(h, since) == {i \in 1..Len(h) : h[i].end = None \/ h[i].end >= since}

WindowStart(t, days) == (t \div DayLen - (days - 1)) * DayLen

\* Time in the statuses S between lo and hi, by the periods I of h.
TimeIn(S, h, I, t, lo, hi) ==
    SumFunction([i \in {j \in I : h[j].status \in S} |->
                   overlap(lo, hi, h[i].start, IF h[i].end = None THEN t ELSE h[i].end)])

ComputeUptime(h, I, created, t, days) ==
    LET start(d) == WindowStart(t, days) + (d - 1) * DayLen
        lo(d) == Later(start(d), created)
        hi(d) == Later(lo(d), Earlier(start(d) + DayLen, t))
        down(d) == TimeIn({s \in Statuses : statusIsDown(s)}, h, I, t, lo(d), hi(d))
        effective(d) == hi(d) - lo(d) - TimeIn({"under_maintenance"}, h, I, t, lo(d), hi(d))
        totalDown == SumFunction([d \in 1..days |-> down(d)])
        totalEffective == SumFunction([d \in 1..days |-> effective(d)])
    IN [daily |-> [d \in 1..days |-> Percent(effective(d) - down(d), effective(d))],
        percent |-> Percent(totalEffective - totalDown, totalEffective)]

\* handleUptime: the component, then the clock ...
handleUptime(c, days) ==
    /\ ~Serving
    /\ ComponentByID(c) /\ ~comps[c].private
    /\ visit' = [pc |-> "history", comp |-> c, created |-> comps[c].created,
                 at |-> now, days |-> days]
    /\ disturbed' = {}
    /\ UNCHANGED <<groups, comps, history, req, now, log, inputs>>

\* ... then the history, which may have moved on by then.
UptimeHistory ==
    /\ visit.pc = "history"
    /\ LET h == history[visit.comp]
           I == StatusHistorySince(h, WindowStart(visit.at, visit.days))
       IN visit' = [pc |-> "reported", comp |-> visit.comp, created |-> visit.created,
                    at |-> visit.at, days |-> visit.days,
                    report |-> ComputeUptime(h, I, visit.created, visit.at, visit.days)]
    /\ UNCHANGED <<groups, comps, history, req, now, log, disturbed, inputs>>

-----------------------------------------------------------------------------

Next ==
    \/ \E g \in Groups : handleDeleteGroup(g) \/ \E p \in Pages : handleCreateGroup(g, p)
    \/ \E c \in Components :
         \/ \E p \in Pages, a \in Attributes : handleCreateComponent(c, p, a)
         \/ \E r \in Requests, body \in Bodies : handlePatchComponent(r, c, body)
         \/ \E s \in Statuses : Derive(c, s)
         \/ handleDeleteComponent(c)
         \/ \E days \in Periods : handleUptime(c, days)
    \/ \E r \in Requests : PatchAttributes(r) \/ PatchStatus(r)
    \/ \E p \in Pages : handlePublicSummary(p)
    \/ SummaryComponents \/ UptimeHistory
    \/ Tick

Spec == Init /\ [][Next]_vars

-----------------------------------------------------------------------------
(* Properties. *)

\* The type of the state.
TypeOK ==
    /\ groups \in [Groups -> {None} \cup GroupRow]
    /\ comps \in [Components -> {None} \cup ComponentRow]
    /\ history \in [Components -> Seq(Period)]
    /\ req \in [Requests -> {NoRequest}
         \cup [pc : {"update"}, comp : Components, copy : ComponentRow, status : Statuses \cup {Keep}]
         \cup [pc : {"status"}, comp : Components, copy : ComponentRow, status : Statuses]]
    /\ visit.pc \in {"none", "components", "history", "shown", "reported"}
    /\ now \in 0..Horizon /\ inputs \in 0..MaxInputs
    /\ log \in [Components -> Seq(Statuses \cup {"operational"})]
    /\ disturbed \subseteq Groups \cup Components

Shown == visit.pc = "shown"

\* The sections of the summary that list c.
Places(c) ==
    {g \in DOMAIN visit.summary.section : c \in visit.summary.section[g]}
        \cup (IF c \in visit.summary.ungrouped THEN {None} ELSE {})

(***************************************************************************)
(* Whatever operators do between the queries of handlePublicSummary, a     *)
(* public component that was left alone, in a group of the page that was   *)
(* left alone or in none, is listed exactly once, and a private one that   *)
(* was left alone is not listed.  A component whose group was deleted is   *)
(* not covered: its row still names the group, and no section lists it.    *)
(***************************************************************************)
ShownOnce ==
    Shown => \A c \in ListComponentsByPage(visit.page) \ disturbed :
        LET g == comps[c].group IN
        /\ comps[c].private => Places(c) = {}
        /\ (~comps[c].private /\ g \notin disturbed
             /\ (g = None \/ g \in ListComponentGroupsByPage(visit.page)))
              => Places(c) = {g}

(***************************************************************************)
(* The status at the head of the page and of each group is the worst among *)
(* the components the visitor sees there, neither better nor worse, unless *)
(* a component read names a group that was not read                        *)
(* (ComputeOverallStatus counts it although no section shows it).          *)
(***************************************************************************)
HeadIsExplained ==
    Shown => LET v == visit.summary
                 seen == {c \in DOMAIN v.rows : Places(c) # {} /\ v.rows[c].display}
                 lost == {c \in Visible(v.rows) : Places(c) = {}}
             IN /\ \A c \in seen : displaySeverity[v.rows[c].status] <= displaySeverity[v.overall]
                /\ lost = {} => (v.overall = "operational"
                                  \/ \E c \in seen : v.rows[c].status = v.overall)
                /\ \A g \in DOMAIN v.section :
                     v.status[g] = WorstStatus({v.rows[c].status : c \in seen \cap v.section[g]})

\* Instants between lo and hi, from creation to the request, at which the log l
\* of a component has a status of S.
Instants(S, l, created, at, lo, hi) ==
    Cardinality({t \in lo..(hi - 1) : t >= created /\ t < at /\ l[t - created + 1] \in S})

\* The share of these instants, maintenance left out, that are not down.
FairShare(l, created, at, lo, hi) ==
    LET counted == Instants((Statuses \cup {"operational"}) \ {"under_maintenance"},
                            l, created, at, lo, hi)
        down == Instants({s \in Statuses : statusIsDown(s)}, l, created, at, lo, hi)
    IN Percent(counted - down, counted)

(***************************************************************************)
(* The uptime a visitor is told is the share of the instants, maintenance  *)
(* left out, in which the component was not down, as of the moment the     *)
(* request was made: changes before, within and after the window, and      *)
(* those made while the request ran, are counted neither twice nor not at  *)
(* all (StatusHistorySince, ComputeUptime).                                *)
(***************************************************************************)
UptimeIsExact ==
    visit.pc = "reported" =>
        LET start == WindowStart(visit.at, visit.days)
            fair(lo, hi) == FairShare(log[visit.comp], visit.created, visit.at, lo, hi)
        IN /\ visit.report.percent = fair(start, visit.at)
           /\ \A d \in 1..visit.days :
                visit.report.daily[d] = fair(start + (d - 1) * DayLen, start + d * DayLen)

=============================================================================
