------------------------------ MODULE Incidents ------------------------------
(***************************************************************************)
(* Incidents, planned maintenance and the component status derived from    *)
(* them: the handlers of internal/api (incidents, maintenances, components *)
(* and the inbound alert webhooks) over the transactions of internal/store.*)
(*                                                                         *)
(* Several requests run at a time.  PostgreSQL runs their transactions     *)
(* READ COMMITTED: a statement sees what was committed when it started and *)
(* the transaction's own writes, a row another transaction has written is  *)
(* waited for, and a unique index rejects what two transactions would both *)
(* insert.  A transaction keeps its writes in tx[t] until it commits.      *)
(*                                                                         *)
(* Incidents and maintenances are rows of one table here ("items"): each   *)
(* has a status, a time stamp or two, and a report that says which status  *)
(* it imposes on which component.                                          *)
(***************************************************************************)
EXTENDS Naturals, FiniteSets

CONSTANTS
    Incidents,      \* ids of incident rows
    Maints,         \* ids of maintenance rows
    Components,     \* components of one page
    Keys,           \* external dedup keys of alerts
    Txs,            \* requests in progress, at most one transaction each
    Reports,        \* what operators and alerts report: Components -> imposed status
    MaintReports,   \* what a maintenance touches, as a report
    ManualStatuses, \* statuses an operator sets by hand
    None            \* no item, no key, no component

Items == Incidents \cup Maints
Statuses == {"operational", "degraded_performance", "under_maintenance",
             "partial_outage", "major_outage"}
Sources == {"manual", "incident", "maintenance"}
Period == [status: Statuses, source: Sources]
Report == [Components -> Statuses \cup {None}]
Nothing == [c \in Components |-> None]

ASSUME IncidentConstants ==
    /\ Incidents \cap Maints = {}
    /\ None \notin Items \cup Keys \cup Components \cup Statuses \cup Period
    /\ Reports \subseteq Report
    /\ MaintReports \subseteq [Components -> {"under_maintenance", None}]
    /\ ManualStatuses \subseteq Statuses

VARIABLES
    item,       \* Items -> row, with its components
    status,     \* Components -> components.current_status
    deleted,    \* Components with deleted_at set
    open,       \* Components -> periods of component_status_history without end
    tx          \* Txs -> request and its transaction

dbVars == <<item, status, deleted, open>>
vars == <<item, status, deleted, open, tx>>

ItemStatuses == {"investigating", "resolved", "scheduled", "in_progress", "completed"}
Row == [life: {"none", "live", "deleted"},
        status: ItemStatuses,
        begun: BOOLEAN,     \* started_at of a maintenance
        ended: BOOLEAN,     \* resolved_at, completed_at
        key: Keys \cup {None}, report: Report]

NoIncident == [life |-> "none", status |-> "investigating", begun |-> TRUE,
               ended |-> FALSE, key |-> None, report |-> Nothing]
NoMaint == [NoIncident EXCEPT !.status = "scheduled", !.begun = FALSE]

Idle == [pc |-> "idle", op |-> "none", id |-> None, row |-> NoIncident,
         moved |-> FALSE, prev |-> None, replace |-> FALSE, todo |-> {},
         target |-> Nothing, on |-> None, missed |-> FALSE, new |-> Nothing,
         kept |-> {}]

\* A request with its transaction: the copy `row', the components still to be
\* looked at, the statuses derived for them, the periods opened so far.
Call == [pc: {"idle", "begin", "write", "derive", "apply", "change", "wait", "respond"},
         op: {"none", "create", "firing", "patch", "update", "alert", "delete", "manual"},
         id: Items \cup {None}, row: Row, moved: BOOLEAN, prev: ItemStatuses \cup {None},
         replace: BOOLEAN, todo: SUBSET Components, target: Report,
         on: Components \cup {None}, missed: BOOLEAN,
         new: [Components -> Period \cup {None}], kept: SUBSET Components]

\* The type of the state.
TypeOK ==
    /\ item \in [Items -> Row]
    /\ status \in [Components -> Statuses]
    /\ deleted \in SUBSET Components
    /\ open \in [Components -> SUBSET Period]
    /\ tx \in [Txs -> Call]

Init ==
    /\ item = [i \in Items |-> IF i \in Incidents THEN NoIncident ELSE NoMaint]
    /\ status = [c \in Components |-> "operational"]
    /\ deleted = {}
    /\ open = [c \in Components |-> {}]
    /\ tx = [t \in Txs |-> Idle]

-----------------------------------------------------------------------------
(* internal/domain.                                                        *)

displaySeverity(s) ==
    CASE s = "operational" -> 0
      [] s = "degraded_performance" -> 1
      [] s = "under_maintenance" -> 2
      [] s = "partial_outage" -> 3
      [] s = "major_outage" -> 4

\* Mutant: no status at all for a component nothing is imposed on.
WorstStatusOrNone(S) ==
    IF S = {} THEN None
    ELSE CHOOSE s \in S : \A r \in S : displaySeverity(r) <= displaySeverity(s)
WorstStatus(S) ==
    CHOOSE s \in S \cup {"operational"} :
        \A r \in S : displaySeverity(r) <= displaySeverity(s)

\* What the incidents that are not over say of c, and which components are
\* under works; the rows are those a statement sees.
ListActiveIncidentComponentStatuses(rows, c) ==
    {rows[i].report[c] : i \in {j \in Incidents : rows[j].life = "live"
                                                  /\ rows[j].status # "resolved"}} \ {None}
ListActiveMaintenanceComponentIDs(rows) ==
    {c \in Components : \E m \in Maints :
        rows[m].life = "live" /\ rows[m].status = "in_progress" /\ rows[m].report[c] # None}

DerivedComponentStatus(rows, c) ==
    WorstStatus(ListActiveIncidentComponentStatuses(rows, c) \cup
                IF c \in ListActiveMaintenanceComponentIDs(rows) THEN {"under_maintenance"} ELSE {})

\* Mutant: reopening keeps the time of the resolution.
ReopenKeepsStamp(row, s) ==
    [row EXCEPT !.status = s, !.ended = @ \/ s \in {"resolved", "completed"},
                !.begun = (s \notin {"scheduled", "completed"}) \/ (@ /\ s = "completed")]
\* Incident.ApplyStatusChange and Maintenance.ApplyStatusChange.
ApplyStatusChange(row, s) ==
    CASE s \in {"investigating", "scheduled"} ->
           [row EXCEPT !.status = s, !.ended = FALSE, !.begun = (s = "investigating")]
      [] s = "in_progress" -> [row EXCEPT !.status = s, !.begun = TRUE, !.ended = FALSE]
      [] s \in {"resolved", "completed"} -> [row EXCEPT !.status = s, !.ended = TRUE]

\* maintenanceTransitionEvent: does the change announce a start or an end?
maintenanceTransitionEvent(from, to) == from # to /\ to \in {"in_progress", "completed"}

Touched(report) == {c \in Components : report[c] # None}

-----------------------------------------------------------------------------
(* The queries of internal/store/db on incidents and maintenances.  A row  *)
(* is written with its components or without them.                         *)

GetIncidentByID(i) == i \in Incidents /\ item[i].life = "live"
GetMaintenanceByID(m) == m \in Maints /\ item[m].life = "live"
Loads(i) == GetIncidentByID(i) \/ GetMaintenanceByID(i)

ListIncidentComponents(i) == IF i \in Incidents THEN Touched(item[i].report) ELSE {}
ListMaintenanceComponents(m) == IF m \in Maints THEN Touched(item[m].report) ELSE {}
ListComponents(i) == ListIncidentComponents(i) \cup ListMaintenanceComponents(i)

CreateIncident(key, report) ==
    [NoIncident EXCEPT !.life = "live", !.key = key, !.report = report]
CreateMaintenance(report) == [NoMaint EXCEPT !.life = "live", !.report = report]

\* The key of an incident is not among the columns an update writes.
UpdateIncident(row, copy) == [row EXCEPT !.status = copy.status, !.ended = copy.ended]
UpdateMaintenance(row, copy) ==
    [row EXCEPT !.status = copy.status, !.begun = copy.begun, !.ended = copy.ended]
ReplaceComponents(row, report) == [row EXCEPT !.report = report]
SoftDelete(row) == [row EXCEPT !.life = "deleted"]

-----------------------------------------------------------------------------
(* A request arrives.  It reads the row it is about, applies the change to *)
(* its copy and opens the transaction.                                     *)

Start(t, request) ==
    /\ tx[t].pc = "idle"
    /\ tx' = [tx EXCEPT ![t] = request]

\* parseIncidentComponents, parseMaintenanceComponents: an unknown component
\* is answered 422.
Valid(report) == report # None => Touched(report) \cap deleted = {}

handleCreateIncident(t, i, s, report) ==
    /\ item[i].life = "none" /\ Valid(report)
    /\ Start(t, [Idle EXCEPT !.pc = "write", !.op = "create", !.id = i,
                   !.replace = TRUE, !.todo = Touched(report),
                   !.row = ApplyStatusChange(CreateIncident(None, report), s)])
    /\ UNCHANGED dbVars

\* Title, impact, postmortem and is_visible are payload; the components are
\* what other requests depend on.
handlePatchIncident(t, i, report) ==
    /\ GetIncidentByID(i) /\ Valid(report)
    /\ Start(t, [Idle EXCEPT !.pc = "begin", !.op = "patch", !.id = i,
                   !.replace = report # None,
                   !.row = [item[i] EXCEPT !.report =
                              IF report # None THEN report ELSE @]])
    /\ UNCHANGED dbVars

\* AddIncidentUpdate reads the row inside its transaction and lists the
\* components after writing it.
AddIncidentUpdate(t, i, s, op) ==
    /\ GetIncidentByID(i)
    /\ Start(t, [Idle EXCEPT !.pc = "write", !.op = op, !.id = i,
                   !.row = ApplyStatusChange(item[i], s)])
    /\ UNCHANGED dbVars

handleAddIncidentUpdate(t, i, s) == AddIncidentUpdate(t, i, s, "update")

handleCreateMaintenance(t, m, report) ==
    /\ item[m].life = "none" /\ Valid(report)
    /\ Start(t, [Idle EXCEPT !.pc = "write", !.op = "create", !.id = m,
                   !.replace = TRUE, !.todo = Touched(report),
                   !.row = CreateMaintenance(report)])
    /\ UNCHANGED dbVars

\* Mutant: the previous status is taken after the change was applied.
PatchMaintenancePrevLate(t, m, s, report) ==
    /\ GetMaintenanceByID(m) /\ Valid(report)
    /\ LET copy == [item[m] EXCEPT !.report = IF report # None THEN report ELSE @]
           row == IF s # None THEN ApplyStatusChange(copy, s) ELSE copy
       IN Start(t, [Idle EXCEPT !.pc = "begin", !.op = "patch", !.id = m,
                      !.prev = row.status, !.replace = report # None, !.row = row])
    /\ UNCHANGED dbVars

\* With s = None the status is not part of the patch.
handlePatchMaintenance(t, m, s, report) ==
    /\ GetMaintenanceByID(m) /\ Valid(report)
    /\ LET copy == [item[m] EXCEPT !.report = IF report # None THEN report ELSE @]
       IN Start(t, [Idle EXCEPT !.pc = "begin", !.op = "patch", !.id = m,
                      !.prev = item[m].status, !.replace = report # None,
                      !.row = IF s # None THEN ApplyStatusChange(copy, s) ELSE copy])
    /\ UNCHANGED dbVars

\* handleDeleteIncident and handleDeleteMaintenance.
handleDelete(t, i) ==
    /\ Loads(i)
    /\ Start(t, [Idle EXCEPT !.pc = "begin", !.op = "delete", !.id = i,
                   !.row = SoftDelete(item[i])])
    /\ UNCHANGED dbVars

\* handlePatchComponent with a status other than the current one.
handlePatchComponent(t, c, s) ==
    /\ c \notin deleted /\ status[c] # s
    /\ Start(t, [Idle EXCEPT !.pc = "change", !.op = "manual", !.on = c,
                   !.target = [Nothing EXCEPT ![c] = s]])
    /\ UNCHANGED dbVars

\* SoftDeleteComponent waits for a transaction that has written the row.
SoftDeleteComponent(c) ==
    /\ c \notin deleted
    /\ \A t \in Txs : tx[t].new[c] = None
    /\ deleted' = deleted \cup {c}
    /\ UNCHANGED <<item, status, open, tx>>

\* ingestAlert: a firing alert opens an incident unless one is open under its
\* key, a resolved alert closes the open one.  Anything else changes nothing.
IsOpen(row, k) == row.life = "live" /\ row.key = k /\ ~row.ended
OpenIncidentByDedup(k) == {i \in Incidents : IsOpen(item[i], k)}

ingestFiring(t, k, i, report) ==
    /\ OpenIncidentByDedup(k) = {}
    /\ item[i].life = "none"
    /\ LET known == [c \in Components |-> IF c \in deleted THEN None ELSE report[c]]
       IN Start(t, [Idle EXCEPT !.pc = "write", !.op = "firing", !.id = i,
                      !.replace = TRUE, !.todo = Touched(known),
                      !.row = CreateIncident(k, known)])
    /\ UNCHANGED dbVars

ingestResolved(t, k) ==
    \E i \in OpenIncidentByDedup(k) : AddIncidentUpdate(t, i, "resolved", "alert")

-----------------------------------------------------------------------------
(* The transactions of internal/store.                                     *)

\* Rollback, and the answer to the client.
End(t) == tx' = [tx EXCEPT ![t] = Idle]

\* Row locks: what a transaction has written and not yet committed.
HasWritten(t) == tx[t].id # None /\ tx[t].pc \in {"derive", "apply", "change", "wait"}
Locked(i, t) == \E u \in Txs \ {t} : HasWritten(u) /\ tx[u].id = i

\* incidents_open_dedup_key.
\* Mutant: the index is missing and the handlers' own look is all there is.
DedupUnchecked(i, row) == TRUE
DedupFree(i, row) ==
    row.key # None /\ IsOpen(row, row.key) => OpenIncidentByDedup(row.key) \subseteq {i}
DedupContended(t) ==
    /\ tx[t].row.key # None
    /\ \E u \in Txs \ {t} : HasWritten(u) /\ tx[u].row.key = tx[t].row.key

\* UpdateIncident, UpdateMaintenance and the deletions list the components of
\* the row before they write it; a deletion ends if the row is gone already.
Begin(t) ==
    /\ tx[t].pc = "begin"
    /\ IF tx[t].op = "delete" /\ ~Loads(tx[t].id)
       THEN End(t)
       ELSE tx' = [tx EXCEPT ![t].pc = "write",
                     ![t].todo = ListComponents(tx[t].id) \cup
                        (IF tx[t].replace THEN Touched(tx[t].row.report) ELSE {})]
    /\ UNCHANGED dbVars

Inserts(t) == tx[t].op \in {"create", "firing"}

\* INSERT, or UPDATE from the copy; the components only when they are replaced.
\* A row that is gone, and a second open incident under one key, end the
\* transaction.
WrittenRow(t) ==
    LET i == tx[t].id
        copy == tx[t].row
        updated == IF i \in Incidents THEN UpdateIncident(item[i], copy)
                   ELSE UpdateMaintenance(item[i], copy)
    IN CASE Inserts(t) -> copy
         [] tx[t].op = "delete" -> SoftDelete(item[i])
         [] OTHER -> IF tx[t].replace THEN ReplaceComponents(updated, copy.report) ELSE updated

Write(t) ==
    /\ tx[t].pc = "write"
    /\ ~Locked(tx[t].id, t) /\ ~DedupContended(t)
    /\ LET i == tx[t].id
           row == WrittenRow(t)
           gone == \/ Inserts(t) /\ item[i].life # "none"
                   \/ tx[t].op \in {"patch", "update", "alert"} /\ ~Loads(i)
       IN \/ /\ ~gone /\ DedupFree(i, row)
             /\ tx' = [tx EXCEPT ![t].pc = "derive", ![t].row = row,
                         ![t].todo = IF tx[t].op \in {"update", "alert"}
                                     THEN Touched(row.report) ELSE @]
          \/ /\ gone \/ ~DedupFree(i, row)
             /\ End(t)
    /\ UNCHANGED dbVars

\* Mutant: the derivation runs outside the transaction.
DeriveOutside(t) ==
    /\ tx[t].pc = "derive"
    /\ tx' = [tx EXCEPT ![t].pc = "apply",
                ![t].target = [c \in Components |-> DerivedComponentStatus(item, c)]]
    /\ UNCHANGED dbVars

\* recomputeComponentStatusesTx: the active reports, as committed by now and
\* with the transaction's own row.
Derive(t) ==
    /\ tx[t].pc = "derive"
    /\ LET rows == [item EXCEPT ![tx[t].id] = tx[t].row]
       IN tx' = [tx EXCEPT ![t].pc = "apply",
                   ![t].target = [c \in Components |-> DerivedComponentStatus(rows, c)]]
    /\ UNCHANGED dbVars

\* ... and its loop over the components, in the order of a Go map.
Compare(t, c) ==
    /\ tx[t].pc = "apply" /\ c \in tx[t].todo
    /\ IF c \in deleted \/ status[c] = tx[t].target[c]
       THEN tx' = [tx EXCEPT ![t].todo = @ \ {c}]
       ELSE tx' = [tx EXCEPT ![t].todo = @ \ {c}, ![t].pc = "change", ![t].on = c]
    /\ UNCHANGED dbVars

SourceOf(t, s) ==
    IF tx[t].op = "manual" THEN "manual"
    ELSE IF s = "under_maintenance" THEN "maintenance" ELSE "incident"

\* Mutant: the index is missing.
OpenPeriodUnchecked(c, closed) == TRUE
\* csh_open_period_key: one open period per component.
OpenPeriodFree(c, closed) == open[c] \subseteq closed

\* changeComponentStatusTx: CloseOpenStatusPeriod, SetComponentStatus and
\* OpenStatusPeriod.  A transaction that got here while another one had the
\* rows closes the period that one has closed meanwhile, that is nothing, and
\* its new period meets the index.
ChangeOrFail(t) ==
    LET c == tx[t].on
        closed == IF tx[t].missed THEN {} ELSE open[c]
        s == tx[t].target[c]
    IN IF c \in deleted \/ ~OpenPeriodFree(c, closed)
       THEN End(t)
       ELSE tx' = [tx EXCEPT ![t].pc = "apply", ![t].on = None, ![t].missed = FALSE,
                     ![t].kept = IF closed = open[c] THEN @ ELSE @ \cup {c},
                     ![t].new[c] = [status |-> s, source |-> SourceOf(t, s)]]

Held(c, t) == \E u \in Txs \ {t} : tx[u].new[c] # None

Change(t) ==
    /\ tx[t].pc = "change"
    /\ \/ ~Held(tx[t].on, t) /\ ChangeOrFail(t)
       \/ Held(tx[t].on, t) /\ tx' = [tx EXCEPT ![t].pc = "wait"]
    /\ UNCHANGED dbVars

Wake(t) ==
    /\ tx[t].pc = "wait" /\ ~Held(tx[t].on, t)
    /\ ChangeOrFail(t)
    /\ UNCHANGED dbVars

\* Commit.  Transactions waiting for one of the components learn that the
\* period they meant to close is closed.
Commit(t) ==
    /\ tx[t].pc = "apply" /\ tx[t].todo = {}
    /\ LET new == tx[t].new
           changed == {c \in Components : new[c] # None}
           i == tx[t].id
           rows == IF i = None THEN item ELSE [item EXCEPT ![i] = tx[t].row]
       IN /\ item' = rows
          /\ status' = [c \in Components |->
                          IF c \in changed THEN new[c].status ELSE status[c]]
          /\ open' = [c \in Components |->
                        IF c \notin changed THEN open[c]
                        ELSE {new[c]} \cup (IF c \in tx[t].kept THEN open[c] ELSE {})]
          /\ tx' = [u \in Txs |->
                      IF u = t
                      THEN [Idle EXCEPT !.pc = "respond", !.op = tx[t].op, !.id = i,
                              !.prev = tx[t].prev,
                              !.moved = i # None /\ item[i].status # rows[i].status]
                      ELSE [tx[u] EXCEPT !.missed =
                              @ \/ (tx[u].pc = "wait" /\ tx[u].on \in changed)]]
    /\ UNCHANGED deleted

\* UpdateMaintenance reads the row again after the commit, and
\* handlePatchMaintenance compares its status with the one it had read at the
\* start to announce that the works have begun or ended.
\* (What the engine makes of an announcement is the subject of Delivery.)
Announces(t) ==
    /\ tx[t].op = "patch" /\ GetMaintenanceByID(tx[t].id)
    /\ maintenanceTransitionEvent(tx[t].prev, item[tx[t].id].status)
Respond(t) ==
    /\ tx[t].pc = "respond"
    /\ End(t)
    /\ UNCHANGED dbVars

\* The database gives up on the transaction (a lost connection, a deadlock
\* between two loops over the same components), or the client does.
Rollback(t) ==
    /\ tx[t].pc \notin {"idle", "respond"}
    /\ End(t)
    /\ UNCHANGED dbVars

-----------------------------------------------------------------------------
Request(t) ==
    \/ \E i \in Incidents, r \in Reports :
          \/ \E s \in {"investigating", "resolved"} : handleCreateIncident(t, i, s, r)
          \/ \E k \in Keys : ingestFiring(t, k, i, r)
    \/ \E i \in Incidents, r \in Reports \cup {None} : handlePatchIncident(t, i, r)
    \/ \E i \in Incidents, s \in {"investigating", "resolved"} :
          handleAddIncidentUpdate(t, i, s)
    \/ \E m \in Maints, r \in MaintReports : handleCreateMaintenance(t, m, r)
    \/ \E m \in Maints, s \in {"scheduled", "in_progress", "completed", None},
          r \in MaintReports \cup {None} : handlePatchMaintenance(t, m, s, r)
    \/ \E i \in Items : handleDelete(t, i)
    \/ \E c \in Components, s \in ManualStatuses : handlePatchComponent(t, c, s)
    \/ \E k \in Keys : ingestResolved(t, k)

Transaction(t) ==
    \/ Begin(t) \/ Write(t) \/ Derive(t) \/ Change(t) \/ Wake(t) \/ Commit(t) \/ Respond(t)
    \/ \E c \in Components : Compare(t, c)

Next ==
    \/ \E t \in Txs : Request(t) \/ Transaction(t) \/ Rollback(t)
    \/ \E c \in Components : SoftDeleteComponent(c)

Spec == Init /\ [][Next]_vars

-----------------------------------------------------------------------------
(* Properties.                                                             *)

\* The uptime history stays usable whatever transactions overlap: a component
\* has at most one open period and, once it has one, that period's status is
\* the component's current status.
HistoryMatches ==
    \A c \in Components : \A p \in open[c] :
        open[c] = {p} /\ p.status = status[c]

\* Redelivered and concurrent alerts, and operators who reopen an incident,
\* never leave two open incidents under one dedup key.
OneOpenPerKey == \A k \in Keys : Cardinality(OpenIncidentByDedup(k)) <= 1

\* The two notions of an incident being over agree, stale whole-row writes
\* included: resolved_at, which the dedup index and ingestAlert go by, and
\* current_status, which the derivation goes by.  Likewise the time stamps
\* of a maintenance and its status.
StampsMatch ==
    /\ \A i \in Incidents : item[i].ended <=> item[i].status = "resolved"
    /\ \A m \in Maints :
         /\ item[m].ended <=> item[m].status = "completed"
         /\ item[m].status = "in_progress" => item[m].begun
         /\ item[m].status = "scheduled" => ~item[m].begun

\* recomputeComponentStatusesTx: a component not set by hand shows the worst
\* status among the active incidents and maintenances, operational if there
\* are none.
StatusIsDerived ==
    \A c \in Components \ deleted :
        /\ \A t \in Txs : tx[t].pc \in {"idle", "respond"}
        /\ \A p \in open[c] : p.source # "manual"
        => status[c] = DerivedComponentStatus(item, c)

\* maintenances.go: requests served one after the other announce the start and
\* the end of the works exactly when they really move the status there: not
\* again on a PATCH that repeats the status, and not on one of other fields.
AnnouncedOnTransition ==
    \A t \in Txs : tx[t].pc = "respond" /\ tx[t].op = "patch" /\ tx[t].id \in Maints =>
        (Announces(t) <=>
            tx[t].moved /\ item[tx[t].id].status \in {"in_progress", "completed"})
=============================================================================
