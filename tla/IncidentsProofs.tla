--------------------------- MODULE IncidentsProofs ---------------------------
(***************************************************************************)
(* Theorems about Incidents, for every set of incidents, maintenances,     *)
(* components, dedup keys and overlapping requests.                        *)
(***************************************************************************)
EXTENDS Incidents, FiniteSetTheorems, TLAPS

-----------------------------------------------------------------------------
(* The operators of internal/domain.                                       *)

\* Among statuses of components there is a worst one.
LEMMA WorstExists ==
    ASSUME NEW S \in SUBSET Statuses
    PROVE  \E s \in S \cup {"operational"} :
               \A r \in S : displaySeverity(r) <= displaySeverity(s)
<1> USE DEF Statuses, displaySeverity
<1>1. CASE "major_outage" \in S
  BY <1>1
<1>2. CASE "major_outage" \notin S /\ "partial_outage" \in S
  BY <1>2
<1>3. CASE S \cap {"major_outage", "partial_outage"} = {} /\ "under_maintenance" \in S
  BY <1>3
<1>4. CASE /\ S \cap {"major_outage", "partial_outage", "under_maintenance"} = {}
           /\ "degraded_performance" \in S
  BY <1>4
<1>5. CASE S \subseteq {"operational"}
  BY <1>5
<1> QED BY <1>1, <1>2, <1>3, <1>4, <1>5

\* What is derived for a component is a status.
LEMMA DerivedIsStatus ==
    ASSUME NEW rows \in [Items -> Row], NEW c \in Components
    PROVE  DerivedComponentStatus(rows, c) \in Statuses
<1> DEFINE S == ListActiveIncidentComponentStatuses(rows, c) \cup
                (IF c \in ListActiveMaintenanceComponentIDs(rows) THEN {"under_maintenance"} ELSE {})
<1>1. S \in SUBSET Statuses
  BY DEF ListActiveIncidentComponentStatuses, Row, Report, Items, Statuses
<1>2. WorstStatus(S) \in S \cup {"operational"}
  BY <1>1, WorstExists DEF WorstStatus
<1> QED BY <1>1, <1>2 DEF DerivedComponentStatus, Statuses

\* A change of status leaves a row of the table.
LEMMA ApplyIsRow ==
    ASSUME NEW row \in Row, NEW s \in ItemStatuses
    PROVE  ApplyStatusChange(row, s) \in Row
BY DEF ApplyStatusChange, Row, ItemStatuses

\* The time stamps of a row agree with its status, for an item of either kind.
Stamped(i, row) ==
    /\ i \in Incidents => (row.ended <=> row.status = "resolved")
    /\ i \in Maints =>
         /\ row.ended <=> row.status = "completed"
         /\ row.status = "in_progress" => row.begun
         /\ row.status = "scheduled" => ~row.begun

\* ApplyStatusChange brings the stamps in line with the new status.
LEMMA ApplyStamps ==
    ASSUME NEW row \in Row, NEW i \in Items, Stamped(i, row),
           NEW s \in ItemStatuses,
           i \in Incidents => s \in {"investigating", "resolved"},
           i \in Maints => s \in {"scheduled", "in_progress", "completed"}
    PROVE  Stamped(i, ApplyStatusChange(row, s))
BY IncidentConstants DEF ApplyStatusChange, Row, ItemStatuses, Stamped, Items

-----------------------------------------------------------------------------
(* What a request looks like when it has just arrived.                     *)

\* The three kinds of requests: a manual change of a component, the insertion
\* of a row, and a change of a row that is there.
Arrived(q) ==
    /\ q \in Call
    /\ q.new = Nothing /\ q.kept = {} /\ q.missed = FALSE
    /\ \/ /\ q.op = "manual" /\ q.pc = "change" /\ q.id = None
          /\ q.on \in Components /\ q.target[q.on] \in Statuses /\ q.todo = {}
       \/ /\ q.op \in {"create", "firing"} /\ q.pc = "write" /\ q.id \in Items
          /\ q.row.life = "live" /\ Stamped(q.id, q.row)
          /\ q.todo = Touched(q.row.report)
       \/ /\ \/ q.op \in {"patch", "delete"} /\ q.pc = "begin"
             \/ q.op \in {"update", "alert"} /\ q.pc = "write" /\ ~q.replace
          /\ q.id \in Items /\ item[q.id].life # "none"
          /\ q.row.key = item[q.id].key /\ Stamped(q.id, q.row)
          /\ q.op = "patch" /\ q.id \in Maints => q.prev = item[q.id].status

\* The idle request is one.
LEMMA IdleIsCall == Idle \in Call /\ NoIncident \in Row /\ NoMaint \in Row
BY DEF Idle, Call, NoIncident, NoMaint, Row, ItemStatuses, Nothing, Report, Period

\* Every handler starts a request of one of these kinds and writes nothing yet.
LEMMA RequestArrives ==
    ASSUME TypeOK, StampsMatch, NEW t \in Txs, Request(t)
    PROVE  /\ UNCHANGED dbVars
           /\ \E q : Arrived(q) /\ Start(t, q)
<1> USE IncidentConstants, IdleIsCall
<1>0. \A i \in Items : item[i] \in Row /\ Stamped(i, item[i])
  BY DEF TypeOK, StampsMatch, Stamped, Items
<1>1. ASSUME NEW i \in Incidents, NEW r \in Reports, NEW s \in {"investigating", "resolved"},
             handleCreateIncident(t, i, s, r)
      PROVE  UNCHANGED dbVars /\ \E q : Arrived(q) /\ Start(t, q)
  <2> DEFINE row == CreateIncident(None, r)
             new == ApplyStatusChange(row, s)
             q == [Idle EXCEPT !.pc = "write", !.op = "create", !.id = i,
                   !.replace = TRUE, !.todo = Touched(r), !.row = new]
  <2>1. row \in Row /\ Stamped(i, row) /\ row.life = "live"
    BY DEF CreateIncident, NoIncident, Row, Stamped, ItemStatuses
  <2>2. new \in Row /\ Stamped(i, new)
    BY <2>1, ApplyIsRow, ApplyStamps DEF ItemStatuses, Items
  <2>3. new.life = "live" /\ new.report = r
    <3>1. row.report = r
      BY DEF CreateIncident, NoIncident
    <3> QED BY <2>1, <3>1 DEF ApplyStatusChange, Row
  <2> HIDE DEF new
  <2>4. Arrived(q)
    BY <2>2, <2>3 DEF Arrived, Call, Idle, Touched, Items
  <2> QED BY <1>1, <2>4 DEF handleCreateIncident, new
<1>2. ASSUME NEW i \in Incidents, NEW r \in Reports, NEW k \in Keys, ingestFiring(t, k, i, r)
      PROVE  UNCHANGED dbVars /\ \E q : Arrived(q) /\ Start(t, q)
  <2> DEFINE known == [c \in Components |-> IF c \in deleted THEN None ELSE r[c]]
             new == CreateIncident(k, known)
             q == [Idle EXCEPT !.pc = "write", !.op = "firing", !.id = i,
                   !.replace = TRUE, !.todo = Touched(known), !.row = new]
  <2>1. known \in Report
    BY DEF Report
  <2> HIDE DEF known
  <2>2. new \in Row /\ Stamped(i, new) /\ new.life = "live" /\ new.report = known
    BY <2>1 DEF CreateIncident, NoIncident, Row, Stamped, ItemStatuses
  <2> HIDE DEF new
  <2>3. Arrived(q)
    BY <2>2 DEF Arrived, Call, Idle, Touched, Items
  <2> QED BY <1>2, <2>3 DEF ingestFiring, known, new
<1>3. ASSUME NEW i \in Incidents, NEW r \in Reports \cup {None}, handlePatchIncident(t, i, r)
      PROVE  UNCHANGED dbVars /\ \E q : Arrived(q) /\ Start(t, q)
  <2> DEFINE new == [item[i] EXCEPT !.report = IF r # None THEN r ELSE @]
             q == [Idle EXCEPT !.pc = "begin", !.op = "patch", !.id = i,
                   !.replace = r # None, !.row = new]
  <2>1. item[i] \in Row /\ Stamped(i, item[i]) /\ item[i].life = "live"
    BY <1>0, <1>3 DEF handlePatchIncident, GetIncidentByID, Items
  <2>2. new \in Row /\ Stamped(i, new) /\ new.key = item[i].key
    BY <2>1 DEF Row, Stamped
  <2> HIDE DEF new
  <2>3. Arrived(q)
    BY <2>1, <2>2 DEF Arrived, Call, Idle, Items
  <2> QED BY <1>3, <2>3 DEF handlePatchIncident, new
<1>4. ASSUME NEW i \in Incidents, NEW s \in {"investigating", "resolved"},
             NEW op \in {"update", "alert"}, AddIncidentUpdate(t, i, s, op)
      PROVE  UNCHANGED dbVars /\ \E q : Arrived(q) /\ Start(t, q)
  <2> DEFINE new == ApplyStatusChange(item[i], s)
             q == [Idle EXCEPT !.pc = "write", !.op = op, !.id = i, !.row = new]
  <2>1. item[i] \in Row /\ Stamped(i, item[i]) /\ item[i].life = "live"
    BY <1>0, <1>4 DEF AddIncidentUpdate, GetIncidentByID, Items
  <2>2. new \in Row /\ Stamped(i, new)
    BY <2>1, ApplyIsRow, ApplyStamps DEF ItemStatuses, Items
  <2>3. new.key = item[i].key
    BY <2>1 DEF ApplyStatusChange, Row
  <2> HIDE DEF new
  <2>4. Arrived(q)
    BY <2>1, <2>2, <2>3 DEF Arrived, Call, Idle, Items
  <2> QED BY <1>4, <2>4 DEF AddIncidentUpdate, new
<1>5. ASSUME NEW m \in Maints, NEW r \in MaintReports, handleCreateMaintenance(t, m, r)
      PROVE  UNCHANGED dbVars /\ \E q : Arrived(q) /\ Start(t, q)
  <2> DEFINE new == CreateMaintenance(r)
             q == [Idle EXCEPT !.pc = "write", !.op = "create", !.id = m,
                   !.replace = TRUE, !.todo = Touched(r), !.row = new]
  <2>1. r \in Report
    BY DEF Report, Statuses
  <2>2. new \in Row /\ Stamped(m, new) /\ new.life = "live" /\ new.report = r
    BY <2>1 DEF CreateMaintenance, NoMaint, NoIncident, Row, Stamped, ItemStatuses
  <2> HIDE DEF new
  <2>3. Arrived(q)
    BY <2>2 DEF Arrived, Call, Idle, Touched, Items
  <2> QED BY <1>5, <2>3 DEF handleCreateMaintenance, new
<1>6. ASSUME NEW m \in Maints, NEW s \in {"scheduled", "in_progress", "completed", None},
             NEW r \in MaintReports \cup {None}, handlePatchMaintenance(t, m, s, r)
      PROVE  UNCHANGED dbVars /\ \E q : Arrived(q) /\ Start(t, q)
  <2> DEFINE copy == [item[m] EXCEPT !.report = IF r # None THEN r ELSE @]
             new == IF s # None THEN ApplyStatusChange(copy, s) ELSE copy
             q == [Idle EXCEPT !.pc = "begin", !.op = "patch", !.id = m,
                   !.prev = item[m].status, !.replace = r # None, !.row = new]
  <2>1. item[m] \in Row /\ Stamped(m, item[m]) /\ item[m].life = "live"
    BY <1>0, <1>6 DEF handlePatchMaintenance, GetMaintenanceByID, Items
  <2>2. r # None => r \in Report
    BY DEF Report, Statuses
  <2>3. copy \in Row /\ Stamped(m, copy) /\ copy.key = item[m].key
    BY <2>1, <2>2 DEF Row, Stamped
  <2> HIDE DEF copy
  <2>4. new \in Row /\ Stamped(m, new)
    BY <2>3, ApplyIsRow, ApplyStamps DEF ItemStatuses, Items
  <2>5. new.key = item[m].key
    BY <2>3 DEF ApplyStatusChange, Row
  <2>6. item[m].status \in ItemStatuses
    BY <2>1 DEF Row
  <2> HIDE DEF new
  <2>7. Arrived(q)
    BY <2>1, <2>4, <2>5, <2>6 DEF Arrived, Call, Idle, Items
  <2> QED BY <1>6, <2>7 DEF handlePatchMaintenance, new, copy
<1>7. ASSUME NEW i \in Items, handleDelete(t, i)
      PROVE  UNCHANGED dbVars /\ \E q : Arrived(q) /\ Start(t, q)
  <2> DEFINE new == SoftDelete(item[i])
             q == [Idle EXCEPT !.pc = "begin", !.op = "delete", !.id = i, !.row = new]
  <2>1. item[i] \in Row /\ Stamped(i, item[i]) /\ item[i].life = "live"
    BY <1>0, <1>7 DEF handleDelete, Loads, GetIncidentByID, GetMaintenanceByID
  <2>2. new \in Row /\ Stamped(i, new) /\ new.key = item[i].key
    BY <2>1 DEF SoftDelete, Row, Stamped
  <2> HIDE DEF new
  <2>3. Arrived(q)
    BY <2>1, <2>2 DEF Arrived, Call, Idle
  <2> QED BY <1>7, <2>3 DEF handleDelete, new
<1>8. ASSUME NEW c \in Components, NEW s \in ManualStatuses, handlePatchComponent(t, c, s)
      PROVE  UNCHANGED dbVars /\ \E q : Arrived(q) /\ Start(t, q)
  <2> DEFINE new == [Nothing EXCEPT ![c] = s]
             q == [Idle EXCEPT !.pc = "change", !.op = "manual", !.on = c, !.target = new]
  <2>1. new \in Report /\ new[c] \in Statuses
    BY DEF Nothing, Report
  <2> HIDE DEF new
  <2>2. Arrived(q)
    BY <2>1 DEF Arrived, Call, Idle
  <2> QED BY <1>8, <2>2 DEF handlePatchComponent, new
<1>9. ASSUME NEW k \in Keys, ingestResolved(t, k)
      PROVE  UNCHANGED dbVars /\ \E q : Arrived(q) /\ Start(t, q)
  BY <1>4, <1>9 DEF ingestResolved, OpenIncidentByDedup
<1>10. ASSUME NEW i \in Incidents, NEW s \in {"investigating", "resolved"},
              handleAddIncidentUpdate(t, i, s)
       PROVE  UNCHANGED dbVars /\ \E q : Arrived(q) /\ Start(t, q)
  BY <1>4, <1>10 DEF handleAddIncidentUpdate
<1> QED BY <1>1, <1>2, <1>3, <1>5, <1>6, <1>7, <1>8, <1>9, <1>10 DEF Request

-----------------------------------------------------------------------------
(* The inductive invariant behind types, history and time stamps.          *)

\* A request between two of its steps: what the next step needs is there, the
\* copy of the row has matching stamps, and every period it has opened so far
\* replaces the open one (none is kept beside the new one).
Sound(q) ==
    /\ q \in Call
    /\ q.pc \in {"begin", "write", "derive"} => q.id \in Items
    /\ q.pc \in {"change", "wait"} => q.on \in Components /\ q.target[q.on] \in Statuses
    /\ q.pc \in {"apply", "change", "wait"} => \A c \in q.todo : q.target[c] \in Statuses
    /\ q.id \in Items => Stamped(q.id, q.row)
    /\ q.kept = {}

Inv ==
    /\ TypeOK
    /\ \A t \in Txs : Sound(tx[t])
    /\ StampsMatch
    /\ HistoryMatches

\* What has just arrived is sound, and so is a request that has ended.
LEMMA ArrivedIsSound ==
    ASSUME NEW q, Arrived(q)
    PROVE  Sound(q)
BY IncidentConstants DEF Arrived, Sound

LEMMA IdleIsSound == Sound(Idle)
BY IdleIsCall, IncidentConstants DEF Sound, Idle

\* The row a transaction writes is a row with matching stamps: an update takes
\* status and stamps together from the copy, a deletion takes neither.
LEMMA WrittenRowIsSound ==
    ASSUME Inv, NEW t \in Txs, tx[t].pc = "write"
    PROVE  WrittenRow(t) \in Row /\ Stamped(tx[t].id, WrittenRow(t))
<1> DEFINE i == tx[t].id
           copy == tx[t].row
           updated == IF i \in Incidents THEN UpdateIncident(item[i], copy)
                      ELSE UpdateMaintenance(item[i], copy)
<1>1. i \in Items /\ copy \in Row /\ copy.report \in Report /\ Stamped(i, copy)
  BY DEF Inv, Sound, Call, Row
<1>2. item[i] \in Row /\ Stamped(i, item[i])
  BY <1>1 DEF Inv, TypeOK, StampsMatch, Stamped, Items
<1>3. updated \in Row /\ Stamped(i, updated)
  BY <1>1, <1>2, IncidentConstants DEF UpdateIncident, UpdateMaintenance, Row, Stamped, Items
<1>4. SoftDelete(item[i]) \in Row /\ Stamped(i, SoftDelete(item[i]))
  BY <1>2 DEF SoftDelete, Row, Stamped
<1>5. /\ ReplaceComponents(updated, copy.report) \in Row
      /\ Stamped(i, ReplaceComponents(updated, copy.report))
  <2> HIDE DEF updated
  <2> QED BY <1>1, <1>3 DEF ReplaceComponents, Row, Stamped
<1>6. WrittenRow(t) \in {copy, SoftDelete(item[i]), ReplaceComponents(updated, copy.report), updated}
  BY DEF WrittenRow
<1> HIDE DEF updated
<1> QED BY <1>1, <1>3, <1>4, <1>5, <1>6

\* A step of a request other than its commit writes nothing others can see and
\* leaves the request sound.
StepsAlone(t) == \E q : Sound(q) /\ tx' = [tx EXCEPT ![t] = q]

LEMMA ChangeIsSound ==
    ASSUME Inv, NEW t \in Txs, tx[t].pc \in {"change", "wait"}, ChangeOrFail(t)
    PROVE  StepsAlone(t)
<1> DEFINE r == tx[t]
           c == r.on
           closed == IF r.missed THEN {} ELSE open[c]
           s == r.target[c]
           p == [status |-> s, source |-> SourceOf(t, s)]
           q == [r EXCEPT !.pc = "apply", !.on = None, !.missed = FALSE,
                          !.kept = IF closed = open[c] THEN @ ELSE @ \cup {c},
                          !.new = [@ EXCEPT ![c] = p]]
<1>1. r \in Call /\ Sound(r) /\ c \in Components /\ s \in Statuses
  BY DEF Inv, Sound
<1>2. p \in Period
  BY <1>1 DEF Period, SourceOf, Sources
<1>3. CASE c \in deleted \/ ~OpenPeriodFree(c, closed)
  BY <1>3, IdleIsSound DEF ChangeOrFail, End, StepsAlone
<1>4. CASE ~(c \in deleted \/ ~OpenPeriodFree(c, closed))
  <2>1. closed = open[c]
    BY <1>4 DEF OpenPeriodFree
  <2>2. tx' = [tx EXCEPT ![t] = q]
    BY <1>1, <1>4 DEF ChangeOrFail, Inv, TypeOK, Call
  <2>3. Sound(q)
    <3> HIDE DEF p
    <3> QED BY <1>1, <1>2, <2>1 DEF Sound, Call
  <2> QED BY <2>2, <2>3 DEF StepsAlone
<1> QED BY <1>3, <1>4

LEMMA StepIsSound ==
    ASSUME Inv, NEW t \in Txs,
           \/ Request(t) \/ Begin(t) \/ Write(t) \/ Derive(t) \/ Change(t) \/ Wake(t)
           \/ Respond(t) \/ Rollback(t) \/ \E c \in Components : Compare(t, c)
    PROVE  UNCHANGED dbVars /\ StepsAlone(t)
<1> DEFINE r == tx[t]
<1>0. r \in Call /\ Sound(r) /\ tx \in [Txs -> Call]
  BY DEF Inv, Sound, TypeOK
<1>1. CASE Request(t)
  BY <1>1, RequestArrives, ArrivedIsSound DEF Inv, Start, StepsAlone
<1>2. CASE Begin(t)
  <2> DEFINE todo == ListComponents(r.id) \cup
                       (IF r.replace THEN Touched(r.row.report) ELSE {})
             q == [r EXCEPT !.pc = "write", !.todo = todo]
  <2>1. todo \in SUBSET Components
    BY DEF ListComponents, ListIncidentComponents, ListMaintenanceComponents, Touched
  <2> HIDE DEF todo
  <2>2. Sound(q)
    BY <1>0, <1>2, <2>1 DEF Sound, Call, Begin
  <2>3. tx' = [tx EXCEPT ![t] = q] \/ End(t)
    BY <1>0, <1>2 DEF Begin, Call, todo
  <2> QED BY <1>2, <2>2, <2>3, IdleIsSound DEF Begin, End, StepsAlone
<1>3. CASE Write(t)
  <2> DEFINE row == WrittenRow(t)
             todo == IF r.op \in {"update", "alert"} THEN Touched(row.report) ELSE r.todo
             q == [r EXCEPT !.pc = "derive", !.row = row, !.todo = todo]
  <2>1. todo \in SUBSET Components
    BY <1>0 DEF Call, Touched
  <2>2. row \in Row /\ Stamped(r.id, row)
    BY <1>3, WrittenRowIsSound DEF Write
  <2>3. tx' = [tx EXCEPT ![t] = q] \/ End(t)
    BY <1>0, <1>3 DEF Write, Call
  <2> HIDE DEF todo, row
  <2>4. Sound(q)
    BY <1>0, <1>3, <2>1, <2>2 DEF Sound, Call, Write
  <2> QED BY <1>3, <2>3, <2>4, IdleIsSound DEF Write, End, StepsAlone
<1>4. CASE Derive(t)
  <2> DEFINE rows == [item EXCEPT ![r.id] = r.row]
             target == [c \in Components |-> DerivedComponentStatus(rows, c)]
             q == [r EXCEPT !.pc = "apply", !.target = target]
  <2>1. rows \in [Items -> Row]
    BY <1>0 DEF Inv, TypeOK, Call
  <2>2. target \in [Components -> Statuses]
    BY <2>1, DerivedIsStatus
  <2>3. tx' = [tx EXCEPT ![t] = q]
    BY <1>0, <1>4 DEF Derive, Call
  <2> HIDE DEF target
  <2>4. Sound(q)
    BY <1>0, <1>4, <2>2 DEF Sound, Call, Derive, Report
  <2> QED BY <1>4, <2>3, <2>4 DEF Derive, StepsAlone
<1>5. CASE Change(t)
  <2>1. CASE ChangeOrFail(t)
    BY <1>5, <2>1, ChangeIsSound DEF Change
  <2>2. CASE tx' = [tx EXCEPT ![t].pc = "wait"]
    <3> DEFINE q == [r EXCEPT !.pc = "wait"]
    <3>1. Sound(q)
      BY <1>0, <1>5 DEF Sound, Call, Change
    <3>2. tx' = [tx EXCEPT ![t] = q]
      BY <1>0, <2>2 DEF Call
    <3> QED BY <1>5, <3>1, <3>2 DEF Change, StepsAlone
  <2> QED BY <1>5, <2>1, <2>2 DEF Change
<1>6. CASE Wake(t)
  BY <1>6, ChangeIsSound DEF Wake
<1>7. CASE Respond(t) \/ Rollback(t)
  BY <1>7, IdleIsSound DEF Respond, Rollback, End, StepsAlone
<1>8. ASSUME NEW c \in Components, Compare(t, c)
      PROVE  UNCHANGED dbVars /\ StepsAlone(t)
  <2> DEFINE skip == [r EXCEPT !.todo = @ \ {c}]
             go == [r EXCEPT !.todo = @ \ {c}, !.pc = "change", !.on = c]
  <2>1. Sound(skip) /\ Sound(go)
    BY ZenonT(60), <1>0, <1>8 DEF Sound, Call, Compare
  <2>2. tx' = [tx EXCEPT ![t] = skip] \/ tx' = [tx EXCEPT ![t] = go]
    BY <1>0, <1>8 DEF Compare, Call
  <2> QED BY <1>8, <2>1, <2>2 DEF Compare, StepsAlone
<1> QED BY <1>1, <1>2, <1>3, <1>4, <1>5, <1>6, <1>7, <1>8

\* The commit publishes the row, the statuses and the periods at once.
LEMMA CommitKeepsInv ==
    ASSUME Inv, NEW t \in Txs, Commit(t)
    PROVE  Inv'
<1> DEFINE r == tx[t]
           i == r.id
           rows == IF i = None THEN item ELSE [item EXCEPT ![i] = r.row]
           changed == {c \in Components : r.new[c] # None}
<1>0. r \in Call /\ Sound(r) /\ tx \in [Txs -> Call]
  BY DEF Inv, Sound, TypeOK
<1>1. /\ item' = rows
      /\ status' = [c \in Components |-> IF c \in changed THEN r.new[c].status ELSE status[c]]
      /\ open' = [c \in Components |-> IF c \notin changed THEN open[c] ELSE {r.new[c]}]
      /\ deleted' = deleted
  BY <1>0 DEF Commit, Sound
<1>2. \A c \in changed : r.new[c] \in Period
  BY <1>0 DEF Call
<1>3. item' \in [Items -> Row] /\ \A j \in Items : Stamped(j, item'[j])
  <2>1. \A j \in Items : item[j] \in Row /\ Stamped(j, item[j])
    BY DEF Inv, TypeOK, StampsMatch, Stamped, Items
  <2> QED BY <1>0, <1>1, <2>1 DEF Sound, Call, Inv, TypeOK
<1>4. \A u \in Txs : Sound(tx'[u])
  <2> SUFFICES ASSUME NEW u \in Txs PROVE Sound(tx'[u])
    OBVIOUS
  <2>1. CASE u = t
    <3> DEFINE moved == i # None /\ item[i].status # rows[i].status
               q == [Idle EXCEPT !.pc = "respond", !.op = r.op, !.id = i,
                                 !.prev = r.prev, !.moved = moved]
    <3>1. tx'[u] = q
      BY <2>1 DEF Commit
    <3>2. moved \in BOOLEAN
      OBVIOUS
    <3> HIDE DEF moved
    <3>3. q \in Call
      BY <1>0, <3>2, IdleIsCall DEF Call, Idle
    <3>4. Stamped(i, NoIncident)
      BY IncidentConstants DEF Stamped, NoIncident
    <3>5. q.pc = "respond" /\ q.row = NoIncident /\ q.kept = {} /\ q.id = i
      BY DEF Idle
    <3> QED BY <3>1, <3>3, <3>4, <3>5 DEF Sound
  <2>2. CASE u # t
    <3> DEFINE missed == tx[u].missed \/ (tx[u].pc = "wait" /\ tx[u].on \in changed)
               q == [tx[u] EXCEPT !.missed = missed]
    <3>1. tx'[u] = q
      BY <2>2 DEF Commit
    <3>2. tx[u] \in Call /\ Sound(tx[u]) /\ missed \in BOOLEAN
      BY DEF Inv, Sound, Call
    <3> HIDE DEF missed
    <3> QED BY <3>1, <3>2 DEF Sound, Call
  <2> QED BY <2>1, <2>2
<1>5. tx' \in [Txs -> Call]
  BY <1>4 DEF Commit, Sound
<1>6. TypeOK'
  BY <1>1, <1>2, <1>3, <1>5 DEF Inv, TypeOK, Period
<1>7. StampsMatch'
  BY <1>3 DEF StampsMatch, Stamped, Items
<1>8. HistoryMatches'
  BY <1>1, <1>2 DEF Inv, HistoryMatches, Period
<1> QED BY <1>4, <1>6, <1>7, <1>8 DEF Inv

\* Nothing has happened yet.
LEMMA InitInv == Init => Inv
<1> SUFFICES ASSUME Init PROVE Inv
  OBVIOUS
<1>1. \A i \in Items : item[i] \in {NoIncident, NoMaint}
                       /\ (i \in Incidents => item[i] = NoIncident)
                       /\ (i \in Maints => item[i] = NoMaint)
  BY IncidentConstants DEF Init, Items
<1>2. TypeOK
  BY <1>1, IdleIsCall DEF Init, TypeOK, Statuses
<1>3. StampsMatch
  <2>1. NoIncident.status = "investigating" /\ ~NoIncident.ended
    BY DEF NoIncident
  <2>2. NoMaint.status = "scheduled" /\ ~NoMaint.ended /\ ~NoMaint.begun
    BY DEF NoMaint, NoIncident
  <2> QED BY <1>1, <2>1, <2>2 DEF StampsMatch, Items
<1>4. HistoryMatches
  BY DEF Init, HistoryMatches
<1> QED BY <1>2, <1>3, <1>4, IdleIsSound DEF Inv, Init

\* Every step keeps the invariant.
LEMMA NextInv == Inv /\ [Next]_vars => Inv'
<1> SUFFICES ASSUME Inv, [Next]_vars PROVE Inv'
  OBVIOUS
<1>1. ASSUME NEW t \in Txs, Request(t) \/ Transaction(t) \/ Rollback(t)
      PROVE  Inv'
  <2>1. CASE Commit(t)
    BY <2>1, CommitKeepsInv
  <2>2. CASE ~Commit(t)
    <3>1. UNCHANGED dbVars /\ StepsAlone(t)
      BY <1>1, <2>2, StepIsSound DEF Transaction
    <3>2. PICK q : Sound(q) /\ tx' = [tx EXCEPT ![t] = q]
      BY <3>1 DEF StepsAlone
    <3>3. tx' \in [Txs -> Call] /\ \A u \in Txs : Sound(tx'[u])
      BY <3>2 DEF Inv, TypeOK, Sound
    <3> QED BY <3>1, <3>3 DEF Inv, TypeOK, StampsMatch, HistoryMatches, dbVars
  <2> QED BY <2>1, <2>2
<1>2. ASSUME NEW c \in Components, SoftDeleteComponent(c)
      PROVE  Inv'
  BY <1>2 DEF SoftDeleteComponent, Inv, TypeOK, StampsMatch, HistoryMatches
<1>3. CASE UNCHANGED vars
  BY <1>3 DEF vars, Inv, TypeOK, StampsMatch, HistoryMatches
<1> QED BY <1>1, <1>2, <1>3 DEF Next

LEMMA AlwaysInv == Spec => []Inv
BY InitInv, NextInv, PTL DEF Spec

\* The rows, statuses, periods and requests keep their types, however many
\* requests overlap: in particular a status is derived for every component a
\* transaction is about to write.
THEOREM TypeCorrect == Spec => []TypeOK
<1>1. Inv => TypeOK
  BY DEF Inv
<1> QED BY <1>1, AlwaysInv, PTL

\* changeComponentStatusTx and csh_open_period_key: a component never has two
\* open periods of history and an open period shows the current status,
\* whichever transactions interleave, wait for one another or roll back.
THEOREM HistoryIsUsable == Spec => []HistoryMatches
<1>1. Inv => HistoryMatches
  BY DEF Inv
<1> QED BY <1>1, AlwaysInv, PTL

\* ApplyStatusChange with the whole-row UPDATEs: status and time stamps of an
\* incident or maintenance agree even when a stale copy overwrites a newer row.
THEOREM StampsAgree == Spec => []StampsMatch
<1>1. Inv => StampsMatch
  BY DEF Inv
<1> QED BY <1>1, AlwaysInv, PTL

-----------------------------------------------------------------------------
(* One open incident per dedup key.                                        *)

\* What the row locks and the unique index buy.  A request that will write a
\* row has the row's key in its copy; a transaction that has written a row is
\* the only one that has; and if that row will be open under a key, no other
\* incident is open under it and no other transaction has written a row with it.
Prepared(r) ==
    r.pc \in {"begin", "write"} =>
        IF r.op \in {"create", "firing"} THEN r.row.life = "live"
        ELSE item[r.id].life # "none" /\ r.row.key = item[r.id].key
Carried(r) ==
    /\ r.row.life # "none"
    /\ item[r.id].life # "none" => r.row.key = item[r.id].key
Alone(u) ==
    /\ \A v \in Txs : HasWritten(v) /\ tx[v].id = tx[u].id => v = u
    /\ \A k \in Keys : IsOpen(tx[u].row, k) =>
         /\ OpenIncidentByDedup(k) \subseteq {tx[u].id}
         /\ \A v \in Txs : HasWritten(v) /\ tx[v].row.key = k => v = u
AtMostOne == \A k \in Keys : \A i, j \in OpenIncidentByDedup(k) : i = j

KeyInv ==
    /\ \A t \in Txs : Prepared(tx[t])
    /\ \A t \in Txs : HasWritten(t) => Carried(tx[t]) /\ Alone(t)
    /\ AtMostOne

\* A step that does not write and does not arrive: the request ends, or goes on
\* with the row it has.
Continues(t) ==
    \E q : /\ tx' = [tx EXCEPT ![t] = q]
           /\ \/ q.pc \in {"idle", "respond"}
              \/ /\ q.id = tx[t].id /\ q.row = tx[t].row /\ q.op = tx[t].op
                 /\ q.pc \in {"derive", "apply", "change", "wait"} =>
                      tx[t].pc \in {"derive", "apply", "change", "wait"}
                 /\ q.pc \in {"begin", "write"} => tx[t].pc \in {"begin", "write"}

LEMMA EndContinues == ASSUME NEW t \in Txs, End(t) PROVE Continues(t)
<1>1. Idle.pc = "idle"
  BY DEF Idle
<1> QED BY <1>1 DEF End, Continues

LEMMA ContinuesKeepsKeys ==
    ASSUME Inv, KeyInv, NEW t \in Txs, Continues(t), UNCHANGED item
    PROVE  KeyInv'
<1>1. PICK q : /\ tx' = [tx EXCEPT ![t] = q]
               /\ \/ q.pc \in {"idle", "respond"}
                  \/ /\ q.id = tx[t].id /\ q.row = tx[t].row /\ q.op = tx[t].op
                     /\ q.pc \in {"derive", "apply", "change", "wait"} =>
                          tx[t].pc \in {"derive", "apply", "change", "wait"}
                     /\ q.pc \in {"begin", "write"} => tx[t].pc \in {"begin", "write"}
  BY DEF Continues
<1>2. \A u \in Txs : tx'[u] = IF u = t THEN q ELSE tx[u]
  BY <1>1 DEF Inv, TypeOK
<1>3. \A u \in Txs : Prepared(tx[u])'
  BY <1>1, <1>2 DEF KeyInv, Prepared
<1>4. \A u \in Txs : HasWritten(u)' =>
        HasWritten(u) /\ tx'[u].id = tx[u].id /\ tx'[u].row = tx[u].row
  BY <1>1, <1>2 DEF HasWritten
<1>5. \A k \in Keys : OpenIncidentByDedup(k)' = OpenIncidentByDedup(k)
  BY DEF OpenIncidentByDedup, IsOpen
<1>6. \A u \in Txs : HasWritten(u)' => Carried(tx[u])'
  BY <1>4 DEF KeyInv, Carried
<1>7. ASSUME NEW u \in Txs, HasWritten(u)'
      PROVE  Alone(u)'
  <2>1. Alone(u) /\ HasWritten(u) /\ tx'[u].id = tx[u].id /\ tx'[u].row = tx[u].row
    BY <1>4, <1>7 DEF KeyInv
  <2> QED BY <2>1, <1>4, <1>5 DEF Alone, IsOpen
<1>8. AtMostOne'
  BY <1>5 DEF KeyInv, AtMostOne
<1> QED BY <1>3, <1>6, <1>7, <1>8 DEF KeyInv

LEMMA ArrivalKeepsKeys ==
    ASSUME Inv, KeyInv, NEW t \in Txs, Request(t)
    PROVE  KeyInv'
<1>1. UNCHANGED item
  BY RequestArrives DEF Inv, dbVars
<1>2. PICK q : Arrived(q) /\ Start(t, q)
  BY RequestArrives DEF Inv
<1>3. \A u \in Txs : tx'[u] = IF u = t THEN q ELSE tx[u]
  BY <1>2 DEF Inv, TypeOK, Start
<1>4. Prepared(q) /\ (q.id = None \/ q.pc \in {"begin", "write"})
  BY <1>2 DEF Arrived, Prepared
<1>5. \A u \in Txs : Prepared(tx[u])'
  BY <1>1, <1>3, <1>4 DEF KeyInv, Prepared
<1>6. \A u \in Txs : HasWritten(u)' =>
        HasWritten(u) /\ tx'[u].id = tx[u].id /\ tx'[u].row = tx[u].row
  BY <1>3, <1>4 DEF HasWritten
<1>7. \A k \in Keys : OpenIncidentByDedup(k)' = OpenIncidentByDedup(k)
  BY <1>1 DEF OpenIncidentByDedup, IsOpen
<1>8. \A u \in Txs : HasWritten(u)' => Carried(tx[u])'
  BY <1>1, <1>6 DEF KeyInv, Carried
<1>9. ASSUME NEW u \in Txs, HasWritten(u)'
      PROVE  Alone(u)'
  <2>1. Alone(u) /\ HasWritten(u) /\ tx'[u].id = tx[u].id /\ tx'[u].row = tx[u].row
    BY <1>6, <1>9 DEF KeyInv
  <2> QED BY <2>1, <1>6, <1>7 DEF Alone, IsOpen
<1>10. AtMostOne'
  BY <1>7 DEF KeyInv, AtMostOne
<1> QED BY <1>5, <1>8, <1>9, <1>10 DEF KeyInv

\* The row an update writes keeps the key and the life of the row it found.
LEMMA WrittenRowKey ==
    ASSUME Inv, KeyInv, NEW t \in Txs, tx[t].pc = "write",
           ~(Inserts(t) /\ item[tx[t].id].life # "none")
    PROVE  /\ WrittenRow(t).key = tx[t].row.key
           /\ WrittenRow(t).life # "none"
           /\ item[tx[t].id].life # "none" => WrittenRow(t).key = item[tx[t].id].key
<1> DEFINE i == tx[t].id
           copy == tx[t].row
           updated == IF i \in Incidents THEN UpdateIncident(item[i], copy)
                      ELSE UpdateMaintenance(item[i], copy)
<1>1. i \in Items /\ copy \in Row /\ item[i] \in Row
  BY DEF Inv, Sound, Call, TypeOK
<1>2. CASE Inserts(t)
  BY <1>2 DEF WrittenRow, KeyInv, Prepared, Inserts
<1>3. CASE ~Inserts(t)
  <2>1. item[i].life # "none" /\ copy.key = item[i].key
    BY <1>3 DEF KeyInv, Prepared, Inserts
  <2>2. updated \in Row /\ updated.key = item[i].key /\ updated.life = item[i].life
    BY <1>1 DEF UpdateIncident, UpdateMaintenance, Row
  <2>3. SoftDelete(item[i]).key = item[i].key /\ SoftDelete(item[i]).life = "deleted"
    BY <1>1 DEF SoftDelete, Row
  <2>4. WrittenRow(t) \in {SoftDelete(item[i]), ReplaceComponents(updated, copy.report), updated}
    BY <1>3 DEF WrittenRow
  <2> HIDE DEF updated
  <2>5. /\ ReplaceComponents(updated, copy.report).key = updated.key
        /\ ReplaceComponents(updated, copy.report).life = updated.life
    BY <2>2 DEF ReplaceComponents, Row
  <2> QED BY <2>1, <2>2, <2>3, <2>4, <2>5
<1> QED BY <1>2, <1>3

LEMMA WriteKeepsKeys ==
    ASSUME Inv, KeyInv, NEW t \in Txs, Write(t)
    PROVE  KeyInv'
<1> DEFINE r == tx[t]
           i == r.id
           row == WrittenRow(t)
<1>0. UNCHANGED item
  BY DEF Write, dbVars
<1>1. CASE End(t)
  BY <1>0, <1>1, EndContinues, ContinuesKeepsKeys
<1>2. CASE ~End(t)
  <2>1. /\ r.pc = "write" /\ ~Locked(i, t) /\ ~DedupContended(t)
        /\ ~(Inserts(t) /\ item[i].life # "none") /\ DedupFree(i, row)
    BY <1>2 DEF Write
  <2>2. row.key = r.row.key /\ row.life # "none" /\ (item[i].life # "none" => row.key = item[i].key)
    BY <2>1, WrittenRowKey
  <2>3. \A u \in Txs : u # t => tx'[u] = tx[u]
    BY <1>2 DEF Write, Inv, TypeOK
  <2>4. tx'[t].pc = "derive" /\ tx'[t].row = row /\ tx'[t].id = i
    <3>1. r \in Call /\ tx \in [Txs -> Call]
      BY DEF Inv, TypeOK
    <3> QED BY <1>2, <3>1 DEF Write, Call
  <2>5. i \in Items /\ i # None
    BY <2>1, IncidentConstants DEF Inv, Sound
  <2> HIDE DEF row
  <2>6. \A u \in Txs : Prepared(tx[u])'
    BY <1>0, <2>3, <2>4 DEF KeyInv, Prepared
  <2>7. \A u \in Txs : u # t => HasWritten(u)' = HasWritten(u)
    BY <2>3 DEF HasWritten
  <2>8. \A k \in Keys : OpenIncidentByDedup(k)' = OpenIncidentByDedup(k)
    BY <1>0 DEF OpenIncidentByDedup, IsOpen
  <2>9. \A u \in Txs : HasWritten(u)' => Carried(tx[u])'
    BY <1>0, <2>2, <2>3, <2>4, <2>7 DEF KeyInv, Carried
  <2>10. Alone(t)'
    <3>1. ASSUME NEW v \in Txs, HasWritten(v)', tx'[v].id = i, v # t
          PROVE  FALSE
      BY <2>1, <2>3, <2>7, <3>1 DEF Locked
    <3>2. ASSUME NEW k \in Keys, IsOpen(row, k)
          PROVE  /\ OpenIncidentByDedup(k) \subseteq {i}
                 /\ \A v \in Txs : HasWritten(v)' /\ tx'[v].row.key = k => v = t
      <4>1. row.key = k /\ k # None
        BY <3>2, IncidentConstants DEF IsOpen
      <4>2. OpenIncidentByDedup(k) \subseteq {i}
        BY <2>1, <3>2, <4>1 DEF DedupFree
      <4> QED BY <2>1, <2>2, <2>3, <2>7, <4>1, <4>2 DEF DedupContended
    <3> QED BY <2>4, <2>8, <3>1, <3>2 DEF Alone, IsOpen
  <2>11. ASSUME NEW u \in Txs, HasWritten(u), u # t
         PROVE  Alone(u)'
    <3>1. Alone(u) /\ tx'[u] = tx[u]
      BY <2>3, <2>11 DEF KeyInv
    <3>2. tx[u].id # i
      BY <2>1, <2>11 DEF Locked
    <3>3. \A k \in Keys : IsOpen(tx[u].row, k) => row.key # k
      BY <2>1, <2>2, <2>11, IncidentConstants DEF DedupContended, IsOpen
    <3> QED BY <2>3, <2>4, <2>7, <2>8, <3>1, <3>2, <3>3 DEF Alone, IsOpen
  <2>12. AtMostOne'
    BY <2>8 DEF KeyInv, AtMostOne
  <2> QED BY <2>6, <2>7, <2>9, <2>10, <2>11, <2>12 DEF KeyInv
<1> QED BY <1>1, <1>2

\* The other steps of a transaction before its commit go on with the row.
LEMMA OthersContinue ==
    ASSUME Inv, NEW t \in Txs,
           \/ Begin(t) \/ Derive(t) \/ Change(t) \/ Wake(t) \/ Respond(t) \/ Rollback(t)
           \/ \E c \in Components : Compare(t, c)
    PROVE  Continues(t) /\ UNCHANGED item
<1> DEFINE r == tx[t]
<1>0. r \in Call /\ tx \in [Txs -> Call]
  BY DEF Inv, TypeOK
<1>1. UNCHANGED item
  BY DEF Begin, Derive, Change, Wake, Respond, Rollback, Compare, dbVars
<1>2. SUFFICES Continues(t)
  BY <1>1
<1>3. ASSUME r.pc \in {"change", "wait"}, ChangeOrFail(t)
      PROVE  Continues(t)
  <2>1. CASE End(t)
    BY <2>1, EndContinues
  <2>2. CASE ~End(t)
    <3>1. /\ tx' = [tx EXCEPT ![t] = tx'[t]]
          /\ tx'[t].id = r.id /\ tx'[t].row = r.row /\ tx'[t].op = r.op /\ tx'[t].pc = "apply"
      BY <1>0, <1>3, <2>2 DEF ChangeOrFail, Call
    <3> QED BY <1>3, <3>1 DEF Continues
  <2> QED BY <2>1, <2>2
<1>4. CASE Begin(t)
  <2>1. CASE End(t)
    BY <2>1, EndContinues
  <2>2. CASE ~End(t)
    <3>1. /\ tx' = [tx EXCEPT ![t] = tx'[t]] /\ r.pc = "begin"
          /\ tx'[t].id = r.id /\ tx'[t].row = r.row /\ tx'[t].op = r.op /\ tx'[t].pc = "write"
      BY <1>0, <1>4, <2>2 DEF Begin, Call
    <3> QED BY <3>1 DEF Continues
  <2> QED BY <2>1, <2>2
<1>5. CASE Derive(t)
  <2>1. /\ tx' = [tx EXCEPT ![t] = tx'[t]] /\ r.pc = "derive"
        /\ tx'[t].id = r.id /\ tx'[t].row = r.row /\ tx'[t].op = r.op /\ tx'[t].pc = "apply"
    BY <1>0, <1>5 DEF Derive, Call
  <2> QED BY <2>1 DEF Continues
<1>6. CASE Change(t)
  <2>1. CASE tx' = [tx EXCEPT ![t].pc = "wait"]
    <3>1. /\ tx' = [tx EXCEPT ![t] = tx'[t]] /\ r.pc = "change"
          /\ tx'[t].id = r.id /\ tx'[t].row = r.row /\ tx'[t].op = r.op /\ tx'[t].pc = "wait"
      BY <1>0, <1>6, <2>1 DEF Change, Call
    <3> QED BY <3>1 DEF Continues
  <2> QED BY <1>3, <1>6, <2>1 DEF Change
<1>7. CASE Wake(t)
  BY <1>3, <1>7 DEF Wake
<1>8. CASE Respond(t) \/ Rollback(t)
  BY <1>8, EndContinues DEF Respond, Rollback
<1>9. ASSUME NEW c \in Components, Compare(t, c)
      PROVE  Continues(t)
  <2> DEFINE skip == [r EXCEPT !.todo = @ \ {c}]
             go == [r EXCEPT !.todo = @ \ {c}, !.pc = "change", !.on = c]
  <2>1. tx' = [tx EXCEPT ![t] = skip] \/ tx' = [tx EXCEPT ![t] = go]
    BY <1>0, <1>9 DEF Compare, Call
  <2>2. /\ skip.id = r.id /\ skip.row = r.row /\ skip.op = r.op /\ skip.pc = r.pc
        /\ go.id = r.id /\ go.row = r.row /\ go.op = r.op /\ go.pc = "change"
    BY <1>0 DEF Call
  <2>3. r.pc = "apply"
    BY <1>9 DEF Compare
  <2> HIDE DEF skip, go
  <2> QED BY <2>1, <2>2, <2>3 DEF Continues
<1> QED BY <1>4, <1>5, <1>6, <1>7, <1>8, <1>9

\* The commit makes the written row visible: under its key nothing else is
\* open, and what others hold of the row they read is still so.
LEMMA CommitKeepsKeys ==
    ASSUME Inv, KeyInv, NEW t \in Txs, Commit(t)
    PROVE  KeyInv'
<1> DEFINE r == tx[t]
           i == r.id
<1>0. r \in Call /\ tx \in [Txs -> Call] /\ (i # None => HasWritten(t))
  BY DEF Inv, TypeOK, HasWritten, Commit
<1>1. item' = IF i = None THEN item ELSE [item EXCEPT ![i] = r.row]
  BY DEF Commit
<1>2. tx'[t].pc = "respond"
  BY DEF Commit, Idle
<1>3. \A u \in Txs : u # t => /\ tx'[u].id = tx[u].id /\ tx'[u].row = tx[u].row
                              /\ tx'[u].op = tx[u].op /\ tx'[u].pc = tx[u].pc
  BY <1>0 DEF Commit, Call
<1>4. \A u \in Txs : HasWritten(u)' => u # t /\ HasWritten(u)
  BY <1>2, <1>3 DEF HasWritten
<1>5. \A j \in Items : item'[j] = IF j = i THEN r.row ELSE item[j]
  BY <1>1, IncidentConstants DEF Inv, TypeOK
<1>6. i # None => i \in Items /\ r.row.life # "none"
                  /\ (item[i].life # "none" => r.row.key = item[i].key)
  BY <1>0 DEF KeyInv, Carried, Call
<1>7. ASSUME NEW u \in Txs
      PROVE  Prepared(tx[u])'
  <2>1. CASE u = t
    BY <1>2, <2>1 DEF Prepared
  <2>2. CASE u # t
    <3>1. Prepared(tx[u]) /\ (tx[u].pc \in {"begin", "write"} => tx[u].id \in Items)
      BY DEF KeyInv, Inv, Sound
    <3> QED BY SMTT(30), <1>3, <1>5, <1>6, <2>2, <3>1, IncidentConstants DEF Prepared
  <2> QED BY <2>1, <2>2
<1>8. ASSUME NEW u \in Txs, HasWritten(u)'
      PROVE  Carried(tx[u])'
  <2>1. u # t /\ HasWritten(u) /\ Carried(tx[u]) /\ tx[u].id \in Items /\ tx[u].id # None
    BY <1>4, <1>8 DEF KeyInv, HasWritten, Inv, TypeOK, Call
  <2>2. tx[u].id # i
    BY <1>0, <2>1 DEF KeyInv, Alone
  <2> QED BY <1>3, <1>5, <2>1, <2>2 DEF Carried
<1>9. \A k \in Keys : OpenIncidentByDedup(k)' \subseteq
          OpenIncidentByDedup(k) \cup {j \in {i} : i # None /\ IsOpen(r.row, k)}
  BY <1>5, IncidentConstants DEF OpenIncidentByDedup, IsOpen, Items
<1>10. ASSUME NEW u \in Txs, HasWritten(u)'
       PROVE  Alone(u)'
  <2>1. u # t /\ HasWritten(u) /\ Alone(u)
    BY <1>4, <1>10 DEF KeyInv
  <2>2. \A k \in Keys : IsOpen(tx[u].row, k) => OpenIncidentByDedup(k)' \subseteq {tx[u].id}
    BY <1>0, <1>9, <2>1 DEF Alone, IsOpen
  <2> QED BY <1>3, <1>4, <2>1, <2>2 DEF Alone, IsOpen
<1>11. AtMostOne'
  <2> SUFFICES ASSUME NEW k \in Keys, NEW a \in OpenIncidentByDedup(k)',
                      NEW b \in OpenIncidentByDedup(k)'
               PROVE  a = b
    BY DEF AtMostOne
  <2>1. CASE i # None /\ IsOpen(r.row, k)
    BY <1>0, <1>9, <2>1 DEF KeyInv, Alone
  <2>2. CASE ~(i # None /\ IsOpen(r.row, k))
    BY <1>9, <2>2 DEF KeyInv, AtMostOne
  <2> QED BY <2>1, <2>2
<1> QED BY <1>7, <1>8, <1>10, <1>11 DEF KeyInv

LEMMA AlwaysKeyInv == Spec => []KeyInv
<1>1. Init => KeyInv
  <2> SUFFICES ASSUME Init PROVE KeyInv
    OBVIOUS
  <2>1. \A t \in Txs : tx[t].pc = "idle"
    BY DEF Init, Idle
  <2>2. \A i \in Incidents : item[i].life = "none"
    BY DEF Init, NoIncident, Items
  <2> QED BY <2>1, <2>2 DEF KeyInv, Prepared, HasWritten, AtMostOne, OpenIncidentByDedup, IsOpen
<1>2. Inv /\ KeyInv /\ [Next]_vars => KeyInv'
  <2> SUFFICES ASSUME Inv, KeyInv, [Next]_vars PROVE KeyInv'
    OBVIOUS
  <2>1. ASSUME NEW t \in Txs, Request(t) \/ Transaction(t) \/ Rollback(t)
        PROVE  KeyInv'
    BY <2>1, ArrivalKeepsKeys, WriteKeepsKeys, CommitKeepsKeys, OthersContinue,
       ContinuesKeepsKeys DEF Transaction
  <2>2. ASSUME item' = item, tx' = tx
        PROVE  KeyInv'
    BY <2>2 DEF KeyInv, Prepared, Carried, Alone, AtMostOne, OpenIncidentByDedup, IsOpen,
                HasWritten
  <2> QED BY <2>1, <2>2 DEF Next, SoftDeleteComponent, vars
<1> QED BY <1>1, <1>2, AlwaysInv, PTL DEF Spec

\* incidents_open_dedup_key, the row locks and the copies the handlers take:
\* however alerts are redelivered and overlap with operators who reopen or
\* delete incidents, no dedup key ever has two open incidents.
THEOREM DedupHolds == Spec => []OneOpenPerKey
<1>1. KeyInv => OneOpenPerKey
  <2> SUFFICES ASSUME KeyInv, NEW k \in Keys
               PROVE  Cardinality(OpenIncidentByDedup(k)) <= 1
    BY DEF OneOpenPerKey
  <2>1. CASE OpenIncidentByDedup(k) = {}
    BY <2>1, FS_EmptySet
  <2>2. ASSUME NEW i \in OpenIncidentByDedup(k)
        PROVE  Cardinality(OpenIncidentByDedup(k)) = 1
    <3>1. OpenIncidentByDedup(k) = {i}
      BY <2>2 DEF KeyInv, AtMostOne
    <3> QED BY <3>1, FS_Singleton
  <2> QED BY <2>1, <2>2
<1> QED BY <1>1, AlwaysKeyInv, PTL

-----------------------------------------------------------------------------
(* Requests served one after the other.                                    *)

Serial == \A t, u \in Txs : t = u

\* The rows as the transaction of r sees them once it has written its own.
RowsOf(r) == [item EXCEPT ![r.id] = r.row]

\* The request by itself: before the write it knows which components to look
\* at; after the derivation each of them is still to do, or has its new period,
\* or needed none; the other components derive to what they did before.
Planned(r) ==
    /\ r.pc = "begin" => r.op \in {"patch", "delete"}
    /\ r.pc = "write" =>
         \/ r.op \in {"create", "firing"} /\ r.todo = Touched(r.row.report)
         \/ r.op \in {"update", "alert"} /\ ~r.replace
         \/ /\ r.op \in {"patch", "delete"}
            /\ r.todo = ListComponents(r.id) \cup
                          (IF r.replace THEN Touched(r.row.report) ELSE {})
    /\ r.pc \in {"begin", "write", "derive"} => r.new = Nothing
    /\ r.pc = "derive" =>
         \A c \in Components \ r.todo :
             DerivedComponentStatus(RowsOf(r), c) = DerivedComponentStatus(item, c)
Looked(r, c) ==
    /\ r.target[c] = DerivedComponentStatus(RowsOf(r), c)
    /\ r.new[c] # None => r.new[c].status = r.target[c]
    /\ r.new[c] = None /\ c \notin deleted /\ c \notin r.todo
       /\ ~(r.pc \in {"change", "wait"} /\ r.on = c) =>
          \/ r.target[c] = status[c]
          \/ r.target[c] = DerivedComponentStatus(item, c)
Applied(r) ==
    /\ r.pc \in {"derive", "apply", "change", "wait"} => (r.op = "manual" <=> r.id = None)
    /\ r.pc \in {"apply", "change", "wait"} =>
         \A c \in Components :
             IF r.op = "manual" THEN r.new[c] # None => r.new[c].source = "manual"
             ELSE Looked(r, c)

\* A PATCH of a maintenance knows the status the row has, until it commits, and
\* after that whether it moved it.
Compares(r) ==
    r.op = "patch" /\ r.id \in Maints =>
        /\ r.pc \notin {"idle", "respond"} => r.prev = item[r.id].status
        /\ r.pc \in {"derive", "apply", "change", "wait"} => r.row.life = "live"
        /\ r.pc = "respond" =>
             item[r.id].life = "live" /\ (r.moved <=> r.prev # item[r.id].status)

Derived == \A c \in Components \ deleted :
    (\A p \in open[c] : p.source # "manual") => status[c] = DerivedComponentStatus(item, c)

InOrder(r) == Planned(r) /\ Applied(r) /\ Compares(r)
SerialInv == Derived /\ \A t \in Txs : InOrder(tx[t])

\* A row that says nothing of a component, before and after it is written,
\* makes no difference to what is derived for the component.
LEMMA UntouchedDerivesSame ==
    ASSUME NEW rows \in [Items -> Row], NEW i \in Items, NEW row \in Row, NEW c \in Components,
           rows[i].life = "live" => rows[i].report[c] = None,
           row.report[c] = None
    PROVE  DerivedComponentStatus([rows EXCEPT ![i] = row], c) = DerivedComponentStatus(rows, c)
<1> DEFINE new == [rows EXCEPT ![i] = row]
<1>1. \A j \in Items : new[j] = IF j = i THEN row ELSE rows[j]
  OBVIOUS
<1> HIDE DEF new
<1>2. ListActiveIncidentComponentStatuses(new, c) = ListActiveIncidentComponentStatuses(rows, c)
  BY <1>1 DEF ListActiveIncidentComponentStatuses, Items
<1>3. c \in ListActiveMaintenanceComponentIDs(new) <=> c \in ListActiveMaintenanceComponentIDs(rows)
  BY <1>1 DEF ListActiveMaintenanceComponentIDs, Items
<1>4. DerivedComponentStatus(new, c) = DerivedComponentStatus(rows, c)
  BY <1>2, <1>3 DEF DerivedComponentStatus
<1> QED BY <1>4 DEF new

LEMMA IdleInOrder == InOrder(Idle)
<1>1. Idle.pc = "idle"
  BY DEF Idle
<1> QED BY <1>1 DEF InOrder, Planned, Applied, Compares

\* The report of the row a transaction writes.
LEMMA WrittenRowReport ==
    ASSUME Inv, NEW t \in Txs, tx[t].pc = "write"
    PROVE  /\ Inserts(t) => WrittenRow(t) = tx[t].row
           /\ tx[t].op = "delete" => WrittenRow(t).report = item[tx[t].id].report
           /\ tx[t].op \notin {"create", "firing", "delete"} =>
                /\ WrittenRow(t).life = item[tx[t].id].life
                /\ WrittenRow(t).report = IF tx[t].replace THEN tx[t].row.report
                                          ELSE item[tx[t].id].report
<1> DEFINE i == tx[t].id
           copy == tx[t].row
           updated == IF i \in Incidents THEN UpdateIncident(item[i], copy)
                      ELSE UpdateMaintenance(item[i], copy)
<1>1. i \in Items /\ copy \in Row /\ item[i] \in Row /\ tx[t].replace \in BOOLEAN
  BY DEF Inv, Sound, Call, TypeOK
<1>2. Inserts(t) => WrittenRow(t) = copy
  BY DEF WrittenRow, Inserts
<1>3. tx[t].op = "delete" => WrittenRow(t) = SoftDelete(item[i])
  BY DEF WrittenRow, Inserts
<1>4. SoftDelete(item[i]).report = item[i].report
  BY <1>1 DEF SoftDelete, Row
<1>5. tx[t].op \notin {"create", "firing", "delete"} =>
        WrittenRow(t) = IF tx[t].replace THEN ReplaceComponents(updated, copy.report) ELSE updated
  BY DEF WrittenRow, Inserts
<1>6. updated \in Row /\ updated.report = item[i].report /\ updated.life = item[i].life
  BY <1>1 DEF UpdateIncident, UpdateMaintenance, Row
<1>7. /\ ReplaceComponents(updated, copy.report).report = copy.report
      /\ ReplaceComponents(updated, copy.report).life = updated.life
  <2> HIDE DEF updated
  <2> QED BY <1>6 DEF ReplaceComponents, Row
<1> HIDE DEF updated
<1> QED BY <1>2, <1>3, <1>4, <1>5, <1>6, <1>7

\* Every step but the commit keeps the request in order.
StaysInOrder(t) == \E q : InOrder(q) /\ tx' = [tx EXCEPT ![t] = q]

LEMMA ArrivalInOrder ==
    ASSUME Inv, NEW t \in Txs, Request(t)
    PROVE  StaysInOrder(t)
<1>1. PICK q : Arrived(q) /\ Start(t, q)
  BY RequestArrives DEF Inv
<1>2. Planned(q) /\ Compares(q)
  BY <1>1 DEF Arrived, Planned, Compares
<1>3. Applied(q)
  BY <1>1, IncidentConstants DEF Arrived, Applied, Nothing
<1> QED BY <1>1, <1>2, <1>3 DEF StaysInOrder, InOrder, Start

LEMMA WriteInOrder ==
    ASSUME Inv, SerialInv, NEW t \in Txs, Write(t)
    PROVE  StaysInOrder(t)
<1> DEFINE r == tx[t]
           i == r.id
           row == WrittenRow(t)
           todo == IF r.op \in {"update", "alert"} THEN Touched(row.report) ELSE r.todo
           q == [r EXCEPT !.pc = "derive", !.row = row, !.todo = todo]
<1>0. r \in Call /\ tx \in [Txs -> Call] /\ r.pc = "write" /\ i \in Items /\ Planned(r) /\ Compares(r)
  BY DEF Inv, Sound, TypeOK, Write, SerialInv, InOrder
<1>1. CASE End(t)
  BY <1>1, IdleInOrder DEF End, StaysInOrder
<1>2. CASE ~End(t)
  <2>1. tx' = [tx EXCEPT ![t] = q]
    BY <1>0, <1>2 DEF Write, Call
  <2>2. /\ Inserts(t) => item[i].life = "none"
        /\ r.op \in {"patch", "update", "alert"} => item[i].life = "live"
    BY <1>2 DEF Write, Loads, GetIncidentByID, GetMaintenanceByID
  <2>3. row \in Row /\ item[i] \in Row /\ item \in [Items -> Row]
    BY <1>0, WrittenRowIsSound DEF Inv, TypeOK
  <2>4. /\ Inserts(t) => row = r.row
        /\ r.op = "delete" => row.report = item[i].report
        /\ r.op \notin {"create", "firing", "delete"} =>
             /\ row.life = item[i].life
             /\ row.report = IF r.replace THEN r.row.report ELSE item[i].report
    BY <1>0, WrittenRowReport
  <2>5. ListComponents(i) = Touched(item[i].report)
    BY <1>0, IncidentConstants DEF ListComponents, ListIncidentComponents,
         ListMaintenanceComponents, Items
  <2> HIDE DEF row
  <2>6. \A c \in Components \ todo :
          /\ item[i].life = "live" => item[i].report[c] = None
          /\ row.report[c] = None
    <3>1. CASE r.op \in {"create", "firing"}
      BY <1>0, <2>2, <2>4, <3>1 DEF Planned, Inserts, Touched
    <3>2. CASE r.op \in {"update", "alert"}
      BY <1>0, <2>4, <3>2 DEF Planned, Touched
    <3>3. CASE r.op = "patch"
      BY <1>0, <2>4, <2>5, <3>3 DEF Planned, Touched
    <3>4. CASE r.op = "delete"
      BY <1>0, <2>4, <2>5, <3>4 DEF Planned, Touched
    <3> QED BY <1>0, <3>1, <3>2, <3>3, <3>4 DEF Planned
  <2>7. \A c \in Components \ todo :
          DerivedComponentStatus([item EXCEPT ![i] = row], c) = DerivedComponentStatus(item, c)
    BY <1>0, <2>3, <2>6, UntouchedDerivesSame
  <2>8. r.op \in {"create", "firing", "patch", "delete", "update", "alert"} /\ i # None
    BY <1>0, IncidentConstants DEF Planned
  <2> HIDE DEF todo
  <2>9. /\ q.pc = "derive" /\ q.row = row /\ q.todo = todo /\ q.id = i
        /\ q.op = r.op /\ q.new = r.new /\ q.prev = r.prev
    BY <1>0 DEF Call
  <2> HIDE DEF q
  <2>10. Planned(q)
    BY <1>0, <2>7, <2>9 DEF Planned, RowsOf
  <2>11. Applied(q)
    BY <2>8, <2>9 DEF Applied
  <2>12. Compares(q)
    BY <1>0, <2>2, <2>4, <2>9 DEF Compares
  <2> QED BY <2>1, <2>10, <2>11, <2>12 DEF StaysInOrder, InOrder
<1> QED BY <1>1, <1>2

LEMMA ChangeInOrder ==
    ASSUME Inv, SerialInv, NEW t \in Txs, tx[t].pc \in {"change", "wait"}, ChangeOrFail(t)
    PROVE  StaysInOrder(t)
<1> DEFINE r == tx[t]
           c == r.on
           s == r.target[c]
           closed == IF r.missed THEN {} ELSE open[c]
           p == [status |-> s, source |-> SourceOf(t, s)]
           q == [r EXCEPT !.pc = "apply", !.on = None, !.missed = FALSE,
                          !.kept = IF closed = open[c] THEN @ ELSE @ \cup {c},
                          !.new = [@ EXCEPT ![c] = p]]
<1>0. /\ r \in Call /\ tx \in [Txs -> Call] /\ c \in Components
      /\ Planned(r) /\ Applied(r) /\ Compares(r)
  BY DEF Inv, Sound, TypeOK, SerialInv, InOrder
<1>1. CASE c \in deleted \/ ~OpenPeriodFree(c, closed)
  BY <1>1, IdleInOrder DEF ChangeOrFail, End, StaysInOrder
<1>2. CASE ~(c \in deleted \/ ~OpenPeriodFree(c, closed))
  <2>1. tx' = [tx EXCEPT ![t] = q]
    BY <1>0, <1>2 DEF ChangeOrFail, Call
  <2>2. p.status = s /\ (r.op = "manual" => p.source = "manual") /\ p # None
    <3>1. p \in Period
      BY DEF Inv, Sound, Period, SourceOf, Sources
    <3>2. p.status = s /\ (r.op = "manual" => p.source = "manual")
      BY DEF SourceOf
    <3> HIDE DEF p
    <3> QED BY <3>1, <3>2, IncidentConstants
  <2> HIDE DEF p
  <2>3. /\ q.pc = "apply" /\ q.row = r.row /\ q.todo = r.todo /\ q.id = r.id
        /\ q.op = r.op /\ q.prev = r.prev /\ q.target = r.target
        /\ \A d \in Components : q.new[d] = IF d = c THEN p ELSE r.new[d]
    BY <1>0 DEF Call
  <2> HIDE DEF q
  <2>4. Planned(q) /\ Compares(q)
    BY <1>0, <2>3 DEF Planned, Compares
  <2>5. r.op # "manual" => \A d \in Components : Looked(q, d)
    <3> SUFFICES ASSUME r.op # "manual", NEW d \in Components PROVE Looked(q, d)
      OBVIOUS
    <3>1. Looked(r, d) /\ RowsOf(q) = RowsOf(r)
      BY <1>0, <2>3 DEF Applied, RowsOf
    <3>2. CASE d = c
      BY <2>2, <2>3, <3>1, <3>2 DEF Looked
    <3>3. CASE d # c
      BY <2>3, <3>1, <3>3 DEF Looked
    <3> QED BY <3>2, <3>3
  <2>6. Applied(q)
    BY <1>0, <2>2, <2>3, <2>5 DEF Applied
  <2> QED BY <2>1, <2>4, <2>6 DEF StaysInOrder, InOrder
<1> QED BY <1>1, <1>2

LEMMA StepInOrder ==
    ASSUME Inv, SerialInv, NEW t \in Txs,
           \/ Request(t) \/ Begin(t) \/ Write(t) \/ Derive(t) \/ Change(t) \/ Wake(t)
           \/ Respond(t) \/ Rollback(t) \/ \E c \in Components : Compare(t, c)
    PROVE  StaysInOrder(t)
<1> DEFINE r == tx[t]
<1>0. /\ r \in Call /\ tx \in [Txs -> Call]
      /\ Planned(r) /\ Applied(r) /\ Compares(r)
  BY DEF Inv, TypeOK, SerialInv, InOrder
<1>1. CASE Begin(t)
  <2> DEFINE todo == ListComponents(r.id) \cup
                       (IF r.replace THEN Touched(r.row.report) ELSE {})
             q == [r EXCEPT !.pc = "write", !.todo = todo]
  <2>1. tx' = [tx EXCEPT ![t] = q] \/ End(t)
    BY <1>0, <1>1 DEF Begin, Call
  <2> HIDE DEF todo
  <2>2. /\ q.pc = "write" /\ q.row = r.row /\ q.todo = todo /\ q.id = r.id
        /\ q.op = r.op /\ q.prev = r.prev /\ q.replace = r.replace /\ q.new = r.new
    BY <1>0 DEF Call
  <2> HIDE DEF q
  <2>3. r.pc = "begin"
    BY <1>1 DEF Begin
  <2>4. Planned(q)
    BY <1>0, <2>2, <2>3 DEF Planned, todo
  <2>5. Applied(q) /\ Compares(q)
    BY <1>0, <2>2, <2>3 DEF Applied, Compares
  <2> QED BY <2>1, <2>4, <2>5, IdleInOrder DEF InOrder, StaysInOrder, End
<1>2. CASE Derive(t)
  <2> DEFINE target == [c \in Components |-> DerivedComponentStatus(RowsOf(r), c)]
             q == [r EXCEPT !.pc = "apply", !.target = target]
  <2>1. tx' = [tx EXCEPT ![t] = q] /\ r.pc = "derive"
    BY <1>0, <1>2 DEF Derive, RowsOf, Call
  <2>2. \A c \in Components : target[c] = DerivedComponentStatus(RowsOf(r), c)
    OBVIOUS
  <2> HIDE DEF target
  <2>3. /\ q.pc = "apply" /\ q.row = r.row /\ q.todo = r.todo /\ q.id = r.id
        /\ q.op = r.op /\ q.prev = r.prev /\ q.target = target /\ q.new = r.new
    BY <1>0 DEF Call
  <2> HIDE DEF q
  <2>4. \A c \in Components : q.new[c] = None
    BY <1>0, <2>1, <2>3 DEF Planned, Nothing
  <2>5. \A c \in Components : Looked(q, c)
    BY <1>0, <2>1, <2>2, <2>3, <2>4 DEF Looked, Planned, RowsOf
  <2>6. Planned(q) /\ Compares(q)
    BY <1>0, <2>1, <2>3 DEF Planned, Compares
  <2>7. Applied(q)
    BY <1>0, <2>1, <2>3, <2>4, <2>5 DEF Applied
  <2> QED BY <2>1, <2>6, <2>7 DEF InOrder, StaysInOrder
<1>3. CASE Change(t)
  <2>1. CASE tx' = [tx EXCEPT ![t].pc = "wait"]
    <3> DEFINE q == [r EXCEPT !.pc = "wait"]
    <3>1. tx' = [tx EXCEPT ![t] = q] /\ r.pc = "change"
      BY <1>0, <1>3, <2>1 DEF Change, Call
    <3>2. /\ q.pc = "wait" /\ q.row = r.row /\ q.todo = r.todo /\ q.id = r.id /\ q.on = r.on
          /\ q.op = r.op /\ q.prev = r.prev /\ q.target = r.target /\ q.new = r.new
      BY <1>0 DEF Call
    <3> HIDE DEF q
    <3>3. Planned(q) /\ Compares(q)
      BY <1>0, <3>1, <3>2 DEF Planned, Compares
    <3>4. Applied(q)
      BY <1>0, <3>1, <3>2 DEF Applied, Looked, RowsOf
    <3> QED BY <3>1, <3>3, <3>4 DEF InOrder, StaysInOrder
  <2> QED BY <1>3, <2>1, ChangeInOrder DEF Change
<1>4. ASSUME NEW c \in Components, Compare(t, c)
      PROVE  StaysInOrder(t)
  <2> DEFINE skip == [r EXCEPT !.todo = @ \ {c}]
             go == [r EXCEPT !.todo = @ \ {c}, !.pc = "change", !.on = c]
  <2>0. r.pc = "apply"
    BY <1>4 DEF Compare
  <2>1. \/ tx' = [tx EXCEPT ![t] = skip] /\ (c \in deleted \/ status[c] = r.target[c])
        \/ tx' = [tx EXCEPT ![t] = go]
    BY <1>0, <1>4 DEF Compare, Call
  <2>2. /\ skip.pc = "apply" /\ skip.row = r.row /\ skip.todo = r.todo \ {c} /\ skip.id = r.id
        /\ skip.op = r.op /\ skip.prev = r.prev /\ skip.target = r.target /\ skip.new = r.new
    BY <1>0, <2>0 DEF Call
  <2>3. /\ go.pc = "change" /\ go.row = r.row /\ go.todo = r.todo \ {c} /\ go.id = r.id
        /\ go.op = r.op /\ go.prev = r.prev /\ go.target = r.target /\ go.new = r.new
        /\ go.on = c
    BY <1>0, <2>0 DEF Call
  <2> HIDE DEF skip, go
  <2>4. Planned(skip) /\ Compares(skip) /\ Planned(go) /\ Compares(go)
    BY <1>0, <2>0, <2>2, <2>3 DEF Planned, Compares
  <2>5. RowsOf(skip) = RowsOf(r) /\ RowsOf(go) = RowsOf(r)
    BY <2>2, <2>3 DEF RowsOf
  <2>6. Applied(go)
    BY <1>0, <2>0, <2>3, <2>5 DEF Applied, Looked
  <2>7. (c \in deleted \/ status[c] = r.target[c]) => Applied(skip)
    BY <1>0, <2>0, <2>2, <2>5 DEF Applied, Looked
  <2> QED BY <2>1, <2>4, <2>6, <2>7 DEF InOrder, StaysInOrder
<1>5. CASE Wake(t)
  BY <1>5, ChangeInOrder DEF Wake
<1>6. CASE Respond(t) \/ Rollback(t)
  BY <1>6, IdleInOrder DEF Respond, Rollback, End, StaysInOrder
<1> QED BY <1>1, <1>2, <1>3, <1>4, <1>5, <1>6, ArrivalInOrder, WriteInOrder

\* The only request commits: every component without a manual period has just
\* been looked at, or derives to what it did.
LEMMA CommitInOrder ==
    ASSUME Serial, Inv, SerialInv, NEW t \in Txs, Commit(t)
    PROVE  SerialInv'
<1> DEFINE r == tx[t]
           i == r.id
<1>0. /\ r \in Call /\ tx \in [Txs -> Call] /\ r.pc = "apply" /\ r.todo = {} /\ r.kept = {}
      /\ Applied(r) /\ Compares(r) /\ Derived
  BY DEF Inv, Sound, TypeOK, SerialInv, InOrder, Commit
<1>1. /\ item' = IF i = None THEN item ELSE [item EXCEPT ![i] = r.row]
      /\ deleted' = deleted
      /\ \A c \in Components : r.new[c] = None => status'[c] = status[c] /\ open'[c] = open[c]
      /\ \A c \in Components : r.new[c] # None =>
            status'[c] = r.new[c].status /\ open'[c] = {r.new[c]}
  BY <1>0 DEF Commit
<1>2. Derived'
  <2> SUFFICES ASSUME NEW c \in Components, c \notin deleted,
                      \A p \in open'[c] : p.source # "manual"
               PROVE  status'[c] = DerivedComponentStatus(item', c)
    BY <1>1 DEF Derived
  <2>1. CASE i = None
    <3>1. r.op = "manual" /\ item' = item
      BY <1>0, <1>1, <2>1 DEF Applied
    <3>2. r.new[c] = None
      BY <1>0, <1>1, <3>1 DEF Applied
    <3> QED BY <1>0, <1>1, <3>1, <3>2 DEF Derived
  <2>2. CASE i # None
    <3>1. r.op # "manual" /\ item' = RowsOf(r)
      BY <1>0, <1>1, <2>2 DEF Applied, RowsOf
    <3>2. Looked(r, c)
      BY <1>0, <3>1 DEF Applied
    <3>3. CASE r.new[c] = None
      BY <1>0, <1>1, <3>1, <3>2, <3>3 DEF Derived, Looked
    <3>4. CASE r.new[c] # None
      BY <1>1, <3>1, <3>2, <3>4 DEF Looked
    <3> QED BY <3>3, <3>4
  <2> QED BY <2>1, <2>2
<1>3. ASSUME NEW u \in Txs
      PROVE  InOrder(tx[u])'
  <2>1. u = t
    BY DEF Serial
  <2>2. /\ tx'[t].pc = "respond" /\ tx'[t].op = r.op /\ tx'[t].id = i /\ tx'[t].prev = r.prev
        /\ tx'[t].moved = (i # None /\ item[i].status # item'[i].status)
    BY <1>1 DEF Commit, Idle
  <2>3. Planned(tx[t])' /\ Applied(tx[t])'
    BY <2>2 DEF Planned, Applied
  <2>4. ASSUME r.op = "patch", i \in Maints
        PROVE  item'[i] = r.row /\ r.row.life = "live" /\ r.prev = item[i].status /\ i # None
    BY <1>0, <1>1, <2>4, IncidentConstants DEF Compares, Inv, TypeOK, Items
  <2>5. Compares(tx[t])'
    BY <2>2, <2>4 DEF Compares
  <2> QED BY <2>1, <2>3, <2>5 DEF InOrder
<1> QED BY <1>2, <1>3 DEF SerialInv

\* A request stays in order when the tables do not change; a component may be
\* deleted meanwhile.
LEMMA SameInOrder ==
    ASSUME NEW t \in Txs, InOrder(tx'[t]), item' = item, status' = status,
           deleted \subseteq deleted'
    PROVE  InOrder(tx[t])'
<1>1. Planned(tx[t])'
  BY DEF InOrder, Planned, RowsOf, ListComponents, ListIncidentComponents,
         ListMaintenanceComponents
<1>2. Applied(tx[t])'
  BY DEF InOrder, Applied, Looked, RowsOf
<1>3. Compares(tx[t])'
  BY DEF InOrder, Compares
<1> QED BY <1>1, <1>2, <1>3 DEF InOrder

LEMMA SerialStep == ASSUME Serial PROVE Inv /\ SerialInv /\ [Next]_vars => SerialInv'
<1> SUFFICES ASSUME Inv, SerialInv, [Next]_vars PROVE SerialInv'
  OBVIOUS
<1>1. ASSUME NEW t \in Txs, Request(t) \/ Transaction(t) \/ Rollback(t), ~Commit(t)
      PROVE  SerialInv'
  <2>1. UNCHANGED dbVars /\ StaysInOrder(t)
    BY <1>1, StepIsSound, StepInOrder DEF Transaction
  <2>2. PICK q : InOrder(q) /\ tx' = [tx EXCEPT ![t] = q]
    BY <2>1 DEF StaysInOrder
  <2>3. \A u \in Txs : InOrder(tx'[u])
    BY <2>2 DEF SerialInv, Inv, TypeOK
  <2>4. \A u \in Txs : InOrder(tx[u])'
    BY <2>1, <2>3, SameInOrder DEF dbVars
  <2>5. Derived'
    BY <2>1 DEF SerialInv, Derived, dbVars
  <2> QED BY <2>4, <2>5 DEF SerialInv
<1>2. ASSUME NEW t \in Txs, Commit(t)
      PROVE  SerialInv'
  BY <1>2, CommitInOrder
<1>3. ASSUME item' = item, status' = status, open' = open, tx' = tx, deleted \subseteq deleted'
      PROVE  SerialInv'
  <2>1. \A u \in Txs : InOrder(tx[u])'
    BY <1>3, SameInOrder DEF SerialInv
  <2>2. Derived'
    BY <1>3 DEF SerialInv, Derived
  <2> QED BY <2>1, <2>2 DEF SerialInv
<1> QED BY <1>1, <1>2, <1>3 DEF Next, SoftDeleteComponent, vars

LEMMA AlwaysSerialInv == ASSUME Serial PROVE Spec => []SerialInv
<1>1. Init => SerialInv
  <2> SUFFICES ASSUME Init PROVE SerialInv
    OBVIOUS
  <2>1. \A t \in Txs : InOrder(tx[t])
    BY IdleInOrder DEF Init
  <2>2. ASSUME NEW c \in Components
        PROVE  DerivedComponentStatus(item, c) = "operational"
    <3>1. \A i \in Items : item[i].life = "none"
      <4>1. NoIncident.life = "none" /\ NoMaint.life = "none"
        BY DEF NoIncident, NoMaint
      <4> QED BY <4>1 DEF Init
    <3>2. ListActiveIncidentComponentStatuses(item, c) = {}
      BY <3>1 DEF ListActiveIncidentComponentStatuses, Items
    <3>3. c \notin ListActiveMaintenanceComponentIDs(item)
      BY <3>1 DEF ListActiveMaintenanceComponentIDs, Items
    <3>4. WorstStatus({}) = "operational"
      BY DEF WorstStatus
    <3> QED BY <3>2, <3>3, <3>4 DEF DerivedComponentStatus
  <2> QED BY <2>1, <2>2 DEF SerialInv, Derived, Init
<1>2. Inv /\ SerialInv /\ [Next]_vars => SerialInv'
  BY SerialStep
<1> QED BY <1>1, <1>2, AlwaysInv, PTL DEF Spec

\* recomputeComponentStatusesTx, for requests served one after the other: a
\* component nobody has set by hand shows the worst status among the active
\* incidents and maintenances, after any sequence of creations, patches,
\* updates, alerts, deletions, manual changes and rollbacks.
THEOREM SerialStatusIsDerived == ASSUME Serial PROVE Spec => []StatusIsDerived
<1>1. SerialInv => StatusIsDerived
  BY DEF SerialInv, Derived, StatusIsDerived
<1> QED BY <1>1, AlwaysSerialInv, PTL

\* handlePatchMaintenance, for requests served one after the other: a start or
\* an end of the works is announced exactly when the request moved the status.
THEOREM SerialAnnouncements == ASSUME Serial PROVE Spec => []AnnouncedOnTransition
<1>1. Inv /\ SerialInv => AnnouncedOnTransition
  <2> SUFFICES ASSUME Inv, SerialInv, NEW t \in Txs, tx[t].pc = "respond",
                      tx[t].op = "patch", tx[t].id \in Maints
               PROVE  Announces(t) <=>
                        tx[t].moved /\ item[tx[t].id].status \in {"in_progress", "completed"}
    BY DEF AnnouncedOnTransition
  <2>1. /\ item[tx[t].id].life = "live" /\ tx[t].moved \in BOOLEAN
        /\ tx[t].moved <=> tx[t].prev # item[tx[t].id].status
    BY DEF SerialInv, InOrder, Compares, Inv, TypeOK, Call
  <2> QED BY <2>1 DEF Announces, GetMaintenanceByID, maintenanceTransitionEvent
<1> QED BY <1>1, AlwaysInv, AlwaysSerialInv, PTL
=============================================================================
