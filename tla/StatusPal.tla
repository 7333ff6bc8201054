------------------------------ MODULE StatusPal ------------------------------
(***************************************************************************)
(* The StatusPal adapter (internal/importer/statuspal.go): what the engine *)
(* is handed for a source page whose every request succeeds.  A request    *)
(* that fails makes the whole Fetch fail; the engine's module decides that.*)
(*                                                                         *)
(* A source is a record                                                    *)
(*   roots         ids answered by GET /services                           *)
(*   service       id -> [parent, children, incident]                      *)
(*   incidents     type -> pages, each a sequence of                       *)
(*                 [id, type, start, end, services, updates]               *)
(*   subscriptions pages, each a sequence of [id, channel, email]          *)
(* with 0 for an absent parent or end.                                     *)
(***************************************************************************)
EXTENDS Integers, Sequences, FiniteSets, SequencesExt

-----------------------------------------------------------------------------
(* What the engine is handed, and the mappings to the status enums of this *)
(* program.                                                                *)

ComponentStatuses == {"operational", "degraded_performance", "under_maintenance",
                      "partial_outage", "major_outage"}
IncidentStatuses == {"investigating", "identified", "monitoring", "resolved"}
MaintenanceStatuses == {"scheduled", "in_progress", "completed"}

ImportedComponent == [ext: Nat, parent: Nat, status: ComponentStatuses]
ImportedIncident ==
    [ext: Nat, impact: {"major", "minor"}, status: IncidentStatuses,
     updates: Seq(IncidentStatuses), components: SUBSET Nat]
ImportedMaintenance == [ext: Nat, status: MaintenanceStatuses, components: SUBSET Nat]
ImportedSubscriber == [ext: Nat, email: STRING]

spServiceStatus(incident) ==
    CASE incident = "major" -> "major_outage"
      [] incident = "minor" -> "partial_outage"
      [] incident = "scheduled" -> "under_maintenance"
      [] incident = "degraded" -> "degraded_performance"
      [] OTHER -> "operational"

spIncidentImpact(type) == IF type = "major" THEN "major" ELSE "minor"

spIncidentStatus(update) ==
    CASE update = "resolved" -> "resolved"
      [] update = "issue" -> "investigating"
      [] update = "deescalate" -> "monitoring"
      [] OTHER -> "identified"

spMaintenanceStatus(start, end, now) ==
    CASE end # 0 /\ now > end -> "completed"
      [] ~(end # 0 /\ now > end) /\ now > start -> "in_progress"
      [] OTHER -> "scheduled"

-----------------------------------------------------------------------------
(* The tree of services: the roots, then GET /services/{id} for every id   *)
(* of a queue that starts with the roots' children.                        *)

Childs(src, ids) == FlattenSeq([i \in 1..Len(ids) |-> src.service[ids[i]].children])

Visit(src, walk) ==
    CASE walk.queue = <<>> -> walk
      [] walk.queue # <<>> /\ Head(walk.queue) \in walk.all ->
           [walk EXCEPT !.queue = Tail(@)]
      [] OTHER ->
           LET id == Head(walk.queue)
           IN [all |-> walk.all \cup {id},
               queue |-> Tail(walk.queue) \o src.service[id].children]

\* Every id enters the queue once per parent that lists it.
ListedChildren(src) == Len(Childs(src, SetToSeq(DOMAIN src.service)))

Services(src) ==
    LET walk[n \in 0..ListedChildren(src)] ==
          IF n = 0 THEN [all |-> ToSet(src.roots), queue |-> Childs(src, src.roots)]
          ELSE Visit(src, walk[n - 1])
    IN walk[ListedChildren(src)].all

FetchComponents(src) ==
    LET ids == SetToSortSeq(Services(src), <)
    IN [i \in 1..Len(ids) |->
          [ext |-> ids[i], parent |-> src.service[ids[i]].parent,
           status |-> spServiceStatus(src.service[ids[i]].incident)]]

-----------------------------------------------------------------------------
(* Incidents, planned work and subscribers come in pages; links.next leads *)
(* from one to the next and the last has none.                             *)

fetchIncidentsPaged(src, type) == FlattenSeq(src.incidents[type])

FetchIncidents(src) ==
    LET raw == fetchIncidentsPaged(src, "major") \o fetchIncidentsPaged(src, "minor")
    IN [i \in 1..Len(raw) |->
          LET in == raw[i]
              updates == [u \in 1..Len(in.updates) |-> spIncidentStatus(in.updates[u])]
          IN [ext |-> in.id, impact |-> spIncidentImpact(in.type),
              status |-> CASE in.end # 0 -> "resolved"
                           [] in.end = 0 /\ updates # <<>> -> Last(updates)
                           [] OTHER -> "investigating",
              updates |-> updates, components |-> in.services]]

FetchMaintenances(src, now) ==
    LET raw == fetchIncidentsPaged(src, "scheduled")
    IN [i \in 1..Len(raw) |->
          [ext |-> raw[i].id,
           status |-> spMaintenanceStatus(raw[i].start, raw[i].end, now),
           components |-> raw[i].services]]

FetchSubscribers(src) ==
    LET all == FlattenSeq(src.subscriptions)
        emails == SelectSeq(all, LAMBDA s : s.channel = "email" /\ s.email # "")
    IN [i \in 1..Len(emails) |-> [ext |-> emails[i].id, email |-> emails[i].email]]
==============================================================================
