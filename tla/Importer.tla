------------------------------- MODULE Importer -------------------------------
(***************************************************************************)
(* Migration from another status page: the API that opens an import job    *)
(* (internal/api/import.go), q.import, the loops of worker-import and the  *)
(* engine that copies a source page row by row (internal/importer).        *)
(*                                                                         *)
(* Every store call is a step of its own: worker-import is one process per *)
(* replica, a replica may die at any step, and external_id_map is the only *)
(* memory a later run has of what an earlier one did.  A job is identified *)
(* with its message; the message is redelivered until it is acknowledged.  *)
(***************************************************************************)
EXTENDS StatusPal

CONSTANTS
    Jobs,           \* import jobs, numbered in the order they are requested
    Workers,        \* replicas of worker-import, one job at a time each
    Sources,        \* source pages, as StatusPal describes them
    Now,            \* time of the import, for the state of planned work
    Modes,          \* Jobs -> modes requested, of "skip" and "update"
    SlugAttempts,   \* slugs tried for a new page; pages are named by them
    Taken,          \* slugs that belong to other accounts
    MaxFaults       \* crashes, expired deadlines and failed calls

Kinds == <<"component", "incident", "maintenance", "subscriber">>
Feeds == [s \in Sources |->
    <<FetchComponents(s), FetchIncidents(s), FetchMaintenances(s, Now), FetchSubscribers(s)>>]
EntitiesOf == [s \in Sources |-> [k \in 1..4 |->
    {<<Kinds[k], Feeds[s][k][i].ext>> : i \in 1..Len(Feeds[s][k])}]]
AllEntities == UNION {UNION {EntitiesOf[s][k] : k \in 1..4} : s \in Sources}
Slugs == 0..(SlugAttempts - 1)

ASSUME ImporterConstants ==
    /\ Jobs \subseteq Nat
    /\ SlugAttempts \in Nat \ {0} /\ Taken \subseteq Slugs
    /\ Modes \in [Jobs -> SUBSET {"skip", "update"}]
    /\ MaxFaults \in Nat

\* What an adapter hands over (Imported*), each entity of a kind once.
ASSUME FeedsAreTyped ==
    \A s \in Sources :
        /\ Feeds[s][1] \in Seq(ImportedComponent)
        /\ Feeds[s][2] \in Seq(ImportedIncident)
        /\ Feeds[s][3] \in Seq(ImportedMaintenance)
        /\ Feeds[s][4] \in Seq(ImportedSubscriber)
        /\ \A k \in 1..4 : \A i, n \in 1..Len(Feeds[s][k]) :
             Feeds[s][k][i].ext = Feeds[s][k][n].ext => i = n

VARIABLES
    source,     \* the page imported from
    owned,      \* slugs of the account's own pages
    job,        \* Jobs -> row of import_jobs
    api,        \* Jobs -> where the request that opened the job is
    queue,      \* jobs whose message is ready in q.import
    worker,     \* Workers -> the run in progress
    rows,       \* page -> entity of the source -> rows created for it
    map,        \* page -> entity -> number of the row external_id_map names, or 0
    faults,     \* faults so far
    swallowed,  \* history: jobs whose row could not be saved, which was only logged
    unsaid,     \* history: Jobs -> what failed in the run that settled the job
                \* without a word in its report
    raced       \* history: pages with overlapping runs or a run in mode "update"

Feed == Feeds[source]
Of(k) == EntitiesOf[source][k]
Entities == Of(1) \cup Of(2) \cup Of(3) \cup Of(4)

vars == <<source, owned, job, api, queue, worker, rows, map, faults, swallowed, unsaid,
          raced>>
dbVars == <<rows, map>>
restVars == <<owned, api, unsaid, raced>>

NoJob == [status |-> "none", mode |-> "skip", page |-> 0,
          errors |-> FALSE]

\* What a run passes over in silence: subscribers whose insert failed, which
\* are counted as skipped, and components whose parent could not be set.
NothingUnsaid == [skipped |-> {}, loose |-> {}]

\* One call of processImport.  comp is compMap, row the row last created,
\* update the update replayed next, failed whether Run returned an error,
\* unsaid the history of the run's silent failures.
NoRun == [pc |-> "idle", job |-> NoJob, id |-> 0, kind |-> 1, pos |-> 1, row |-> 0,
          update |-> 0, comp |-> [e \in Of(1) |-> 0], pending |-> {},
          errors |-> FALSE, unsaid |-> NothingUnsaid, failed |-> FALSE, expired |-> FALSE]

Settled == {"completed", "failed"}

JobType == [status: {"none", "pending", "running"} \cup Settled, mode: {"skip", "update"},
            page: Slugs, errors: BOOLEAN]
UnsaidType == [skipped: SUBSET Of(4), loose: SUBSET Of(1)]
RunType == [pc: {"idle", "fetch", "lookup", "create", "replay", "map", "parents", "finish", "ack"},
            job: JobType, id: Jobs \cup {0}, kind: 1..4, pos: Nat, row: Nat, update: Nat,
            comp: [Of(1) -> Nat], pending: SUBSET Of(1),
            errors: BOOLEAN, unsaid: UnsaidType, failed: BOOLEAN, expired: BOOLEAN]
RowType == [status: ComponentStatuses \cup IncidentStatuses \cup MaintenanceStatuses
                       \cup {"unconfirmed"},
            parent: Nat, links: SUBSET (Of(1) \X Nat), imposes: ComponentStatuses]

\* The type of the state.
TypeOK ==
    /\ source \in Sources
    /\ owned \subseteq Slugs \ Taken
    /\ job \in [Jobs -> JobType]
    /\ api \in [Jobs -> {"none", "publishing", "failing", "done"}]
    /\ queue \subseteq Jobs
    /\ worker \in [Workers -> RunType]
    /\ rows \in [Slugs -> [Entities -> Seq(RowType)]]
    /\ map \in [Slugs -> [Entities -> Nat]]
    /\ \A p \in Slugs, e \in Entities : map[p][e] <= Len(rows[p][e])
    /\ faults \in 0..MaxFaults
    /\ swallowed \subseteq Jobs
    /\ unsaid \in [Jobs -> UnsaidType]
    /\ raced \subseteq owned

Init ==
    /\ source \in Sources
    /\ owned = {}
    /\ job = [j \in Jobs |-> NoJob]
    /\ api = [j \in Jobs |-> "none"]
    /\ queue = {}
    /\ worker = [w \in Workers |-> NoRun]
    /\ rows = [p \in Slugs |-> [e \in Entities |-> <<>>]]
    /\ map = [p \in Slugs |-> [e \in Entities |-> 0]]
    /\ faults = 0 /\ swallowed = {} /\ raced = {}
    /\ unsaid = [j \in Jobs |-> NothingUnsaid]

Strike == faults < MaxFaults /\ faults' = faults + 1

-----------------------------------------------------------------------------
(* The queries on import_jobs and external_id_map.                         *)

CreateImportJob(j, m, p) ==
    job' = [job EXCEPT ![j] = [NoJob EXCEPT !.status = "pending", !.mode = m, !.page = p]]
UpdateImportJob(j, status, report) ==
    job' = [job EXCEPT ![j].status = status, ![j].errors = report.errors]
GetExternalMapping(p, e) == map[p][e]
UpsertExternalMapping(p, e, n) == map' = [map EXCEPT ![p][e] = n]

-----------------------------------------------------------------------------
(* POST /import.                                                           *)

\* The page named in the request, or a new one under the first of the slugs
\* base, base-2, ..., base-5 that is free.  With none free the answer is 409.
resolveImportTargetPage(p) ==
    \/ p \in owned /\ UNCHANGED owned
    \/ /\ p \in Slugs \ (owned \cup Taken)
       /\ \A q \in 0..(p - 1) : q \in owned \cup Taken
       /\ owned' = owned \cup {p}

NextJob(j) == api[j] = "none" /\ \A i \in Jobs : i < j => api[i] # "none"

handleStartImport(j, m, p) ==
    /\ NextJob(j)
    /\ resolveImportTargetPage(p)
    /\ CreateImportJob(j, m, p)
    /\ api' = [api EXCEPT ![j] = "publishing"]
    /\ UNCHANGED <<queue, worker, dbVars, faults, swallowed, unsaid, raced>>

\* CreateImportJob fails: the page it was to fill stays.
handleStartImportFails(j, p) ==
    /\ NextJob(j)
    /\ Strike
    /\ resolveImportTargetPage(p)
    /\ api' = [api EXCEPT ![j] = "done"]
    /\ UNCHANGED <<job, queue, worker, dbVars, swallowed, unsaid, raced>>

PublishImport(j) ==
    /\ api[j] = "publishing"
    /\ queue' = queue \cup {j}
    /\ api' = [api EXCEPT ![j] = "done"]
    /\ UNCHANGED <<owned, job, worker, dbVars, faults, swallowed, unsaid, raced>>

\* A publish that reports an error may have reached the broker all the same.
PublishImportFails(j) ==
    /\ api[j] = "publishing"
    /\ Strike
    /\ queue' \in {queue, queue \cup {j}}
    /\ api' = [api EXCEPT ![j] = "failing"]
    /\ UNCHANGED <<owned, job, worker, dbVars, swallowed, unsaid, raced>>

\* The job is marked failed with the report it was created with, whatever a
\* worker has written since.  An error here is dropped.
MarkUnqueued(j) ==
    /\ api[j] = "failing"
    /\ api' = [api EXCEPT ![j] = "done"]
    /\ \/ /\ UpdateImportJob(j, "failed", NoJob)
          /\ UNCHANGED <<faults, swallowed>>
       \/ /\ Strike
          /\ swallowed' = swallowed \cup {j}
          /\ UNCHANGED job
    /\ UNCHANGED <<owned, queue, worker, dbVars, unsaid, raced>>

\* The API process dies with the request half done.
ApiDies(j) ==
    /\ api[j] \in {"publishing", "failing"}
    /\ Strike
    /\ api' = [api EXCEPT ![j] = "done"]
    /\ swallowed' = swallowed \cup {j}
    /\ UNCHANGED <<owned, job, queue, worker, dbVars, unsaid, raced>>

-----------------------------------------------------------------------------
(* processImport: one message, from its delivery to its acknowledgement.   *)

Page(w) == worker[w].job.page
Busy(w, p) == worker[w].pc # "idle" /\ Page(w) = p

\* The run starts from the row as it was read, whatever its status: a job
\* that was already settled is run again.
processImport(w, j) ==
    /\ worker[w].pc = "idle" /\ j \in queue
    /\ queue' = queue \ {j}
    /\ UpdateImportJob(j, "running", job[j])
    /\ worker' = [worker EXCEPT ![w] = [NoRun EXCEPT !.pc = "fetch", !.job = job[j], !.id = j]]
    /\ raced' = raced \cup {p \in {job[j].page} :
                   job[j].mode = "update" \/ \E v \in Workers : Busy(v, p)}
    /\ UNCHANGED <<owned, api, dbVars, faults, swallowed, unsaid>>

\* Mutant: a job that cannot be marked running is acknowledged.
MarkRunningFailsAcks(w, j) ==
    /\ worker[w].pc = "idle" /\ j \in queue
    /\ Strike
    /\ queue' = queue \ {j}
    /\ UNCHANGED <<job, worker, restVars, dbVars, swallowed>>
\* The job cannot be marked running: the message goes back to the queue.
MarkRunningFails(w, j) ==
    /\ worker[w].pc = "idle" /\ j \in queue
    /\ Strike
    /\ UNCHANGED <<job, queue, worker, restVars, dbVars, swallowed>>

\* The job cannot be read, for whatever reason: the message is dropped.
LoadJobFails(w, j) ==
    /\ worker[w].pc = "idle" /\ j \in queue
    /\ Strike
    /\ queue' = queue \ {j}
    /\ swallowed' = swallowed \cup {j}
    /\ UNCHANGED <<job, worker, restVars, dbVars>>

\* The outcome of Run is saved, then the message is acknowledged.
finalize(w) ==
    /\ worker[w].pc = "finish" /\ ~worker[w].expired
    /\ UpdateImportJob(worker[w].id, IF worker[w].failed THEN "failed" ELSE "completed", worker[w])
    /\ unsaid' = [unsaid EXCEPT ![worker[w].id] = worker[w].unsaid]
    /\ worker' = [worker EXCEPT ![w].pc = "ack"]
    /\ UNCHANGED <<owned, api, raced, queue, dbVars, faults, swallowed>>

\* The deadline that ended the run has also expired for this call.
finalizeFails(w) ==
    /\ worker[w].pc = "finish"
    /\ IF worker[w].expired THEN UNCHANGED faults ELSE Strike
    /\ swallowed' = swallowed \cup {worker[w].id}
    /\ worker' = [worker EXCEPT ![w].pc = "ack"]
    /\ UNCHANGED <<job, queue, restVars, dbVars>>

Ack(w) ==
    /\ worker[w].pc = "ack"
    /\ worker' = [worker EXCEPT ![w] = NoRun]
    /\ UNCHANGED <<job, queue, restVars, dbVars, faults, swallowed>>

\* The replica dies; the broker redelivers what it had not acknowledged.
Crash(w) ==
    /\ worker[w].pc # "idle"
    /\ Strike
    /\ queue' = queue \cup {worker[w].id}
    /\ worker' = [worker EXCEPT ![w] = NoRun]
    /\ UNCHANGED <<job, restVars, dbVars, swallowed>>

\* The 15 minutes of the context are over: every later call fails.
Expire(w) ==
    /\ worker[w].pc \notin {"idle", "ack"} /\ ~worker[w].expired
    /\ Strike
    /\ worker' = [worker EXCEPT ![w].expired = TRUE]
    /\ UNCHANGED <<job, queue, restVars, dbVars, swallowed>>

-----------------------------------------------------------------------------
(* Engine.Run.                                                             *)

Item(w) == Feed[worker[w].kind][worker[w].pos]
Entity(w) == <<Kinds[worker[w].kind], Item(w).ext>>

\* Where a run goes from here.
EndOfKind(run) ==
    CASE run.kind = 1 /\ run.pc # "parents" /\ Feed[1] # <<>> ->
           [run EXCEPT !.pc = "parents", !.pos = 1]
      [] run.kind = 4 -> [run EXCEPT !.pc = "finish"]
      [] OTHER -> [run EXCEPT !.pc = "fetch", !.kind = @ + 1]
Advance(run) ==
    IF run.pos < Len(Feed[run.kind])
    THEN [run EXCEPT !.pc = IF @ = "parents" THEN @ ELSE "lookup", !.pos = @ + 1, !.row = 0]
    ELSE EndOfKind([run EXCEPT !.row = 0])
Return(run) == [run EXCEPT !.pc = "finish", !.failed = TRUE]
Report(run) == [run EXCEPT !.errors = TRUE]

\* A call of the run that works, and one that fails.
Works(w, pc) == worker[w].pc = pc /\ ~worker[w].expired
Fails(w, pc) ==
    /\ worker[w].pc = pc
    /\ IF worker[w].expired THEN UNCHANGED faults ELSE Strike
Go(w, run) ==
    /\ worker' = [worker EXCEPT ![w] = run]
    /\ UNCHANGED <<job, queue, restVars, swallowed>>

Fetch(w) ==
    /\ Works(w, "fetch")
    /\ Go(w, IF Feed[worker[w].kind] = <<>> THEN EndOfKind(worker[w])
             ELSE [worker[w] EXCEPT !.pc = "lookup", !.pos = 1])
    /\ UNCHANGED <<dbVars, faults>>

\* Without components there is no import; without the rest there is.
FetchFails(w) ==
    /\ Fails(w, "fetch")
    /\ Go(w, IF worker[w].kind = 1 THEN Return(worker[w]) ELSE EndOfKind(Report(worker[w])))
    /\ UNCHANGED dbVars

\* Mutant: what was already carried over is left out of the second pass.
LookupForgetsPending(w) ==
    /\ Works(w, "lookup")
    /\ LET m == GetExternalMapping(Page(w), Entity(w))
           known == IF worker[w].kind = 1 THEN [worker[w] EXCEPT !.comp[Entity(w)] = m] ELSE worker[w]
       IN Go(w, IF m = 0 \/ (worker[w].kind = 1 /\ worker[w].job.mode = "update")
                THEN [known EXCEPT !.pc = "create"] ELSE Advance(known))
    /\ UNCHANGED <<dbVars, faults>>
\* Mutant: only components are looked up in external_id_map.
LookupComponentsOnly(w) ==
    /\ Works(w, "lookup")
    /\ LET m == GetExternalMapping(Page(w), Entity(w))
       IN Go(w, IF m = 0 \/ worker[w].kind # 1 THEN [worker[w] EXCEPT !.pc = "create"]
                ELSE Advance([worker[w] EXCEPT !.comp[Entity(w)] = m,
                                               !.pending = @ \cup {Entity(w)}]))
    /\ UNCHANGED <<dbVars, faults>>
\* A known component still counts for the links of others, and in mode
\* "update" it is created anew.  Everything else that is known is skipped.
ExternalMapping(w) ==
    /\ Works(w, "lookup")
    /\ LET m == GetExternalMapping(Page(w), Entity(w))
           known == IF worker[w].kind = 1 /\ m # 0
                    THEN [worker[w] EXCEPT !.comp[Entity(w)] = m,
                                           !.pending = @ \cup {Entity(w)}]
                    ELSE worker[w]
       IN Go(w, IF m = 0 \/ (worker[w].kind = 1 /\ worker[w].job.mode = "update")
                THEN [known EXCEPT !.pc = "create", !.pending = worker[w].pending]
                ELSE Advance(known))
    /\ UNCHANGED <<dbVars, faults>>

ExternalMappingFails(w) ==
    /\ Fails(w, "lookup")
    /\ Go(w, Return(worker[w]))
    /\ UNCHANGED dbVars

-----------------------------------------------------------------------------
(* Rows.  A row of a component knows its parent, a row of an incident or a *)
(* maintenance the components it touches and the status it gives them.     *)

componentStatusForImpact(impact) ==
    CASE impact \in {"critical", "major"} -> "major_outage"
      [] impact = "minor" -> "partial_outage"
      [] OTHER -> "degraded_performance"

Row(status, links, imposes) ==
    [status |-> status, parent |-> 0, links |-> links, imposes |-> imposes]

Severity == [operational |-> 0, degraded_performance |-> 1, under_maintenance |-> 2,
             partial_outage |-> 3, major_outage |-> 4]

\* recomputeComponentStatusesTx, for the components in links.
Active(e, r) ==
    \/ e[1] = "incident" /\ r.status # "resolved"
    \/ e[1] = "maintenance" /\ r.status = "in_progress"
Imposed(table, c) ==
    UNION {{table[e][n].imposes : n \in {m \in DOMAIN table[e] :
               Active(e, table[e][m]) /\ c \in table[e][m].links}} : e \in Of(2) \cup Of(3)}
Worst(S) ==
    CHOOSE s \in S \cup {"operational"} : \A r \in S : Severity[r] <= Severity[s]
Recompute(table, links) ==
    [e \in Entities |-> [n \in DOMAIN table[e] |->
       IF <<e, n>> \in links
       THEN [table[e][n] EXCEPT !.status = Worst(Imposed(table, <<e, n>>))]
       ELSE table[e][n]]]

\* The components of the source an item touches, as far as this run knows them.
Links(w) ==
    {<<<<"component", x>>, worker[w].comp[<<"component", x>>]>> :
        x \in {y \in Item(w).components :
                 <<"component", y>> \in Of(1) /\ worker[w].comp[<<"component", y>>] # 0}}

NewRow(w) ==
    CASE worker[w].kind = 1 -> Row(Item(w).status, {}, "operational")
      [] worker[w].kind = 2 ->
           Row(Item(w).status, Links(w), componentStatusForImpact(Item(w).impact))
      [] worker[w].kind = 3 -> Row(Item(w).status, Links(w), "under_maintenance")
      [] worker[w].kind = 4 -> Row("unconfirmed", {}, "operational")

\* CreateComponent, CreateIncident, CreateMaintenance or CreateSubscriber.
Insert(w) ==
    LET table == [rows[Page(w)] EXCEPT ![Entity(w)] = Append(@, NewRow(w))]
    IN rows' = [rows EXCEPT ![Page(w)] = Recompute(table, NewRow(w).links)]

\* One subscription per address and page: another row under the address makes
\* the insert fail.
AddressTaken(p, email) ==
    \E i \in 1..Len(Feed[4]) :
        Feed[4][i].email = email /\ rows[p][<<"subscriber", Feed[4][i].ext>>] # <<>>
Insertable(w) == worker[w].kind = 4 => ~AddressTaken(Page(w), Item(w).email)

HasReplay(w) == worker[w].kind = 2 /\ Len(Item(w).updates) > 1

\* Mutant: the mapping is stored before the updates are replayed.
CreateMapsFirst(w) ==
    /\ Works(w, "create")
    /\ Insertable(w)
    /\ Insert(w)
    /\ LET n == Len(rows[Page(w)][Entity(w)]) + 1
       IN /\ UpsertExternalMapping(Page(w), Entity(w), n)
          /\ Go(w, [worker[w] EXCEPT !.row = n, !.update = 2,
                      !.pc = IF HasReplay(w) THEN "replay" ELSE "map"])
    /\ UNCHANGED faults
Create(w) ==
    /\ Works(w, "create")
    /\ Insertable(w)
    /\ Insert(w)
    /\ Go(w, [worker[w] EXCEPT !.row = Len(rows[Page(w)][Entity(w)]) + 1, !.update = 2,
                !.pc = IF HasReplay(w) THEN "replay" ELSE "map"])
    /\ UNCHANGED <<map, faults>>

\* The subscriber is counted as skipped.
CreateRefused(w) ==
    /\ Works(w, "create")
    /\ ~Insertable(w)
    /\ Go(w, Advance(worker[w]))
    /\ UNCHANGED <<dbVars, faults>>

\* A failed insert is noted in the report, a subscriber's is only counted as
\* skipped.  The insert of an incident or a maintenance may fail after its
\* commit, when the row is read back.
CreateFails(w) ==
    /\ Fails(w, "create")
    /\ Go(w, Advance(IF worker[w].kind # 4 THEN Report(worker[w])
                     ELSE [worker[w] EXCEPT !.unsaid.skipped = @ \cup {Entity(w)}]))
    /\ \/ UNCHANGED rows
       \/ worker[w].kind \in {2, 3} /\ ~worker[w].expired /\ Insert(w)
    /\ UNCHANGED map

\* AddIncidentUpdate: the incident takes the update's status, its components
\* theirs.
AddIncidentUpdate(w) ==
    /\ Works(w, "replay")
    /\ LET table == [rows[Page(w)] EXCEPT ![Entity(w)][worker[w].row].status =
                        Item(w).updates[worker[w].update]]
       IN rows' = [rows EXCEPT ![Page(w)] =
                     Recompute(table, table[Entity(w)][worker[w].row].links)]
    /\ Go(w, IF worker[w].update < Len(Item(w).updates)
             THEN [worker[w] EXCEPT !.update = @ + 1]
             ELSE [worker[w] EXCEPT !.pc = "map"])
    /\ UNCHANGED <<map, faults>>

AddIncidentUpdateFails(w) ==
    /\ Fails(w, "replay")
    /\ Go(w, Advance(Report(worker[w])))
    /\ UNCHANGED dbVars

SetExternalMapping(w) ==
    /\ Works(w, "map")
    /\ UpsertExternalMapping(Page(w), Entity(w), worker[w].row)
    /\ Go(w, Advance(IF worker[w].kind = 1
                     THEN [worker[w] EXCEPT !.comp[Entity(w)] = worker[w].row,
                                            !.pending = @ \cup {Entity(w)}]
                     ELSE worker[w]))
    /\ UNCHANGED <<rows, faults>>

\* Mutant: a mapping that could not be stored goes unnoticed.
MappingFailsQuietly(w) ==
    /\ Fails(w, "map")
    /\ Go(w, Advance(worker[w]))
    /\ UNCHANGED dbVars
\* The row stays without a mapping.
SetExternalMappingFails(w) ==
    /\ Fails(w, "map")
    /\ Go(w, IF worker[w].kind \in {1, 4} THEN Return(worker[w])
             ELSE Advance(Report(worker[w])))
    /\ UNCHANGED dbVars

\* The second pass: a component gets its parent when the run knows both.
ParentOf(w) ==
    LET p == <<"component", Item(w).parent>>
    IN IF Entity(w) \in worker[w].pending /\ p \in Of(1) THEN worker[w].comp[p] ELSE 0

LinkParent(w) ==
    /\ Works(w, "parents")
    /\ rows' = IF ParentOf(w) = 0 THEN rows
               ELSE [rows EXCEPT ![Page(w)][Entity(w)][worker[w].comp[Entity(w)]].parent =
                       ParentOf(w)]
    /\ Go(w, Advance(worker[w]))
    /\ UNCHANGED <<map, faults>>

\* Errors of this pass are dropped.
LinkParentFails(w) ==
    /\ Fails(w, "parents")
    /\ ParentOf(w) # 0
    /\ Go(w, Advance([worker[w] EXCEPT !.unsaid.loose = @ \cup {Entity(w)}]))
    /\ UNCHANGED dbVars

NothingToLink(w) ==
    /\ worker[w].pc = "parents" /\ worker[w].expired /\ ParentOf(w) = 0
    /\ Go(w, Advance(worker[w]))
    /\ UNCHANGED <<dbVars, faults>>

-----------------------------------------------------------------------------
Request(j) ==
    \/ PublishImport(j)
    \/ MarkUnqueued(j)

Run(w) ==
    \/ \E j \in Jobs : processImport(w, j)
    \/ finalize(w) \/ Ack(w)
    \/ Fetch(w) \/ ExternalMapping(w) \/ Create(w) \/ CreateRefused(w)
    \/ AddIncidentUpdate(w) \/ SetExternalMapping(w)
    \/ LinkParent(w) \/ NothingToLink(w)

RunFails(w) ==
    \/ finalizeFails(w)
    \/ FetchFails(w) \/ ExternalMappingFails(w) \/ CreateFails(w)
    \/ AddIncidentUpdateFails(w) \/ SetExternalMappingFails(w) \/ LinkParentFails(w)

Step ==
    \/ \E j \in Jobs, p \in Slugs : \E m \in Modes[j] : handleStartImport(j, m, p)
    \/ \E j \in Jobs, p \in Slugs : handleStartImportFails(j, p)
    \/ \E j \in Jobs : Request(j) \/ PublishImportFails(j) \/ ApiDies(j)
    \/ \E w \in Workers, j \in Jobs : MarkRunningFails(w, j) \/ LoadJobFails(w, j)
    \/ \E w \in Workers : Run(w) \/ RunFails(w) \/ Crash(w) \/ Expire(w)

Next == Step /\ UNCHANGED source

Spec == Init /\ [][Next]_vars

\* A request that is being served and a replica that has a message go on; no
\* fault has to happen, except that past the deadline every call fails.
FairSpec ==
    /\ Spec
    /\ \A j \in Jobs : WF_vars(Request(j) /\ UNCHANGED source)
    /\ \A w \in Workers : WF_vars(
         (Run(w) \/ (worker[w].expired /\ RunFails(w))) /\ UNCHANGED source)

-----------------------------------------------------------------------------
(* Properties.                                                             *)

Mapped(p, e) == map[p][e] # 0
\* What the account's owner reads as a success.
Clean(j) == job[j].status = "completed" /\ ~job[j].errors
Has(p, e) ==
    \/ Mapped(p, e)
    \/ \E i \in 1..Len(Feed[4]) : e = <<"subscriber", Feed[4][i].ext>>
                                  /\ AddressTaken(p, Feed[4][i].email)

Verdict(j) ==
    CASE job[j].status = "none" -> <<>>
      [] job[j].status \in {"pending", "running"} -> <<job[j].page, "open">>
      [] Clean(j) -> <<job[j].page, "clean">>
      [] OTHER -> <<job[j].page, "other">>

Contract == INSTANCE ImportContract WITH
    Pages <- Slugs,
    Entities <- AllEntities,
    Subscribers <- UNION {EntitiesOf[s][4] : s \in Sources},
    missing <- [p \in Slugs |-> {e \in Entities : ~Has(p, e)}],
    verdict <- [j \in Jobs |-> Verdict(j)],
    skipped <- [j \in Jobs |-> unsaid[j].skipped]

\* Whatever dies, fails or overlaps, the importer keeps the contract: an
\* entity once carried over stays so, and a job reported completed with no
\* errors has carried over every entity of the source but the subscribers
\* whose insert failed: those the engine counts as skipped, like the ones the
\* page has, and reports nothing (Engine.Run, processImport).
ImplementsContract == Contract!Spec

\* A row that a run still works on, and the rows that are lost to later runs.
AtWork(run) == run.pc \in {"replay", "map"}
InHand(p, e, n) ==
    \E w \in Workers : AtWork(worker[w]) /\ Page(w) = p /\ Entity(w) = e /\ worker[w].row = n
Orphans(p) ==
    UNION {{e} \X {n \in DOMAIN rows[p][e] : n # map[p][e] /\ ~InHand(p, e, n)} : e \in Entities}

\* external_id_map makes a repeated import idempotent only as far as its
\* calls succeed: on a page where runs did not overlap and none was in mode
\* "update", every row the map does not name was paid for by a fault or is
\* being worked on.
OrphansCostFaults ==
    \A p \in owned \ raced : Cardinality(Orphans(p)) <= faults

\* The status a chronicle of more than one update ends with.  For a closed
\* incident whose last update does not say so it is not "resolved".
FinalStatus(incident) ==
    IF Len(incident.updates) > 1 THEN incident.updates[Len(incident.updates)]
    ELSE incident.status

\* A row the map names has been carried over whole: a mapped incident has
\* the status its chronicle ends with, not one its replayed updates passed
\* through (importIncident stores the mapping last).
MappedIsWhole ==
    \A p \in Slugs : \A i \in 1..Len(Feed[2]) :
        LET e == <<"incident", Feed[2][i].ext>>
        IN Mapped(p, e) => rows[p][e][map[p][e]].status = FinalStatus(Feed[2][i])

\* After a clean import the tree is the source's: the second pass also sets
\* the parents of components an earlier run left without one.  Errors of this
\* pass are dropped by the engine; the components they hit are left out.
TreeIsRestored ==
    \A j \in Jobs : Clean(j) /\ job[j].page \notin raced =>
        \A i \in 1..Len(Feed[1]) :
            LET c == <<"component", Feed[1][i].ext>>
                p == <<"component", Feed[1][i].parent>>
            IN p \in Of(1) /\ c \notin unsaid[j].loose =>
                 rows[job[j].page][c][map[job[j].page][c]].parent = map[job[j].page][p]

\* Jobs that were created are settled in the end, all of them at once, through
\* crashes of the replicas, failed fetches and failed publishes.  The errors that
\* strand one are only logged: of the calls that read or save the job itself.
JobSettles ==
    (\E j \in Jobs : job[j].status = "pending")
        ~> \A j \in Jobs : job[j].status \in {"none"} \cup Settled \/ j \in swallowed
===============================================================================
