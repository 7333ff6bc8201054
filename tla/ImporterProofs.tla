---------------------------- MODULE ImporterProofs ----------------------------
(***************************************************************************)
(* Theorems about Importer, for any number of jobs, replicas, pages and    *)
(* faults and for any source an adapter can hand over.                     *)
(***************************************************************************)
EXTENDS Importer, FiniteSetTheorems, TLAPS

-----------------------------------------------------------------------------
(* The source.                                                             *)

LEMMA FeedTypes ==
    ASSUME source \in Sources
    PROVE  /\ Feed[1] \in Seq(ImportedComponent)
           /\ Feed[2] \in Seq(ImportedIncident)
           /\ Feed[3] \in Seq(ImportedMaintenance)
           /\ Feed[4] \in Seq(ImportedSubscriber)
           /\ \A k \in 1..4 : Len(Feed[k]) \in Nat
           /\ \A k \in 1..4 : \A i, n \in 1..Len(Feed[k]) :
                Feed[k][i].ext = Feed[k][n].ext => i = n
<1>1. Feed[1] \in Seq(ImportedComponent) /\ Feed[2] \in Seq(ImportedIncident)
      /\ Feed[3] \in Seq(ImportedMaintenance) /\ Feed[4] \in Seq(ImportedSubscriber)
  BY FeedsAreTyped DEF Feed
<1>2. \A k \in 1..4 : Len(Feed[k]) \in Nat
  <2>1. SUFFICES ASSUME NEW k \in 1..4 PROVE Len(Feed[k]) \in Nat
    OBVIOUS
  <2>2. k = 1 \/ k = 2 \/ k = 3 \/ k = 4
    BY <2>1
  <2>3. CASE k = 1
    BY <1>1, <2>3
  <2>4. CASE k = 2
    BY <1>1, <2>4
  <2>5. CASE k = 3
    BY <1>1, <2>5
  <2>6. CASE k = 4
    BY <1>1, <2>6
  <2> QED
    BY <2>2, <2>3, <2>4, <2>5, <2>6
<1>3. \A k \in 1..4 : \A i, n \in 1..Len(Feed[k]) :
        Feed[k][i].ext = Feed[k][n].ext => i = n
  BY FeedsAreTyped DEF Feed
<1> QED
  BY <1>1, <1>2, <1>3

\* The entity the k-th feed has at position i.
At(k, i) == <<Kinds[k], Feed[k][i].ext>>

\* An entity is of one kind and has one place in its feed.
LEMMA EntityPlaces ==
    ASSUME source \in Sources
    PROVE  /\ \A k \in 1..4 : Of(k) = {At(k, i) : i \in 1..Len(Feed[k])}
           /\ \A k \in 1..4 : Of(k) \subseteq Entities
           /\ \A e \in Entities : \E k \in 1..4 : e \in Of(k)
           /\ \A k \in 1..4 : \A e \in Of(k) : e[1] = Kinds[k]
           /\ \A k, l \in 1..4 : Kinds[k] = Kinds[l] => k = l
           /\ \A k, l \in 1..4 : \A i \in 1..Len(Feed[k]), n \in 1..Len(Feed[l]) :
                At(k, i) = At(l, n) => k = l /\ i = n
<1>1. \A k \in 1..4 : Of(k) = {At(k, i) : i \in 1..Len(Feed[k])}
  BY DEF Of, EntitiesOf, Feed, At
<1>2. \A k \in 1..4 : Of(k) \subseteq Entities
  <2>1. SUFFICES ASSUME NEW k \in 1..4 PROVE Of(k) \subseteq Entities
    OBVIOUS
  <2>2. k = 1 \/ k = 2 \/ k = 3 \/ k = 4
    BY <2>1
  <2> QED
    BY <2>2 DEF Entities
<1>3. \A e \in Entities : \E k \in 1..4 : e \in Of(k)
  <2>1. SUFFICES ASSUME NEW e \in Entities PROVE \E k \in 1..4 : e \in Of(k)
    OBVIOUS
  <2>2. e \in Of(1) \/ e \in Of(2) \/ e \in Of(3) \/ e \in Of(4)
    BY <2>1 DEF Entities
  <2>3. 1 \in 1..4 /\ 2 \in 1..4 /\ 3 \in 1..4 /\ 4 \in 1..4
    OBVIOUS
  <2> QED
    BY <2>2, <2>3
<1>4. \A k, l \in 1..4 : Kinds[k] = Kinds[l] => k = l
  BY DEF Kinds
<1>5. \A k \in 1..4 : \A e \in Of(k) : e[1] = Kinds[k]
  BY <1>1 DEF At
<1>6. \A k, l \in 1..4 : \A i \in 1..Len(Feed[k]), n \in 1..Len(Feed[l]) :
        At(k, i) = At(l, n) => k = l /\ i = n
  <2>1. SUFFICES ASSUME NEW k \in 1..4, NEW l \in 1..4,
                        NEW i \in 1..Len(Feed[k]), NEW n \in 1..Len(Feed[l]),
                        At(k, i) = At(l, n)
                 PROVE  k = l /\ i = n
    OBVIOUS
  <2>2. Kinds[k] = Kinds[l] /\ Feed[k][i].ext = Feed[l][n].ext
    BY <2>1 DEF At
  <2>3. k = l
    BY <1>4, <2>2
  <2> QED
    BY <2>2, <2>3, FeedTypes
<1> QED
  BY <1>1, <1>2, <1>3, <1>4, <1>5, <1>6

-----------------------------------------------------------------------------
(* The rows of a page.                                                     *)

Table == [Entities -> Seq(RowType)]

\* A status is imposed on a component by somebody, or it is operational.
LEMMA WorstIsAStatus ==
    ASSUME NEW S \in SUBSET ComponentStatuses
    PROVE  Worst(S) \in ComponentStatuses
<1> DEFINE Bad(s) == \A r \in S : Severity[r] <= Severity[s]
<1>1. \E s \in S \cup {"operational"} : Bad(s)
  <2>1. CASE "major_outage" \in S
    BY <2>1 DEF Severity, ComponentStatuses
  <2>2. CASE "major_outage" \notin S /\ "partial_outage" \in S
    BY <2>2 DEF Severity, ComponentStatuses
  <2>3. CASE /\ "major_outage" \notin S /\ "partial_outage" \notin S
             /\ "under_maintenance" \in S
    BY <2>3 DEF Severity, ComponentStatuses
  <2>4. CASE /\ "major_outage" \notin S /\ "partial_outage" \notin S
             /\ "under_maintenance" \notin S /\ "degraded_performance" \in S
    BY <2>4 DEF Severity, ComponentStatuses
  <2>5. CASE S \subseteq {"operational"}
    BY <2>5 DEF Severity, ComponentStatuses
  <2> QED
    BY <2>1, <2>2, <2>3, <2>4, <2>5 DEF ComponentStatuses
<1>2. Worst(S) \in S \cup {"operational"}
  BY <1>1 DEF Worst
<1> QED
  BY <1>2 DEF ComponentStatuses

LEMMA ImposedIsTyped ==
    ASSUME NEW t \in Table, NEW c
    PROVE  Imposed(t, c) \subseteq ComponentStatuses
<1>1. SUFFICES ASSUME NEW e \in Of(2) \cup Of(3), NEW n \in DOMAIN t[e]
               PROVE  t[e][n].imposes \in ComponentStatuses
  BY DEF Imposed
<1>2. t[e] \in Seq(RowType)
  BY DEF Table, Entities
<1>3. t[e][n] \in RowType
  BY <1>2
<1> QED
  BY <1>3 DEF RowType

\* A recomputation changes nothing but the statuses of components.
LEMMA RecomputeKeeps ==
    ASSUME source \in Sources, NEW t \in Table, NEW links \in SUBSET (Of(1) \X Nat)
    PROVE  LET u == Recompute(t, links) IN
           /\ u \in Table
           /\ \A e \in Entities :
                /\ Len(u[e]) = Len(t[e])
                /\ \A n \in 1..Len(t[e]) :
                     /\ u[e][n].parent = t[e][n].parent
                     /\ e \notin Of(1) => u[e][n] = t[e][n]
<1> DEFINE u == Recompute(t, links)
<1>1. SUFFICES ASSUME NEW e \in Entities
               PROVE  /\ u[e] \in Seq(RowType)
                      /\ Len(u[e]) = Len(t[e])
                      /\ \A n \in 1..Len(t[e]) :
                           /\ u[e][n].parent = t[e][n].parent
                           /\ e \notin Of(1) => u[e][n] = t[e][n]
  BY DEF Recompute, Table
<1>2. t[e] \in Seq(RowType)
  BY DEF Table
<1>3. DOMAIN t[e] = 1..Len(t[e]) /\ Len(t[e]) \in Nat
  BY <1>2
<1> DEFINE New(n) == IF <<e, n>> \in links
                     THEN [t[e][n] EXCEPT !.status = Worst(Imposed(t, <<e, n>>))]
                     ELSE t[e][n]
<1>4. u[e] = [n \in 1..Len(t[e]) |-> New(n)]
  BY <1>3 DEF Recompute
<1>5. ASSUME NEW n \in 1..Len(t[e])
      PROVE  /\ New(n) \in RowType
             /\ New(n).parent = t[e][n].parent
             /\ e \notin Of(1) => New(n) = t[e][n]
  <2>1. t[e][n] \in RowType
    BY <1>2, <1>5
  <2>2. Worst(Imposed(t, <<e, n>>)) \in ComponentStatuses
    BY ImposedIsTyped, WorstIsAStatus
  <2>3. <<e, n>> \in links => e \in Of(1)
    OBVIOUS
  <2> QED
    BY <2>1, <2>2, <2>3 DEF RowType
<1> HIDE DEF New, u
<1>6. u[e] \in Seq(RowType) /\ Len(u[e]) = Len(t[e])
  BY <1>3, <1>4, <1>5
<1> QED
  BY <1>4, <1>5, <1>6
-----------------------------------------------------------------------------
(* A run and how far it has come.                                          *)

RunOK(run) ==
    /\ run \in RunType
    /\ run.pc # "idle" => run.id \in Jobs
    /\ run.pc \in {"lookup", "create", "replay", "map", "parents"}
         => run.pos \in 1..Len(Feed[run.kind])
    /\ run.pc = "replay" => run.kind = 2 /\ run.update \in 2..Len(Feed[2][run.pos].updates)
    /\ run.pc = "parents" => run.kind = 1
    /\ run.pc \in {"finish", "ack"} => run.failed \/ run.kind = 4

\* The run is past the i-th entity of the k-th feed, and past its parent.
Reached(run, k, i) ==
    \/ k < run.kind
    \/ k = run.kind /\ run.pc \in {"parents", "finish", "ack"}
    \/ k = run.kind /\ run.pc \in {"lookup", "create", "replay", "map"} /\ i < run.pos
ParentReached(run, i) ==
    \/ run.kind > 1 \/ run.pc \in {"finish", "ack"}
    \/ run.pc = "parents" /\ i < run.pos

\* What going on to the next entity leaves alone.
Carries(run, next) ==
    /\ next.job = run.job /\ next.id = run.id
    /\ next.comp = run.comp /\ next.pending = run.pending
    /\ next.errors = run.errors /\ next.unsaid = run.unsaid
    /\ next.failed = run.failed /\ next.expired = run.expired

LEMMA NextKind ==
    ASSUME source \in Sources, NEW run \in RunType, run.id \in Jobs
    PROVE  LET next == EndOfKind(run) IN
           /\ RunOK(next) /\ Carries(run, next)
           /\ next.pc \in {"fetch", "parents", "finish"}
           /\ \A k \in 1..4 : \A i \in 1..Len(Feed[k]) :
                Reached(next, k, i) => Reached(run, k, i) \/ k = run.kind
           /\ \A i \in 1..Len(Feed[1]) :
                ParentReached(next, i) => run.kind > 1 \/ run.pc = "parents"
<1>1. CASE run.kind = 1 /\ run.pc # "parents" /\ Feed[1] # <<>>
  <2> DEFINE next == EndOfKind(run)
  <2>1. next = [run EXCEPT !.pc = "parents", !.pos = 1]
    BY <1>1 DEF EndOfKind
  <2> HIDE DEF next
  <2>2. Len(Feed[1]) \in Nat \ {0}
    BY <1>1, FeedTypes
  <2>3. next \in RunType
    BY <2>1 DEF RunType
  <2>4. Carries(run, next) /\ next.pc = "parents" /\ next.kind = 1 /\ next.pos = 1
    BY <1>1, <2>1 DEF RunType, Carries
  <2>5. RunOK(next)
    BY <2>2, <2>3, <2>4 DEF RunOK, Carries
  <2>6. ASSUME NEW k \in 1..4, NEW i \in 1..Len(Feed[k]), Reached(next, k, i)
        PROVE  Reached(run, k, i) \/ k = run.kind
    BY <1>1, <2>4, <2>6 DEF Reached
  <2>7. ASSUME NEW i \in 1..Len(Feed[1]), ParentReached(next, i)
        PROVE  run.kind > 1 \/ run.pc = "parents"
    BY <2>4, <2>7 DEF ParentReached
  <2> QED
    BY <2>4, <2>5, <2>6, <2>7 DEF next
<1>2. CASE run.kind = 4
  <2> DEFINE next == EndOfKind(run)
  <2>1. next = [run EXCEPT !.pc = "finish"]
    BY <1>2 DEF EndOfKind
  <2> HIDE DEF next
  <2>2. next \in RunType
    BY <2>1 DEF RunType
  <2>3. Carries(run, next) /\ next.pc = "finish" /\ next.kind = 4
    BY <1>2, <2>1 DEF RunType, Carries
  <2>4. RunOK(next)
    BY <2>2, <2>3 DEF RunOK, Carries
  <2>5. ASSUME NEW k \in 1..4, NEW i \in 1..Len(Feed[k]), Reached(next, k, i)
        PROVE  Reached(run, k, i) \/ k = run.kind
    BY <1>2, <2>3, <2>5 DEF Reached
  <2> QED
    BY <1>2, <2>3, <2>4, <2>5 DEF next
<1>3. CASE run.kind # 4 /\ (run.kind # 1 \/ run.pc = "parents" \/ Feed[1] = <<>>)
  <2> DEFINE next == EndOfKind(run)
  <2>1. next = [run EXCEPT !.pc = "fetch", !.kind = @ + 1]
    BY <1>3 DEF EndOfKind
  <2> HIDE DEF next
  <2>2. run.kind + 1 \in 1..4
    BY <1>3 DEF RunType
  <2>3. Feed[1] = <<>> => Len(Feed[1]) = 0
    OBVIOUS
  <2>0. next \in RunType
    BY <2>1, <2>2 DEF RunType
  <2>4. Carries(run, next) /\ next.pc = "fetch" /\ next.kind = run.kind + 1
    BY <2>1, <2>2 DEF RunType, Carries
  <2>5. run.kind \in 1..4
    BY DEF RunType
  <2>6. RunOK(next)
    BY <2>0, <2>4 DEF RunOK, Carries
  <2>7. ASSUME NEW k \in 1..4, NEW i \in 1..Len(Feed[k]), Reached(next, k, i)
        PROVE  Reached(run, k, i) \/ k = run.kind
    BY <2>4, <2>5, <2>7 DEF Reached
  <2>8. ASSUME NEW i \in 1..Len(Feed[1]), ParentReached(next, i)
        PROVE  run.kind > 1 \/ run.pc = "parents"
    BY <1>3, <2>3, <2>5
  <2> QED
    BY <2>4, <2>6, <2>7, <2>8 DEF next
<1> QED
  BY <1>1, <1>2, <1>3

LEMMA MovedRun ==
    ASSUME NEW run \in RunType, NEW pc \in {"lookup", "parents"}, NEW n \in Nat
    PROVE  [run EXCEPT !.pc = pc, !.pos = n, !.row = 0] \in RunType
BY DEF RunType

LEMMA NextEntity ==
    ASSUME source \in Sources, NEW run \in RunType, run.id \in Jobs,
           run.pc \in {"lookup", "create", "replay", "map", "parents"},
           run.pos \in 1..Len(Feed[run.kind]), run.pc = "parents" => run.kind = 1
    PROVE  LET next == Advance(run) IN
           /\ RunOK(next) /\ Carries(run, next)
           /\ next.pc \in {"fetch", "lookup", "parents", "finish"}
           /\ \A k \in 1..4 : \A i \in 1..Len(Feed[k]) :
                Reached(next, k, i) => Reached(run, k, i) \/ (k = run.kind /\ i = run.pos)
           /\ \A i \in 1..Len(Feed[1]) :
                ParentReached(next, i) =>
                  ParentReached(run, i) \/ (run.pc = "parents" /\ i = run.pos)
<1>0. Len(Feed[run.kind]) \in Nat
  BY FeedTypes DEF RunType
<1>1. CASE run.pos < Len(Feed[run.kind])
  <2>1. Advance(run) = [run EXCEPT !.pc = IF @ = "parents" THEN @ ELSE "lookup",
                                   !.pos = @ + 1, !.row = 0]
    BY <1>1 DEF Advance
  <2> DEFINE next == Advance(run)
  <2> DEFINE pc == IF run.pc = "parents" THEN "parents" ELSE "lookup"
  <2>0. pc \in {"lookup", "parents"} /\ (pc = "parents" <=> run.pc = "parents")
    OBVIOUS
  <2>1a. next = [run EXCEPT !.pc = pc, !.pos = run.pos + 1, !.row = 0]
    BY <2>1
  <2> HIDE DEF next, pc
  <2>3. run.pos \in Nat /\ run.kind \in 1..4 /\ run.pos + 1 \in 1..Len(Feed[run.kind])
    BY <1>0, <1>1 DEF RunType
  <2>3a. next \in RunType
    <3>1. pc \in {"lookup", "parents"} /\ run.pos + 1 \in Nat
      BY <2>0, <2>3
    <3>2. [run EXCEPT !.pc = pc, !.pos = run.pos + 1, !.row = 0] \in RunType
      BY ONLY run \in RunType, <3>1, MovedRun
    <3> QED
      BY ONLY <2>1a, <3>2
  <2>2. /\ Carries(run, next) /\ next.pc = pc
        /\ next.kind = run.kind /\ next.pos = run.pos + 1
    BY <2>1a DEF RunType, Carries
  <2>4. RunOK(next)
    BY <2>0, <2>2, <2>3, <2>3a DEF RunOK, Carries
  <2>5. ASSUME NEW k \in 1..4, NEW i \in 1..Len(Feed[k]), Reached(next, k, i)
        PROVE  Reached(run, k, i) \/ (k = run.kind /\ i = run.pos)
    <3>1. i < run.pos + 1 => i < run.pos \/ i = run.pos
      BY <2>3
    <3> QED
      BY <2>0, <2>2, <2>3, <2>5, <3>1 DEF Reached
  <2>6. ASSUME NEW i \in 1..Len(Feed[1]), ParentReached(next, i)
        PROVE  ParentReached(run, i) \/ (run.pc = "parents" /\ i = run.pos)
    <3>1. i < run.pos + 1 => i < run.pos \/ i = run.pos
      BY <2>3
    <3> QED
      BY <2>0, <2>2, <2>3, <2>6, <3>1 DEF ParentReached
  <2> QED
    BY <2>0, <2>2, <2>4, <2>5, <2>6 DEF next
<1>2. CASE ~(run.pos < Len(Feed[run.kind]))
  <2> DEFINE last == [run EXCEPT !.row = 0]
  <2>1. Advance(run) = EndOfKind(last)
    BY <1>2 DEF Advance
  <2>2. /\ last \in RunType /\ Carries(run, last) /\ last.pc = run.pc
        /\ last.kind = run.kind /\ last.pos = run.pos
    BY DEF RunType, Carries
  <2> HIDE DEF last
  <2>3. /\ RunOK(Advance(run)) /\ Carries(last, Advance(run))
        /\ Advance(run).pc \in {"fetch", "parents", "finish"}
        /\ \A k \in 1..4 : \A i \in 1..Len(Feed[k]) :
             Reached(Advance(run), k, i) => Reached(last, k, i) \/ k = last.kind
        /\ \A i \in 1..Len(Feed[1]) :
             ParentReached(Advance(run), i) => last.kind > 1 \/ last.pc = "parents"
    <3>1. last.id \in Jobs
      BY <2>2 DEF Carries
    <3> QED
      BY <2>1, <2>2, <3>1, NextKind
  <2>4. run.pos = Len(Feed[run.kind])
    BY <1>0, <1>2
  <2>5. ASSUME NEW k \in 1..4, NEW i \in 1..Len(Feed[k]), Reached(Advance(run), k, i)
        PROVE  Reached(run, k, i) \/ (k = run.kind /\ i = run.pos)
    <3>1. Reached(last, k, i) \/ k = run.kind
      BY <2>2, <2>3, <2>5
    <3>2. Reached(last, k, i) => Reached(run, k, i)
      BY <2>2 DEF Reached
    <3>3. k = run.kind => i < run.pos \/ i = run.pos
      BY <1>0, <2>4
    <3> QED
      BY <3>1, <3>2, <3>3 DEF Reached
  <2>6. ASSUME NEW i \in 1..Len(Feed[1]), ParentReached(Advance(run), i)
        PROVE  ParentReached(run, i) \/ (run.pc = "parents" /\ i = run.pos)
    <3>1. run.kind > 1 \/ run.pc = "parents"
      BY <2>2, <2>3, <2>6
    <3>2. run.pc = "parents" => i < run.pos \/ i = run.pos
      BY <1>0, <2>4
    <3> QED
      BY <3>1, <3>2 DEF ParentReached
  <2> QED
    BY <2>2, <2>3, <2>5, <2>6 DEF Carries
<1> QED
  BY <1>1, <1>2
-----------------------------------------------------------------------------
(* The type of the state, and what it rests on.                            *)

\* A job has a row from the time its request is answered for, in a page of
\* the account.
JobsOK ==
    \A j \in Jobs :
        /\ api[j] = "none" => job[j].status = "none"
        /\ j \in queue \/ api[j] \in {"publishing", "failing"} => job[j].status # "none"
        /\ job[j].status # "none" => job[j].page \in owned

\* A replica works for a job, on that job's page, on a row that is there.
RunsOK ==
    \A w \in Workers :
        /\ RunOK(worker[w])
        /\ worker[w].pc # "idle" =>
             /\ job[worker[w].id].status # "none"
             /\ Page(w) = job[worker[w].id].page
        /\ worker[w].pc \in {"replay", "map"} =>
             worker[w].row \in 1..Len(rows[Page(w)][Entity(w)])

Base == TypeOK /\ JobsOK /\ RunsOK

LEMMA SameSource ==
    ASSUME UNCHANGED source
    PROVE  /\ Feed' = Feed /\ Entities' = Entities /\ \A k \in 1..4 : Of(k)' = Of(k)
           /\ RunType' = RunType /\ RowType' = RowType /\ Table' = Table /\ NoRun' = NoRun
           /\ UnsaidType' = UnsaidType
<1>1. Feed' = Feed /\ \A k : Of(k)' = Of(k)
  BY DEF Feed, Of
<1>2. Entities' = Entities /\ RunType' = RunType /\ RowType' = RowType /\ NoRun' = NoRun
      /\ UnsaidType' = UnsaidType
  BY <1>1 DEF Entities, RunType, UnsaidType, RowType, NoRun
<1> QED
  BY <1>1, <1>2 DEF Table

LEMMA ItemTypes ==
    ASSUME Base, NEW w \in Workers,
           worker[w].pc \in {"lookup", "create", "replay", "map", "parents"}
    PROVE  /\ worker[w].kind = 1 => Item(w) \in ImportedComponent
           /\ worker[w].kind = 2 => Item(w) \in ImportedIncident
           /\ worker[w].kind = 3 => Item(w) \in ImportedMaintenance
           /\ worker[w].kind = 4 => Item(w) \in ImportedSubscriber
           /\ Entity(w) = At(worker[w].kind, worker[w].pos)
           /\ Entity(w) \in Of(worker[w].kind) /\ Entity(w) \in Entities
           /\ worker[w].kind \in 1..4 /\ worker[w].pos \in 1..Len(Feed[worker[w].kind])
           /\ Page(w) \in Slugs
<1>1. source \in Sources /\ worker[w] \in RunType
  BY DEF Base, TypeOK
<1>2. worker[w].kind \in 1..4 /\ worker[w].pos \in 1..Len(Feed[worker[w].kind])
  BY <1>1 DEF Base, RunsOK, RunOK, RunType
<1>3. Page(w) \in Slugs
  BY <1>1 DEF Page, RunType, JobType
<1>4. Entity(w) = At(worker[w].kind, worker[w].pos)
  BY DEF Entity, Item, At
<1>5. Entity(w) \in Of(worker[w].kind) /\ Entity(w) \in Entities
  BY <1>1, <1>2, <1>4, EntityPlaces
<1>6. /\ Feed[1] \in Seq(ImportedComponent) /\ Feed[2] \in Seq(ImportedIncident)
      /\ Feed[3] \in Seq(ImportedMaintenance) /\ Feed[4] \in Seq(ImportedSubscriber)
  BY <1>1, FeedTypes
<1>7. worker[w].kind = 1 => Item(w) \in ImportedComponent
  BY <1>2, <1>6 DEF Item
<1>8. worker[w].kind = 2 => Item(w) \in ImportedIncident
  BY <1>2, <1>6 DEF Item
<1>9. worker[w].kind = 3 => Item(w) \in ImportedMaintenance
  BY <1>2, <1>6 DEF Item
<1>10. worker[w].kind = 4 => Item(w) \in ImportedSubscriber
  BY <1>2, <1>6 DEF Item
<1> QED
  BY ONLY <1>2, <1>3, <1>4, <1>5, <1>7, <1>8, <1>9, <1>10

LEMMA NewRowTyped ==
    ASSUME Base, NEW w \in Workers, worker[w].pc = "create"
    PROVE  /\ NewRow(w) \in RowType
           /\ NewRow(w).links \in SUBSET (Of(1) \X Nat)
           /\ NewRow(w).parent = 0
           /\ worker[w].kind = 2 => NewRow(w).status = Item(w).status
<1>1. worker[w].kind \in 1..4 /\ worker[w].comp \in [Of(1) -> Nat]
  BY DEF Base, TypeOK, RunType
<1>2. Links(w) \in SUBSET (Of(1) \X Nat)
  <2>1. SUFFICES ASSUME NEW l \in Links(w) PROVE l \in Of(1) \X Nat
    OBVIOUS
  <2>2. PICK x : /\ <<"component", x>> \in Of(1)
                 /\ l = <<<<"component", x>>, worker[w].comp[<<"component", x>>]>>
    BY <2>1 DEF Links
  <2>3. worker[w].comp[<<"component", x>>] \in Nat
    BY <1>1, <2>2
  <2> QED
    BY <2>2, <2>3
<1>3. CASE worker[w].kind = 1
  <2>1. NewRow(w) = Row(Item(w).status, {}, "operational")
    BY <1>3 DEF NewRow
  <2>2. Item(w).status \in ComponentStatuses
    BY <1>3, ItemTypes DEF ImportedComponent
  <2> QED
    BY <1>3, <2>1, <2>2 DEF Row, RowType, ComponentStatuses
<1>4. CASE worker[w].kind = 2
  <2>1. NewRow(w) = Row(Item(w).status, Links(w), componentStatusForImpact(Item(w).impact))
    BY <1>4 DEF NewRow
  <2>2. Item(w).status \in IncidentStatuses
    BY <1>4, ItemTypes DEF ImportedIncident
  <2>3. componentStatusForImpact(Item(w).impact) \in ComponentStatuses
    BY DEF componentStatusForImpact, ComponentStatuses
  <2> QED
    BY <1>2, <2>1, <2>2, <2>3 DEF Row, RowType
<1>5. CASE worker[w].kind = 3
  <2>1. NewRow(w) = Row(Item(w).status, Links(w), "under_maintenance")
    BY <1>5 DEF NewRow
  <2>2. Item(w).status \in MaintenanceStatuses
    BY <1>5, ItemTypes DEF ImportedMaintenance
  <2> QED
    BY <1>2, <1>5, <2>1, <2>2 DEF Row, RowType, ComponentStatuses
<1>6. CASE worker[w].kind = 4
  <2>1. NewRow(w) = Row("unconfirmed", {}, "operational")
    BY <1>6 DEF NewRow
  <2> QED
    BY <1>6, <2>1 DEF Row, RowType, ComponentStatuses
<1> QED
  BY <1>1, <1>3, <1>4, <1>5, <1>6
-----------------------------------------------------------------------------
(* What the writes do to the rows.                                         *)

\* A new row comes last; the others keep their parents, and all but the
\* components everything.
LEMMA InsertEffect ==
    ASSUME Base, NEW w \in Workers, worker[w].pc = "create", Insert(w)
    PROVE  /\ rows' \in [Slugs -> Table]
           /\ \A p \in Slugs : p # Page(w) => rows'[p] = rows[p]
           /\ \A e \in Entities :
                /\ Len(rows'[Page(w)][e])
                     = Len(rows[Page(w)][e]) + (IF e = Entity(w) THEN 1 ELSE 0)
                /\ \A n \in 1..Len(rows[Page(w)][e]) :
                     /\ rows'[Page(w)][e][n].parent = rows[Page(w)][e][n].parent
                     /\ e \notin Of(1) => rows'[Page(w)][e][n] = rows[Page(w)][e][n]
           /\ worker[w].kind = 2 =>
                rows'[Page(w)][Entity(w)][Len(rows[Page(w)][Entity(w)]) + 1].status = Item(w).status
<1> DEFINE p == Page(w)
           e0 == Entity(w)
           row == NewRow(w)
           old == rows[p]
           t == [old EXCEPT ![e0] = Append(@, row)]
           u == Recompute(t, row.links)
<1>1. source \in Sources /\ rows \in [Slugs -> Table]
  BY DEF Base, TypeOK, Table
<1>2. p \in Slugs /\ e0 \in Entities /\ e0 \in Of(worker[w].kind)
  BY ItemTypes
<1>3. /\ row \in RowType /\ row.links \in SUBSET (Of(1) \X Nat)
      /\ worker[w].kind = 2 => row.status = Item(w).status
  BY NewRowTyped
<1>4. rows' = [rows EXCEPT ![p] = u]
  BY DEF Insert
<1>5. old \in Table
  BY <1>1, <1>2
<1> HIDE DEF p, e0, row, old
<1>6. old[e0] \in Seq(RowType)
  BY <1>2, <1>5 DEF Table
<1>7. /\ Append(old[e0], row) \in Seq(RowType)
      /\ Len(Append(old[e0], row)) = Len(old[e0]) + 1 /\ Len(old[e0]) \in Nat
      /\ \A n \in 1..Len(old[e0]) : Append(old[e0], row)[n] = old[e0][n]
      /\ Append(old[e0], row)[Len(old[e0]) + 1] = row
  BY <1>3, <1>6
<1>8. /\ t \in Table /\ t[e0] = Append(old[e0], row)
      /\ \A e \in Entities : e # e0 => t[e] = old[e]
  BY <1>2, <1>5, <1>7 DEF Table
<1> HIDE DEF t
<1>9. /\ u \in Table
      /\ \A e \in Entities :
           /\ Len(u[e]) = Len(t[e])
           /\ \A n \in 1..Len(t[e]) :
                /\ u[e][n].parent = t[e][n].parent
                /\ e \notin Of(1) => u[e][n] = t[e][n]
  BY <1>1, <1>3, <1>8, RecomputeKeeps
<1> HIDE DEF u
<1>10. rows' \in [Slugs -> Table] /\ rows'[p] = u /\ \A q \in Slugs : q # p => rows'[q] = rows[q]
  BY <1>1, <1>2, <1>4, <1>9
<1>11. ASSUME NEW e \in Entities
       PROVE  /\ Len(u[e]) = Len(old[e]) + (IF e = e0 THEN 1 ELSE 0)
              /\ \A n \in 1..Len(old[e]) :
                   /\ u[e][n].parent = old[e][n].parent
                   /\ e \notin Of(1) => u[e][n] = old[e][n]
  <2>1. Len(old[e]) \in Nat
    BY <1>5 DEF Table
  <2>2. CASE e = e0
    <3>1. Len(u[e]) = Len(old[e]) + 1
      BY <1>7, <1>8, <1>9, <2>2
    <3>2. ASSUME NEW n \in 1..Len(old[e])
          PROVE  u[e][n].parent = old[e][n].parent /\ (e \notin Of(1) => u[e][n] = old[e][n])
      <4>1. n \in 1..Len(t[e]) /\ t[e][n] = old[e][n]
        BY <1>7, <1>8, <2>1, <2>2
      <4> QED
        BY <1>9, <4>1
    <3> QED
      BY <2>2, <3>1, <3>2
  <2>3. CASE e # e0
    <3>1. t[e] = old[e]
      BY <1>8, <2>3
    <3> QED
      BY <1>9, <2>1, <2>3, <3>1
  <2> QED
    BY <2>2, <2>3
<1>12. worker[w].kind = 2 => u[e0][Len(old[e0]) + 1].status = Item(w).status
  <2>1. SUFFICES ASSUME worker[w].kind = 2 PROVE u[e0][Len(old[e0]) + 1].status = Item(w).status
    OBVIOUS
  <2>2. e0 \notin Of(1)
    <3>1. e0[1] = Kinds[2] /\ (e0 \in Of(1) => e0[1] = Kinds[1]) /\ Kinds[1] # Kinds[2]
      BY <1>1, <1>2, <2>1, EntityPlaces
    <3> QED
      BY <3>1
  <2>3. Len(old[e0]) + 1 \in 1..Len(t[e0])
    BY <1>7, <1>8
  <2> QED
    BY <1>2, <1>3, <1>7, <1>8, <1>9, <2>1, <2>2, <2>3
<1> QED
  BY <1>10, <1>11, <1>12 DEF p, e0, old

\* A replayed update touches one row of an incident, and components.
LEMMA ReplayEffect ==
    ASSUME Base, NEW w \in Workers, AddIncidentUpdate(w)
    PROVE  /\ rows' \in [Slugs -> Table]
           /\ \A p \in Slugs, e \in Entities :
                /\ Len(rows'[p][e]) = Len(rows[p][e])
                /\ \A n \in 1..Len(rows[p][e]) :
                     /\ rows'[p][e][n].parent = rows[p][e][n].parent
                     /\ (e \notin Of(1) /\ (p # Page(w) \/ e # Entity(w) \/ n # worker[w].row))
                          => rows'[p][e][n] = rows[p][e][n]
           /\ rows'[Page(w)][Entity(w)][worker[w].row].status
                = Item(w).updates[worker[w].update]
<1> DEFINE p == Page(w)
           e0 == Entity(w)
           r == worker[w].row
           s == Item(w).updates[worker[w].update]
           old == rows[p]
           t == [old EXCEPT ![e0][r].status = s]
           links == t[e0][r].links
           u == Recompute(t, links)
<1>0. worker[w].pc = "replay"
  BY DEF AddIncidentUpdate, Works
<1>1. source \in Sources /\ rows \in [Slugs -> Table]
  BY DEF Base, TypeOK, Table
<1>2. p \in Slugs /\ e0 \in Entities /\ e0 \in Of(2) /\ r \in 1..Len(old[e0])
  BY <1>0, ItemTypes DEF Base, RunsOK, RunOK
<1>3. s \in IncidentStatuses
  <2>1. Item(w) \in ImportedIncident /\ worker[w].update \in 2..Len(Item(w).updates)
    BY <1>0, ItemTypes DEF Base, RunsOK, RunOK, Item
  <2>2. Item(w).updates \in Seq(IncidentStatuses)
    BY <2>1 DEF ImportedIncident
  <2>3. worker[w].update \in 1..Len(Item(w).updates)
    BY <2>1, <2>2
  <2> QED
    BY <2>2, <2>3
<1>4. rows' = [rows EXCEPT ![p] = u]
  BY DEF AddIncidentUpdate
<1>5. old \in Table
  BY <1>1, <1>2
<1> HIDE DEF p, e0, r, s, old
<1>6. old[e0] \in Seq(RowType) /\ old[e0][r] \in RowType
  BY <1>2, <1>5 DEF Table
<1> DEFINE new == [old[e0][r] EXCEPT !.status = s]
<1>7. new \in RowType /\ new.parent = old[e0][r].parent /\ new.status = s
  BY <1>3, <1>6 DEF RowType
<1>8. t = [old EXCEPT ![e0] = [old[e0] EXCEPT ![r] = new]]
  BY DEF t
<1> HIDE DEF t, new
<1>9. /\ [old[e0] EXCEPT ![r] = new] \in Seq(RowType)
      /\ Len([old[e0] EXCEPT ![r] = new]) = Len(old[e0])
      /\ \A n \in 1..Len(old[e0]) :
           [old[e0] EXCEPT ![r] = new][n] = IF n = r THEN new ELSE old[e0][n]
  BY <1>2, <1>6, <1>7
<1>10. /\ t \in Table
       /\ \A e \in Entities : e # e0 => t[e] = old[e]
       /\ Len(t[e0]) = Len(old[e0])
       /\ \A n \in 1..Len(old[e0]) : t[e0][n] = IF n = r THEN new ELSE old[e0][n]
  BY <1>2, <1>5, <1>8, <1>9 DEF Table
<1>11. t[e0][r] = new /\ links \in SUBSET (Of(1) \X Nat)
  BY <1>2, <1>7, <1>10 DEF RowType
<1> HIDE DEF links
<1>12. /\ u \in Table
       /\ \A e \in Entities :
            /\ Len(u[e]) = Len(t[e])
            /\ \A n \in 1..Len(t[e]) :
                 /\ u[e][n].parent = t[e][n].parent
                 /\ e \notin Of(1) => u[e][n] = t[e][n]
  BY <1>1, <1>10, <1>11, RecomputeKeeps
<1> HIDE DEF u
<1>13. rows' \in [Slugs -> Table] /\ rows'[p] = u /\ \A q \in Slugs : q # p => rows'[q] = rows[q]
  BY <1>1, <1>2, <1>4, <1>12
<1>14. ASSUME NEW e \in Entities
       PROVE  /\ Len(u[e]) = Len(old[e])
              /\ \A n \in 1..Len(old[e]) :
                   /\ u[e][n].parent = old[e][n].parent
                   /\ e \notin Of(1) /\ (e # e0 \/ n # r) => u[e][n] = old[e][n]
  <2>1. CASE e = e0
    BY <1>7, <1>10, <1>12, <2>1
  <2>2. CASE e # e0
    BY <1>10, <1>12, <2>2
  <2> QED
    BY <2>1, <2>2
<1>15. u[e0][r].status = s
  <2>1. e0 \notin Of(1)
    <3>1. e0[1] = Kinds[2] /\ (e0 \in Of(1) => e0[1] = Kinds[1]) /\ Kinds[1] # Kinds[2]
      BY <1>1, <1>2, EntityPlaces
    <3> QED
      BY <3>1
  <2> QED
    BY <1>2, <1>7, <1>10, <1>11, <1>12, <2>1
<1>16. ASSUME NEW q \in Slugs, NEW e \in Entities
       PROVE  /\ Len(rows'[q][e]) = Len(rows[q][e])
              /\ \A n \in 1..Len(rows[q][e]) :
                   /\ rows'[q][e][n].parent = rows[q][e][n].parent
                   /\ (e \notin Of(1) /\ (q # p \/ e # e0 \/ n # r))
                        => rows'[q][e][n] = rows[q][e][n]
  <2>1. CASE q = p
    BY <1>13, <1>14, <2>1 DEF old
  <2>2. CASE q # p
    BY <1>13, <2>2
  <2> QED
    BY <2>1, <2>2
<1> QED
  BY <1>13, <1>15, <1>16 DEF p, e0, r, s

\* The second pass writes parents, and of components only.
LEMMA LinkEffect ==
    ASSUME Base, NEW w \in Workers, LinkParent(w)
    PROVE  /\ rows' \in [Slugs -> Table]
           /\ \A p \in Slugs, e \in Entities :
                /\ Len(rows'[p][e]) = Len(rows[p][e])
                /\ e \notin Of(1) => rows'[p][e] = rows[p][e]
                /\ \A n \in 1..Len(rows[p][e]) :
                     rows'[p][e][n].parent =
                       IF /\ ParentOf(w) # 0 /\ p = Page(w) /\ e = Entity(w)
                          /\ n = worker[w].comp[Entity(w)]
                       THEN ParentOf(w) ELSE rows[p][e][n].parent
<1> DEFINE p == Page(w)
           e0 == Entity(w)
           r == worker[w].comp[e0]
           parent == ParentOf(w)
           old == rows[p]
           new == [old[e0][r] EXCEPT !.parent = parent]
           t == [old EXCEPT ![e0] = [old[e0] EXCEPT ![r] = new]]
<1>0. worker[w].pc = "parents" /\ worker[w].kind = 1
  BY DEF LinkParent, Works, Base, RunsOK, RunOK
<1>1. rows \in [Slugs -> Table]
  BY DEF Base, TypeOK, Table
<1>2. p \in Slugs /\ e0 \in Entities /\ e0 \in Of(1) /\ parent \in Nat
  <2>1. worker[w].comp \in [Of(1) -> Nat]
    BY DEF Base, TypeOK, RunType
  <2> QED
    BY <1>0, <2>1, ItemTypes DEF ParentOf
<1>3. CASE parent = 0
  <2>1. rows' = rows
    BY <1>3 DEF LinkParent
  <2> QED
    BY <1>1, <1>3, <2>1
<1>4. CASE parent # 0
  <2>1. rows' = [rows EXCEPT ![p] = t]
    BY <1>4 DEF LinkParent
  <2>2. old \in Table
    BY <1>1, <1>2
  <2> HIDE DEF p, e0, r, old, parent
  <2>3. old[e0] \in Seq(RowType)
    BY <1>2, <2>2 DEF Table
  <2>4. r \in 1..Len(old[e0]) => new \in RowType /\ new.parent = parent
    <3>1. r \in 1..Len(old[e0]) => old[e0][r] \in RowType
      BY <2>3
    <3> QED
      BY <1>2, <3>1 DEF RowType
  <2> HIDE DEF new
  <2>5. /\ [old[e0] EXCEPT ![r] = new] \in Seq(RowType)
        /\ Len([old[e0] EXCEPT ![r] = new]) = Len(old[e0])
        /\ \A n \in 1..Len(old[e0]) :
             [old[e0] EXCEPT ![r] = new][n] = IF n = r THEN new ELSE old[e0][n]
    <3>1. CASE r \in 1..Len(old[e0])
      BY <2>3, <2>4, <3>1
    <3>2. CASE r \notin 1..Len(old[e0])
      <4>1. DOMAIN old[e0] = 1..Len(old[e0]) /\ old[e0] = [n \in DOMAIN old[e0] |-> old[e0][n]]
        BY <2>3
      <4>2. [old[e0] EXCEPT ![r] = new] = old[e0]
        BY <3>2, <4>1
      <4> QED
        BY <2>3, <3>2, <4>2
    <3> QED
      BY <3>1, <3>2
  <2>6. /\ t \in Table
        /\ \A e \in Entities : e # e0 => t[e] = old[e]
        /\ Len(t[e0]) = Len(old[e0])
        /\ \A n \in 1..Len(old[e0]) : t[e0][n] = IF n = r THEN new ELSE old[e0][n]
    BY <1>2, <2>2, <2>5 DEF Table
  <2> HIDE DEF t
  <2>7. rows' \in [Slugs -> Table] /\ rows'[p] = t /\ \A q \in Slugs : q # p => rows'[q] = rows[q]
    BY <1>1, <1>2, <2>1, <2>6
  <2>8. ASSUME NEW q \in Slugs, NEW e \in Entities
        PROVE  /\ Len(rows'[q][e]) = Len(rows[q][e])
               /\ e \notin Of(1) => rows'[q][e] = rows[q][e]
               /\ \A n \in 1..Len(rows[q][e]) :
                    rows'[q][e][n].parent =
                      IF parent # 0 /\ q = p /\ e = e0 /\ n = r
                      THEN parent ELSE rows[q][e][n].parent
    <3>1. CASE q = p /\ e = e0
      BY <1>2, <1>4, <2>4, <2>6, <2>7, <3>1 DEF old
    <3>2. CASE q = p /\ e # e0
      BY <2>6, <2>7, <3>2 DEF old
    <3>3. CASE q # p
      BY <2>7, <3>3
    <3> QED
      BY <3>1, <3>2, <3>3
  <2> QED
    BY <2>7, <2>8 DEF p, e0, r, parent
<1> QED
  BY <1>3, <1>4
-----------------------------------------------------------------------------
(* Runs and rows that are left alone.                                      *)

RunAt(w) ==
    /\ RunOK(worker[w])
    /\ worker[w].pc # "idle" =>
         /\ job[worker[w].id].status # "none"
         /\ Page(w) = job[worker[w].id].page
    /\ worker[w].pc \in {"replay", "map"} =>
         worker[w].row \in 1..Len(rows[Page(w)][Entity(w)])

LEMMA NoRunOK ==
    ASSUME source \in Sources
    PROVE  RunOK(NoRun) /\ NoRun.pc = "idle" /\ NoJob \in JobType /\ NoJob.status = "none"
<1>1. 0 \in Slugs
  BY ImporterConstants DEF Slugs
<1>2. NoJob \in JobType /\ NoJob.status = "none"
  BY <1>1 DEF NoJob, JobType
<1>3. NoRun \in RunType
  <2>1. [e \in Of(1) |-> 0] \in [Of(1) -> Nat]
    OBVIOUS
  <2>2. NothingUnsaid \in UnsaidType
    BY DEF NothingUnsaid, UnsaidType
  <2> QED
    BY <1>2, <2>1, <2>2 DEF NoRun, RunType
<1>4. NoRun.pc = "idle"
  BY DEF NoRun
<1> QED
  BY <1>2, <1>3, <1>4 DEF RunOK

LEMMA BaseInit == Init => Base
<1> SUFFICES ASSUME Init PROVE Base
  OBVIOUS
<1>1. source \in Sources /\ owned = {} /\ job = [j \in Jobs |-> NoJob]
      /\ api = [j \in Jobs |-> "none"] /\ queue = {} /\ worker = [w \in Workers |-> NoRun]
      /\ faults = 0 /\ swallowed = {} /\ raced = {}
      /\ unsaid = [j \in Jobs |-> NothingUnsaid]
  BY DEF Init
<1>2. rows = [p \in Slugs |-> [e \in Entities |-> <<>>]]
      /\ map = [p \in Slugs |-> [e \in Entities |-> 0]]
  BY DEF Init
<1>3. RunOK(NoRun) /\ NoRun.pc = "idle" /\ NoRun \in RunType
      /\ NoJob \in JobType /\ NoJob.status = "none"
  BY <1>1, NoRunOK DEF RunOK
<1>4. rows \in [Slugs -> [Entities -> Seq(RowType)]]
  BY <1>2
<1>5. map \in [Slugs -> [Entities -> Nat]]
      /\ \A p \in Slugs, e \in Entities : map[p][e] <= Len(rows[p][e])
  BY <1>2
<1>6. TypeOK
  <2>1. 0 \in 0..MaxFaults
    BY ImporterConstants
  <2>2. NothingUnsaid \in UnsaidType
    BY DEF NothingUnsaid, UnsaidType
  <2> QED
    BY <1>1, <1>3, <1>4, <1>5, <2>1, <2>2 DEF TypeOK
<1>7. JobsOK
  BY <1>1, <1>3 DEF JobsOK
<1>8. RunsOK
  BY <1>1, <1>3 DEF RunsOK
<1> QED
  BY <1>6, <1>7, <1>8 DEF Base

\* A run nothing happens to.
LEMMA RunAtKept ==
    ASSUME Base, UNCHANGED source, NEW w \in Workers, worker'[w] = worker[w],
           \A j \in Jobs : job[j].status # "none" =>
              job'[j].status # "none" /\ job'[j].page = job[j].page,
           \A p \in Slugs, e \in Entities :
              Len(rows[p][e]) \in Nat /\ Len(rows'[p][e]) \in Nat
                /\ Len(rows[p][e]) <= Len(rows'[p][e])
    PROVE  RunAt(w)'
<1>1. Feed' = Feed /\ RunType' = RunType
  BY SameSource
<1>2. RunOK(worker[w])'
  BY <1>1 DEF Base, RunsOK, RunOK
<1>3. ASSUME worker[w].pc # "idle"
      PROVE  job'[worker[w].id].status # "none" /\ Page(w) = job'[worker[w].id].page
  BY <1>3 DEF Base, RunsOK, RunOK
<1>4. Page(w)' = Page(w) /\ Entity(w)' = Entity(w)
  BY <1>1 DEF Page, Entity, Item
<1>5. ASSUME worker[w].pc \in {"replay", "map"}
      PROVE  worker[w].row \in 1..Len(rows'[Page(w)][Entity(w)])
  <2>1. Page(w) \in Slugs /\ Entity(w) \in Entities
    BY <1>5, ItemTypes
  <2>2. worker[w].row \in 1..Len(rows[Page(w)][Entity(w)])
    BY <1>5 DEF Base, RunsOK
  <2> QED
    BY <2>1, <2>2
<1> QED
  BY <1>2, <1>3, <1>4, <1>5 DEF RunAt, RunOK

\* The lengths of the sequences of rows.
LEMMA RowCounts ==
    ASSUME Base
    PROVE  \A p \in Slugs, e \in Entities : Len(rows[p][e]) \in Nat
BY DEF Base, TypeOK
-----------------------------------------------------------------------------
(* What a step of a run does, whichever it is.                             *)

CleanRun(run) == ~run.errors /\ ~run.failed

\* What was passed over in silence is not forgotten.
Remembers(run, next) ==
    /\ run.unsaid.skipped \subseteq next.unsaid.skipped
    /\ run.unsaid.loose \subseteq next.unsaid.loose

\* Has, for any rows and mappings.
HasIn(m, r, p, e) ==
    \/ m[p][e] # 0
    \/ \E i \in 1..Len(Feed[4]) :
         /\ e = <<"subscriber", Feed[4][i].ext>>
         /\ \E n \in 1..Len(Feed[4]) : /\ Feed[4][n].email = Feed[4][i].email
                                       /\ r[p][<<"subscriber", Feed[4][n].ext>>] # <<>>

\* The run goes on with its job.
Onward(w) ==
    /\ worker[w].pc # "idle" /\ worker'[w].pc # "idle"
    /\ worker' = [worker EXCEPT ![w] = worker'[w]]
    /\ RunOK(worker'[w]) /\ Remembers(worker[w], worker'[w])
    /\ worker'[w].job = worker[w].job /\ worker'[w].id = worker[w].id
    /\ UNCHANGED <<job, queue, restVars, swallowed>>
    /\ faults' \in 0..MaxFaults

\* It passes an entity when the page has it, or else notes that it does not,
\* in its report or in the history of what it kept to itself.
Honest(w) ==
    CleanRun(worker'[w]) =>
      /\ CleanRun(worker[w])
      /\ \A k \in 1..4 : \A i \in 1..Len(Feed[k]) :
           Reached(worker'[w], k, i) =>
             \/ Reached(worker[w], k, i)
             \/ /\ k = worker[w].kind /\ i = worker[w].pos
                /\ \/ HasIn(map', rows', Page(w), Entity(w))
                   \/ Entity(w) \in worker'[w].unsaid.skipped
                /\ k = 1 => worker'[w].comp[Entity(w)] # 0
      /\ \A i \in 1..Len(Feed[1]) :
           ParentReached(worker'[w], i) =>
             \/ ParentReached(worker[w], i)
             \/ /\ worker[w].pc = "parents" /\ i = worker[w].pos
                /\ \/ ParentOf(w) = 0
                   \/ Entity(w) \in worker'[w].unsaid.loose
                   \/ LET n == worker[w].comp[Entity(w)] IN
                      n \in 1..Len(rows[Page(w)][Entity(w)]) =>
                        rows'[Page(w)][Entity(w)][n].parent = ParentOf(w)

\* Rows are only added; those of others are left alone.
Stores(w) ==
    /\ rows' \in [Slugs -> Table]
    /\ \A p \in Slugs, e \in Entities :
         /\ Len(rows[p][e]) <= Len(rows'[p][e])
         /\ p # Page(w) => Len(rows[p][e]) = Len(rows'[p][e])
         /\ \A n \in 1..Len(rows[p][e]) :
              /\ \/ e \in Of(1)
                 \/ rows'[p][e][n] = rows[p][e][n]
                 \/ /\ worker[w].pc = "replay"
                    /\ p = Page(w) /\ e = Entity(w) /\ n = worker[w].row
              /\ \/ rows'[p][e][n].parent = rows[p][e][n].parent
                 \/ /\ worker[w].pc = "parents" /\ ParentOf(w) # 0
                    /\ p = Page(w) /\ e = Entity(w) /\ n = worker[w].comp[e]
                    /\ rows'[p][e][n].parent = ParentOf(w)

\* What is mapped is the row the run created and has brought up to date.
Maps(w) ==
    /\ map' = map
       \/ /\ worker[w].pc = "map" /\ worker'[w].pc \notin {"create", "replay", "map"}
          /\ map' = [map EXCEPT ![Page(w)][Entity(w)] = worker[w].row]
    /\ worker'[w].pc \in {"create", "replay", "map"} =>
         /\ map' = map
         /\ worker'[w].kind = worker[w].kind /\ worker'[w].pos = worker[w].pos
    /\ worker'[w].pc \in {"replay", "map"} =>
         \/ /\ worker[w].pc = "create"
            /\ worker'[w].row = Len(rows[Page(w)][Entity(w)]) + 1
            /\ Len(rows'[Page(w)][Entity(w)]) = worker'[w].row
         \/ worker[w].pc \in {"replay", "map"} /\ worker'[w].row = worker[w].row
    /\ worker'[w].pc = "map" /\ worker[w].pc # "map" /\ worker[w].kind = 2 =>
         rows'[Page(w)][Entity(w)][worker'[w].row].status = FinalStatus(Item(w))
    /\ worker'[w].pc = "create" /\ worker[w].pc # "create" =>
         worker[w].job.mode = "update" \/ map[Page(w)][Entity(w)] = 0
    /\ worker'[w].pc \in {"replay", "map"} => worker[w].pc \in {"create", "replay", "map"}

\* What the run knows of the components it has from the map.
Learns(w) ==
    \/ worker'[w].comp = worker[w].comp /\ worker'[w].pending = worker[w].pending
    \/ /\ worker[w].kind = 1 /\ worker[w].pc \in {"lookup", "map"}
       /\ map'[Page(w)][Entity(w)] # 0
       /\ worker'[w].comp = [worker[w].comp EXCEPT ![Entity(w)] = map'[Page(w)][Entity(w)]]
       /\ worker'[w].pending = worker[w].pending \cup {Entity(w)}
    \/ worker[w].job.mode = "update"

Moves(w) == Onward(w) /\ Honest(w) /\ Stores(w) /\ Maps(w) /\ Learns(w)

LEMMA Context ==
    ASSUME Base, NEW w \in Workers
    PROVE  /\ source \in Sources /\ worker[w] \in RunType /\ RunOK(worker[w])
           /\ rows \in [Slugs -> Table] /\ map \in [Slugs -> [Entities -> Nat]]
           /\ faults \in 0..MaxFaults /\ MaxFaults \in Nat
           /\ worker \in [Workers -> RunType]
BY ImporterConstants DEF Base, TypeOK, RunsOK, Table

LEMMA FaultsCount ==
    ASSUME Base, NEW w \in Workers, Strike \/ UNCHANGED faults
    PROVE  faults' \in 0..MaxFaults
BY ImporterConstants DEF Base, TypeOK, Strike

LEMMA FailsCount ==
    ASSUME Base, NEW w \in Workers, NEW pc, Fails(w, pc)
    PROVE  worker[w].pc = pc /\ faults' \in 0..MaxFaults
BY FaultsCount DEF Fails

LEMMA GoesOn ==
    ASSUME Base, NEW w \in Workers, worker[w].pc # "idle", NEW run, Go(w, run),
           RunOK(run), run.pc # "idle", run.job = worker[w].job, run.id = worker[w].id,
           Remembers(worker[w], run), faults' \in 0..MaxFaults
    PROVE  worker'[w] = run /\ Onward(w)
<1>1. worker' = [worker EXCEPT ![w] = run]
  BY DEF Go
<1>2. worker'[w] = run
  BY <1>1, Context
<1> QED
  BY <1>1, <1>2 DEF Onward, Go

LEMMA NothingStored ==
    ASSUME Base, NEW w \in Workers, UNCHANGED rows
    PROVE  Stores(w)
BY Context, RowCounts DEF Stores

\* A step that writes nothing and learns nothing.
LEMMA QuietMove ==
    ASSUME Base, NEW w \in Workers, worker[w].pc # "idle", NEW run, Go(w, run),
           RunOK(run), run.pc \in {"fetch", "lookup", "parents", "finish"},
           run.job = worker[w].job, run.id = worker[w].id,
           run.comp = worker[w].comp, run.pending = worker[w].pending,
           Remembers(worker[w], run), faults' \in 0..MaxFaults, UNCHANGED map, Stores(w),
           CleanRun(run) =>
             /\ CleanRun(worker[w])
             /\ \A k \in 1..4 : \A i \in 1..Len(Feed[k]) :
                  Reached(run, k, i) =>
                    \/ Reached(worker[w], k, i)
                    \/ /\ k = worker[w].kind /\ i = worker[w].pos
                       /\ HasIn(map', rows', Page(w), Entity(w))
                       /\ k = 1 => run.comp[Entity(w)] # 0
             /\ \A i \in 1..Len(Feed[1]) :
                  ParentReached(run, i) =>
                    \/ ParentReached(worker[w], i)
                    \/ worker[w].pc = "parents" /\ i = worker[w].pos /\ ParentOf(w) = 0
    PROVE  Moves(w)
<1>1. worker'[w] = run /\ Onward(w)
  BY GoesOn
<1>3. Maps(w)
  BY <1>1 DEF Maps
<1>4. Learns(w)
  BY <1>1 DEF Learns
<1>5. Honest(w)
  BY <1>1 DEF Honest
<1> QED
  BY <1>1, <1>3, <1>4, <1>5 DEF Moves

LEMMA ReturnsFailed ==
    ASSUME NEW run \in RunType, run.id \in Jobs
    PROVE  /\ RunOK(Return(run)) /\ Return(run).pc = "finish" /\ ~CleanRun(Return(run))
           /\ Return(run).job = run.job /\ Return(run).id = run.id
           /\ Return(run).comp = run.comp /\ Return(run).pending = run.pending
           /\ Return(run).unsaid = run.unsaid
<1> DEFINE next == Return(run)
<1>1. next = [run EXCEPT !.pc = "finish", !.failed = TRUE]
  BY DEF Return
<1> HIDE DEF next
<1>2. next \in RunType
  BY <1>1 DEF RunType
<1>3. /\ next.pc = "finish" /\ next.failed = TRUE /\ next.job = run.job /\ next.id = run.id
      /\ next.comp = run.comp /\ next.pending = run.pending /\ next.unsaid = run.unsaid
  BY <1>1 DEF RunType
<1> QED
  BY <1>2, <1>3 DEF RunOK, CleanRun, next

\* A run that notes an error in its report.
LEMMA ReportedRun ==
    ASSUME NEW run \in RunType, NEW next, next = Report(run)
    PROVE  /\ next \in RunType /\ ~CleanRun(next)
           /\ next.pc = run.pc /\ next.kind = run.kind /\ next.pos = run.pos
           /\ next.job = run.job /\ next.id = run.id
           /\ next.comp = run.comp /\ next.pending = run.pending
           /\ next.unsaid = run.unsaid
<1>1. next = [run EXCEPT !.errors = TRUE]
  BY DEF Report
<1>2. next \in RunType
  BY <1>1 DEF RunType
<1>3. /\ next.pc = run.pc /\ next.kind = run.kind /\ next.pos = run.pos
      /\ next.job = run.job /\ next.id = run.id
      /\ next.comp = run.comp /\ next.pending = run.pending /\ next.errors = TRUE
      /\ next.unsaid = run.unsaid
  BY <1>1 DEF RunType
<1> QED
  BY <1>2, <1>3 DEF CleanRun

\* A run that gives up, and one that passes an entity with an error noted.
LEMMA FailedMove ==
    ASSUME Base, NEW w \in Workers, worker[w].pc # "idle", Go(w, Return(worker[w])),
           faults' \in 0..MaxFaults, UNCHANGED <<rows, map>>
    PROVE  Moves(w)
<1>1. worker[w] \in RunType /\ worker[w].id \in Jobs
  BY Context DEF RunOK
<1> QED
  BY <1>1, ReturnsFailed, NothingStored, QuietMove DEF Remembers

LEMMA ReportedMove ==
    ASSUME Base, NEW w \in Workers,
           worker[w].pc \in {"lookup", "create", "replay", "map", "parents"},
           NEW next, next = Report(worker[w]), Go(w, Advance(next)),
           faults' \in 0..MaxFaults, UNCHANGED map, Stores(w)
    PROVE  Moves(w)
<1>1. source \in Sources /\ worker[w] \in RunType /\ RunOK(worker[w]) /\ worker[w].id \in Jobs
  BY Context DEF RunOK
<1>2. /\ next \in RunType /\ ~CleanRun(next)
      /\ next.pc = worker[w].pc /\ next.kind = worker[w].kind /\ next.pos = worker[w].pos
      /\ next.job = worker[w].job /\ next.id = worker[w].id
      /\ next.comp = worker[w].comp /\ next.pending = worker[w].pending
      /\ next.unsaid = worker[w].unsaid
  BY <1>1, ReportedRun
<1>3. next.pos \in 1..Len(Feed[next.kind]) /\ (next.pc = "parents" => next.kind = 1)
  BY <1>1, <1>2 DEF RunOK
<1> DEFINE run == Advance(next)
<1>4. /\ RunOK(run) /\ Carries(next, run)
      /\ run.pc \in {"fetch", "lookup", "parents", "finish"}
  BY <1>1, <1>2, <1>3, NextEntity
<1> HIDE DEF run
<1>5. /\ ~CleanRun(run) /\ run.job = worker[w].job /\ run.id = worker[w].id
      /\ run.comp = worker[w].comp /\ run.pending = worker[w].pending
      /\ Remembers(worker[w], run)
  BY <1>2, <1>4 DEF CleanRun, Carries, Remembers
<1> QED
  BY <1>4, <1>5, QuietMove DEF run

LEMMA FetchMoves ==
    ASSUME Base, NEW w \in Workers, Fetch(w)
    PROVE  Moves(w)
<1> DEFINE old == worker[w]
<1>1. /\ source \in Sources /\ old \in RunType /\ RunOK(old) /\ old.id \in Jobs
      /\ old.pc = "fetch" /\ old.kind \in 1..4 /\ faults' \in 0..MaxFaults
      /\ UNCHANGED <<rows, map>>
  BY Context, FaultsCount DEF RunOK, Fetch, Works, RunType, dbVars
<1>2. Len(Feed[old.kind]) \in Nat
  BY <1>1, FeedTypes
<1>3. CASE Feed[old.kind] = <<>>
  <2> DEFINE run == EndOfKind(old)
  <2>1. Go(w, run)
    BY <1>3 DEF Fetch
  <2>2. /\ RunOK(run) /\ Carries(old, run)
        /\ run.pc \in {"fetch", "parents", "finish"}
        /\ \A k \in 1..4 : \A i \in 1..Len(Feed[k]) :
             Reached(run, k, i) => Reached(old, k, i) \/ k = old.kind
        /\ \A i \in 1..Len(Feed[1]) : ParentReached(run, i) => old.kind > 1 \/ old.pc = "parents"
    BY <1>1, NextKind
  <2> HIDE DEF run
  <2>3. 1..Len(Feed[old.kind]) = {}
    BY <1>3
  <2>4. CleanRun(run) => CleanRun(old)
    BY <2>2 DEF Carries, CleanRun
  <2>5. ASSUME NEW k \in 1..4, NEW i \in 1..Len(Feed[k]), Reached(run, k, i)
        PROVE  Reached(old, k, i)
    BY <2>2, <2>3, <2>5
  <2>6. ASSUME NEW i \in 1..Len(Feed[1]), ParentReached(run, i)
        PROVE  ParentReached(old, i)
    BY <1>1, <2>2, <2>6 DEF ParentReached
  <2> QED
    BY <1>1, <2>1, <2>2, <2>4, <2>5, <2>6, QuietMove, NothingStored DEF Carries, Remembers
<1>4. CASE Feed[old.kind] # <<>>
  <2> DEFINE run == [old EXCEPT !.pc = "lookup", !.pos = 1]
  <2>1. Go(w, run)
    BY <1>4 DEF Fetch
  <2>2. run \in RunType
    BY <1>1 DEF RunType
  <2>3. /\ Carries(old, run) /\ run.pc = "lookup" /\ run.kind = old.kind /\ run.pos = 1
    BY <1>1 DEF RunType, Carries
  <2> HIDE DEF run
  <2>4. 1 \in 1..Len(Feed[old.kind])
    <3>1. \E S : Feed[old.kind] \in Seq(S)
      <4>1. old.kind = 1 \/ old.kind = 2 \/ old.kind = 3 \/ old.kind = 4
        BY <1>1
      <4> QED
        BY <1>1, <4>1, FeedTypes
    <3> QED
      BY <1>4, <3>1
  <2>5. RunOK(run)
    BY <1>1, <2>2, <2>3, <2>4 DEF RunOK, Carries
  <2>6. CleanRun(run) => CleanRun(old)
    BY <2>3 DEF Carries, CleanRun
  <2>7. ASSUME NEW k \in 1..4, NEW i \in 1..Len(Feed[k]), Reached(run, k, i)
        PROVE  Reached(old, k, i)
    BY <1>1, <2>3, <2>7 DEF Reached
  <2>8. ASSUME NEW i \in 1..Len(Feed[1]), ParentReached(run, i)
        PROVE  ParentReached(old, i)
    BY <1>1, <2>3, <2>8 DEF ParentReached
  <2> QED
    BY <1>1, <2>1, <2>3, <2>5, <2>6, <2>7, <2>8, QuietMove, NothingStored DEF Carries, Remembers
<1> QED
  BY <1>3, <1>4

LEMMA FetchFailsMoves ==
    ASSUME Base, NEW w \in Workers, FetchFails(w)
    PROVE  Moves(w)
<1> DEFINE old == worker[w]
<1>1. /\ source \in Sources /\ old \in RunType /\ old.id \in Jobs
      /\ old.pc = "fetch" /\ faults' \in 0..MaxFaults /\ UNCHANGED <<rows, map>>
  BY Context, FailsCount DEF RunOK, FetchFails, dbVars
<1>2. CASE old.kind = 1
  BY <1>1, <1>2, FailedMove DEF FetchFails
<1>3. CASE old.kind # 1
  <2> DEFINE run == EndOfKind(Report(old))
  <2>1. Go(w, run)
    BY <1>3 DEF FetchFails
  <2>2. /\ Report(old) \in RunType /\ ~CleanRun(Report(old)) /\ Report(old).kind = old.kind
        /\ Report(old).job = old.job /\ Report(old).id = old.id
        /\ Report(old).comp = old.comp /\ Report(old).pending = old.pending
        /\ Report(old).unsaid = old.unsaid
    BY <1>1, ReportedRun
  <2>3. RunOK(run) /\ Carries(Report(old), run) /\ run.pc \in {"fetch", "parents", "finish"}
    BY <1>1, <2>2, NextKind
  <2> HIDE DEF run
  <2>4. ~CleanRun(run)
    BY <2>2, <2>3 DEF CleanRun, Carries
  <2> QED
    BY <1>1, <2>1, <2>2, <2>3, <2>4, QuietMove, NothingStored DEF Carries, Remembers
<1> QED
  BY <1>2, <1>3

LEMMA ExternalMappingFailsMoves ==
    ASSUME Base, NEW w \in Workers, ExternalMappingFails(w)
    PROVE  Moves(w)
BY FailedMove, FailsCount DEF ExternalMappingFails, dbVars

LEMMA AddIncidentUpdateFailsMoves ==
    ASSUME Base, NEW w \in Workers, AddIncidentUpdateFails(w)
    PROVE  Moves(w)
<1>1. worker[w].pc = "replay" /\ faults' \in 0..MaxFaults /\ UNCHANGED <<rows, map>>
  BY FailsCount DEF AddIncidentUpdateFails, dbVars
<1>2. Go(w, Advance(Report(worker[w])))
  BY DEF AddIncidentUpdateFails
<1> QED
  BY <1>1, <1>2, ReportedMove, NothingStored

LEMMA SetExternalMappingFailsMoves ==
    ASSUME Base, NEW w \in Workers, SetExternalMappingFails(w)
    PROVE  Moves(w)
<1>1. worker[w].pc = "map" /\ faults' \in 0..MaxFaults /\ UNCHANGED <<rows, map>>
  BY FailsCount DEF SetExternalMappingFails, dbVars
<1>2. CASE worker[w].kind \in {1, 4}
  BY <1>1, <1>2, FailedMove DEF SetExternalMappingFails
<1>3. CASE worker[w].kind \notin {1, 4}
  <2>1. Go(w, Advance(Report(worker[w])))
    BY <1>3 DEF SetExternalMappingFails
  <2> QED
    BY <1>1, <2>1, ReportedMove, NothingStored
<1> QED
  BY <1>2, <1>3

\* A run that passes an entity, with what it has learnt of it.
Learned(run, next) ==
    /\ next \in RunType
    /\ next.pc = run.pc /\ next.kind = run.kind /\ next.pos = run.pos
    /\ next.job = run.job /\ next.id = run.id
    /\ next.errors = run.errors /\ next.failed = run.failed
    /\ Remembers(run, next)

LEMMA PassedRun ==
    ASSUME Base, NEW w \in Workers,
           worker[w].pc \in {"lookup", "create", "replay", "map", "parents"},
           NEW next, Learned(worker[w], next), Go(w, Advance(next)), faults' \in 0..MaxFaults
    PROVE  /\ Onward(w)
           /\ worker'[w].pc \in {"fetch", "lookup", "parents", "finish"}
           /\ worker'[w].comp = next.comp /\ worker'[w].pending = next.pending
           /\ worker'[w].unsaid = next.unsaid
           /\ CleanRun(worker'[w]) => CleanRun(worker[w])
           /\ \A k \in 1..4 : \A i \in 1..Len(Feed[k]) :
                Reached(worker'[w], k, i) =>
                  Reached(worker[w], k, i) \/ (k = worker[w].kind /\ i = worker[w].pos)
           /\ \A i \in 1..Len(Feed[1]) :
                ParentReached(worker'[w], i) =>
                  ParentReached(worker[w], i) \/ (worker[w].pc = "parents" /\ i = worker[w].pos)
<1> DEFINE old == worker[w]
           run == Advance(next)
<1>1. source \in Sources /\ old \in RunType /\ RunOK(old) /\ old.id \in Jobs
  BY Context DEF RunOK
<1>2. /\ next \in RunType /\ next.pc = old.pc /\ next.kind = old.kind /\ next.pos = old.pos
      /\ next.job = old.job /\ next.id = old.id
      /\ next.errors = old.errors /\ next.failed = old.failed /\ Remembers(old, next)
  BY DEF Learned
<1>3. next.pos \in 1..Len(Feed[next.kind]) /\ (next.pc = "parents" => next.kind = 1)
  BY <1>1, <1>2 DEF RunOK
<1>4. /\ RunOK(run) /\ Carries(next, run)
      /\ run.pc \in {"fetch", "lookup", "parents", "finish"}
      /\ \A k \in 1..4 : \A i \in 1..Len(Feed[k]) :
           Reached(run, k, i) => Reached(next, k, i) \/ (k = next.kind /\ i = next.pos)
      /\ \A i \in 1..Len(Feed[1]) :
           ParentReached(run, i) =>
             ParentReached(next, i) \/ (next.pc = "parents" /\ i = next.pos)
  BY <1>1, <1>2, <1>3, NextEntity
<1> HIDE DEF run
<1>5. worker'[w] = run /\ Onward(w)
  <2>1. /\ Go(w, run) /\ run.pc # "idle" /\ run.job = old.job /\ run.id = old.id
        /\ Remembers(old, run)
    BY <1>2, <1>4 DEF Carries, Remembers, run
  <2> QED
    BY <1>4, <2>1, GoesOn
<1>6. ASSUME NEW k \in 1..4, NEW i \in 1..Len(Feed[k]) PROVE Reached(next, k, i) => Reached(old, k, i)
  BY <1>2 DEF Reached
<1>7. ASSUME NEW i \in 1..Len(Feed[1]) PROVE ParentReached(next, i) => ParentReached(old, i)
  BY <1>2 DEF ParentReached
<1>8. CleanRun(run) => CleanRun(old)
  BY <1>2, <1>4 DEF Carries, CleanRun
<1> QED
  BY <1>2, <1>4, <1>5, <1>6, <1>7, <1>8 DEF Carries

LEMMA SameIsLearned ==
    ASSUME Base, NEW w \in Workers
    PROVE  Learned(worker[w], worker[w])
BY Context DEF Learned, Remembers

Learn(run, e, n) == [run EXCEPT !.comp[e] = n, !.pending = @ \cup {e}]

LEMMA ComponentLearned ==
    ASSUME Base, NEW w \in Workers, NEW e \in Of(1), NEW n \in Nat
    PROVE  LET next == Learn(worker[w], e, n) IN
           /\ Learned(worker[w], next)
           /\ next.comp = [worker[w].comp EXCEPT ![e] = n] /\ next.comp[e] = n
           /\ next.pending = worker[w].pending \cup {e}
<1> DEFINE next == Learn(worker[w], e, n)
<1>1. worker[w] \in RunType
  BY Context
<1>2. [worker[w].comp EXCEPT ![e] = n] \in [Of(1) -> Nat]
      /\ worker[w].pending \cup {e} \in SUBSET Of(1)
      /\ [worker[w].comp EXCEPT ![e] = n][e] = n
  BY <1>1 DEF RunType
<1>3. next = [worker[w] EXCEPT !.comp = [worker[w].comp EXCEPT ![e] = n],
                               !.pending = worker[w].pending \cup {e}]
  BY <1>1 DEF RunType, Learn
<1> HIDE DEF next
<1> DEFINE c == [worker[w].comp EXCEPT ![e] = n]
           d == worker[w].pending \cup {e}
<1> HIDE DEF c, d
<1>4. next = [worker[w] EXCEPT !.comp = c, !.pending = d]
  BY <1>3 DEF c, d
<1>5. c \in [Of(1) -> Nat] /\ d \in SUBSET Of(1)
  BY <1>2 DEF c, d
<1>6. next \in RunType
  BY <1>1, <1>4, <1>5 DEF RunType
<1>7. /\ next.pc = worker[w].pc /\ next.kind = worker[w].kind /\ next.pos = worker[w].pos
      /\ next.job = worker[w].job /\ next.id = worker[w].id
      /\ next.errors = worker[w].errors /\ next.unsaid = worker[w].unsaid
      /\ next.failed = worker[w].failed /\ next.comp = c /\ next.pending = d
  BY <1>1, <1>4 DEF RunType
<1> QED
  BY <1>2, <1>6, <1>7 DEF Learned, Remembers, c, d, next

\* A run that passes over a subscriber, or a component's parent, in silence.
Skip(run, e) == [run EXCEPT !.unsaid.skipped = @ \cup {e}]
Loosen(run, e) == [run EXCEPT !.unsaid.loose = @ \cup {e}]

LEMMA UnsaidLearned ==
    ASSUME Base, NEW w \in Workers, NEW u \in UnsaidType, NEW next,
           next = [worker[w] EXCEPT !.unsaid = u],
           worker[w].unsaid.skipped \subseteq u.skipped,
           worker[w].unsaid.loose \subseteq u.loose
    PROVE  /\ Learned(worker[w], next) /\ next.unsaid = u
           /\ next.comp = worker[w].comp /\ next.pending = worker[w].pending
<1>1. worker[w] \in RunType
  BY Context
<1>2. next \in RunType
  BY <1>1 DEF RunType
<1>3. /\ next.pc = worker[w].pc /\ next.kind = worker[w].kind /\ next.pos = worker[w].pos
      /\ next.job = worker[w].job /\ next.id = worker[w].id
      /\ next.errors = worker[w].errors /\ next.failed = worker[w].failed /\ next.unsaid = u
      /\ next.comp = worker[w].comp /\ next.pending = worker[w].pending
  BY <1>1 DEF RunType
<1> QED
  BY <1>2, <1>3 DEF Learned, Remembers

LEMMA SkippedRun ==
    ASSUME Base, NEW w \in Workers, NEW e \in Of(4)
    PROVE  LET next == Skip(worker[w], e) IN
           /\ Learned(worker[w], next) /\ e \in next.unsaid.skipped
           /\ next.comp = worker[w].comp /\ next.pending = worker[w].pending
<1> DEFINE next == Skip(worker[w], e)
           u == [worker[w].unsaid EXCEPT !.skipped = @ \cup {e}]
<1>1. worker[w] \in RunType
  BY Context
<1>2. worker[w].unsaid \in UnsaidType
  BY <1>1 DEF RunType
<1>3. /\ u \in UnsaidType /\ e \in u.skipped
      /\ worker[w].unsaid.skipped \subseteq u.skipped /\ worker[w].unsaid.loose \subseteq u.loose
  BY <1>2 DEF UnsaidType
<1>4. next = [worker[w] EXCEPT !.unsaid = u]
  BY <1>1 DEF Skip, RunType
<1> HIDE DEF next, u
<1> QED
  BY <1>3, <1>4, UnsaidLearned DEF next

LEMMA LoosenedRun ==
    ASSUME Base, NEW w \in Workers, NEW e \in Of(1)
    PROVE  LET next == Loosen(worker[w], e) IN
           /\ Learned(worker[w], next) /\ e \in next.unsaid.loose
           /\ next.comp = worker[w].comp /\ next.pending = worker[w].pending
<1> DEFINE next == Loosen(worker[w], e)
           u == [worker[w].unsaid EXCEPT !.loose = @ \cup {e}]
<1>1. worker[w] \in RunType
  BY Context
<1>2. worker[w].unsaid \in UnsaidType
  BY <1>1 DEF RunType
<1>3. /\ u \in UnsaidType /\ e \in u.loose
      /\ worker[w].unsaid.skipped \subseteq u.skipped /\ worker[w].unsaid.loose \subseteq u.loose
  BY <1>2 DEF UnsaidType
<1>4. next = [worker[w] EXCEPT !.unsaid = u]
  BY <1>1 DEF Loosen, RunType
<1> HIDE DEF next, u
<1> QED
  BY <1>3, <1>4, UnsaidLearned DEF next

LEMMA LinkParentFailsMoves ==
    ASSUME Base, NEW w \in Workers, LinkParentFails(w)
    PROVE  Moves(w)
<1>1. /\ worker[w].pc = "parents" /\ faults' \in 0..MaxFaults /\ UNCHANGED <<rows, map>>
      /\ worker[w].kind = 1
  BY FailsCount DEF LinkParentFails, dbVars, Base, RunsOK, RunOK
<1> DEFINE next == Loosen(worker[w], Entity(w))
<1>2. Entity(w) \in Of(1) /\ Go(w, Advance(next))
  BY <1>1, ItemTypes DEF LinkParentFails, Loosen
<1>3. /\ Learned(worker[w], next) /\ Entity(w) \in next.unsaid.loose
      /\ next.comp = worker[w].comp /\ next.pending = worker[w].pending
  BY <1>2, LoosenedRun
<1> HIDE DEF next
<1>4. /\ Onward(w)
      /\ worker'[w].pc \in {"fetch", "lookup", "parents", "finish"}
      /\ worker'[w].comp = worker[w].comp /\ worker'[w].pending = worker[w].pending
      /\ worker'[w].unsaid = next.unsaid
      /\ CleanRun(worker'[w]) => CleanRun(worker[w])
      /\ \A k \in 1..4 : \A i \in 1..Len(Feed[k]) :
           Reached(worker'[w], k, i) =>
             Reached(worker[w], k, i) \/ (k = worker[w].kind /\ i = worker[w].pos)
      /\ \A i \in 1..Len(Feed[1]) :
           ParentReached(worker'[w], i) =>
             ParentReached(worker[w], i) \/ (worker[w].pc = "parents" /\ i = worker[w].pos)
  BY <1>1, <1>2, <1>3, PassedRun
<1>5. ASSUME NEW k \in 1..4, NEW i \in 1..Len(Feed[k]), k = worker[w].kind
      PROVE  Reached(worker[w], k, i)
  BY <1>1, <1>5 DEF Reached
<1>6. Stores(w)
  BY <1>1, NothingStored
<1>7. Maps(w)
  BY <1>1, <1>4 DEF Maps
<1>8. Learns(w)
  BY <1>4 DEF Learns
<1>9. Honest(w)
  BY <1>1, <1>3, <1>4, <1>5 DEF Honest
<1> QED
  BY <1>4, <1>6, <1>7, <1>8, <1>9 DEF Moves

\* A run that is about to create a row.
LEMMA CreatesNext ==
    ASSUME Base, NEW w \in Workers, worker[w].pc = "lookup", NEW run,
           NEW c \in [Of(1) -> Nat],
           run = [worker[w] EXCEPT !.pc = "create", !.comp = c, !.pending = worker[w].pending],
           Go(w, run), faults' \in 0..MaxFaults, UNCHANGED <<rows, map>>,
           worker[w].job.mode = "update" \/ map[Page(w)][Entity(w)] = 0,
           c = worker[w].comp \/ worker[w].job.mode = "update"
    PROVE  Moves(w)
<1> DEFINE old == worker[w]
<1>1. old \in RunType /\ RunOK(old) /\ old.id \in Jobs
  BY Context DEF RunOK
<1>2. run \in RunType
  BY <1>1 DEF RunType
<1>3. /\ run.pc = "create" /\ run.kind = old.kind /\ run.pos = old.pos
      /\ run.job = old.job /\ run.id = old.id
      /\ run.errors = old.errors /\ run.unsaid = old.unsaid /\ run.failed = old.failed
      /\ run.comp = c /\ run.pending = old.pending
  BY <1>1 DEF RunType
<1>4. RunOK(run)
  BY <1>1, <1>2, <1>3 DEF RunOK
<1>5. worker'[w] = run /\ Onward(w)
  BY <1>3, <1>4, GoesOn DEF Remembers
<1>6. Stores(w)
  BY NothingStored
<1>7. Maps(w)
  BY <1>3, <1>5 DEF Maps
<1>8. Learns(w)
  BY <1>3, <1>5 DEF Learns
<1>9. Honest(w)
  <2>1. CleanRun(run) => CleanRun(old)
    BY <1>3 DEF CleanRun
  <2>2. ASSUME NEW k \in 1..4, NEW i \in 1..Len(Feed[k]), Reached(run, k, i)
        PROVE  Reached(old, k, i)
    BY <1>3, <2>2 DEF Reached
  <2>3. ASSUME NEW i \in 1..Len(Feed[1]), ParentReached(run, i)
        PROVE  ParentReached(old, i)
    BY <1>3, <2>3 DEF ParentReached
  <2> QED
    BY <1>5, <2>1, <2>2, <2>3 DEF Honest
<1> QED
  BY <1>5, <1>6, <1>7, <1>8, <1>9 DEF Moves

LEMMA ExternalMappingMoves ==
    ASSUME Base, NEW w \in Workers, ExternalMapping(w)
    PROVE  Moves(w)
<1> DEFINE old == worker[w]
           e == Entity(w)
           m == map[Page(w)][e]
           known == IF old.kind = 1 /\ m # 0
                    THEN [old EXCEPT !.comp[e] = m, !.pending = @ \cup {e}]
                    ELSE old
<1>1. /\ source \in Sources /\ old \in RunType /\ old.pc = "lookup" /\ faults' \in 0..MaxFaults
      /\ UNCHANGED <<rows, map>>
  BY Context, FaultsCount DEF ExternalMapping, Works, dbVars
<1>2. /\ Page(w) \in Slugs /\ e \in Entities /\ (old.kind = 1 => e \in Of(1)) /\ m \in Nat
      /\ old.comp \in [Of(1) -> Nat]
  BY <1>1, ItemTypes, Context DEF RunType
<1>3. Go(w, IF m = 0 \/ (old.kind = 1 /\ old.job.mode = "update")
            THEN [known EXCEPT !.pc = "create", !.pending = old.pending]
            ELSE Advance(known))
  BY DEF ExternalMapping, GetExternalMapping
<1>4. CASE m = 0
  <2> DEFINE c == old.comp
  <2>1. known = old
    BY <1>4
  <2>2. [known EXCEPT !.pc = "create", !.pending = old.pending]
          = [old EXCEPT !.pc = "create", !.comp = c, !.pending = old.pending]
    BY <1>1, <2>1 DEF RunType
  <2> HIDE DEF known, c
  <2>3. Go(w, [old EXCEPT !.pc = "create", !.comp = c, !.pending = old.pending])
    BY <1>3, <1>4, <2>2
  <2> QED
    BY <1>1, <1>2, <1>4, <2>3, CreatesNext DEF c
<1>5. CASE m # 0 /\ old.kind = 1 /\ old.job.mode = "update"
  <2> DEFINE c == [old.comp EXCEPT ![e] = m]
  <2>1. c \in [Of(1) -> Nat]
    BY <1>2, <1>5
  <2>2. known = [old EXCEPT !.comp[e] = m, !.pending = @ \cup {e}]
    BY <1>5
  <2>3. [known EXCEPT !.pc = "create", !.pending = old.pending]
          = [old EXCEPT !.pc = "create", !.comp = c, !.pending = old.pending]
    BY <1>1, <2>2 DEF RunType
  <2> HIDE DEF known, c
  <2>4. Go(w, [old EXCEPT !.pc = "create", !.comp = c, !.pending = old.pending])
    BY <1>3, <1>5, <2>3
  <2> QED
    BY <1>1, <1>5, <2>1, <2>4, CreatesNext
<1>6. CASE m # 0 /\ ~(old.kind = 1 /\ old.job.mode = "update")
  <2>1. Go(w, Advance(known))
    BY <1>3, <1>6
  <2>2. /\ Learned(old, known)
        /\ old.kind = 1 => /\ known.comp = [old.comp EXCEPT ![e] = m] /\ known.comp[e] = m
                           /\ known.pending = old.pending \cup {e}
        /\ old.kind # 1 => known = old
    <3>1. CASE old.kind = 1
      <4>1. known = Learn(worker[w], e, m)
        BY <1>6, <3>1 DEF Learn
      <4>2. e \in Of(1) /\ m \in Nat
        BY <1>2, <3>1
      <4> HIDE DEF known, e, m
      <4> QED
        BY <3>1, <4>1, <4>2, ComponentLearned
    <3>2. CASE old.kind # 1
      <4>1. known = old
        BY <3>2
      <4> QED
        BY <3>2, <4>1, SameIsLearned
    <3> QED
      BY <3>1, <3>2
  <2> HIDE DEF known
  <2>3. /\ Onward(w)
        /\ worker'[w].pc \in {"fetch", "lookup", "parents", "finish"}
        /\ worker'[w].comp = known.comp /\ worker'[w].pending = known.pending
        /\ CleanRun(worker'[w]) => CleanRun(old)
        /\ \A k \in 1..4 : \A i \in 1..Len(Feed[k]) :
             Reached(worker'[w], k, i) => Reached(old, k, i) \/ (k = old.kind /\ i = old.pos)
        /\ \A i \in 1..Len(Feed[1]) :
             ParentReached(worker'[w], i) =>
               ParentReached(old, i) \/ (old.pc = "parents" /\ i = old.pos)
    BY <1>1, <2>1, <2>2, PassedRun
  <2>4. Stores(w)
    BY <1>1, NothingStored
  <2>5. Maps(w)
    BY <1>1, <2>3 DEF Maps
  <2>6. Learns(w)
    <3>1. CASE old.kind = 1
      BY <1>1, <1>6, <2>2, <2>3, <3>1 DEF Learns
    <3>2. CASE old.kind # 1
      BY <2>2, <2>3, <3>2 DEF Learns
    <3> QED
      BY <3>1, <3>2
  <2>7. Honest(w)
    <3>1. HasIn(map', rows', Page(w), e)
      BY <1>1, <1>6 DEF HasIn
    <3>2. old.kind = 1 => worker'[w].comp[e] # 0
      BY <1>6, <2>2, <2>3
    <3> QED
      BY <1>1, <2>3, <3>1, <3>2 DEF Honest
  <2> QED
    BY <2>3, <2>4, <2>5, <2>6, <2>7 DEF Moves
<1> QED
  BY <1>4, <1>5, <1>6

LEMMA CreateRefusedMoves ==
    ASSUME Base, NEW w \in Workers, CreateRefused(w)
    PROVE  Moves(w)
<1>1. /\ worker[w].pc = "create" /\ faults' \in 0..MaxFaults /\ UNCHANGED <<rows, map>>
      /\ Go(w, Advance(worker[w])) /\ worker[w].kind = 4 /\ AddressTaken(Page(w), Item(w).email)
  BY FaultsCount DEF CreateRefused, Works, dbVars, Insertable
<1>2. /\ Onward(w)
      /\ worker'[w].pc \in {"fetch", "lookup", "parents", "finish"}
      /\ worker'[w].comp = worker[w].comp /\ worker'[w].pending = worker[w].pending
      /\ CleanRun(worker'[w]) => CleanRun(worker[w])
      /\ \A k \in 1..4 : \A i \in 1..Len(Feed[k]) :
           Reached(worker'[w], k, i) =>
             Reached(worker[w], k, i) \/ (k = worker[w].kind /\ i = worker[w].pos)
      /\ \A i \in 1..Len(Feed[1]) :
           ParentReached(worker'[w], i) =>
             ParentReached(worker[w], i) \/ (worker[w].pc = "parents" /\ i = worker[w].pos)
  BY <1>1, SameIsLearned, PassedRun
<1>3. HasIn(map', rows', Page(w), Entity(w))
  <2>1. worker[w].pos \in 1..Len(Feed[4])
    BY <1>1, ItemTypes
  <2>2. Entity(w) = <<"subscriber", Feed[4][worker[w].pos].ext>> /\ Item(w) = Feed[4][worker[w].pos]
    BY <1>1 DEF Entity, Item, Kinds
  <2>3. \E n \in 1..Len(Feed[4]) :
           /\ Feed[4][n].email = Feed[4][worker[w].pos].email
           /\ rows[Page(w)][<<"subscriber", Feed[4][n].ext>>] # <<>>
    BY <1>1, <2>2 DEF AddressTaken
  <2> QED
    BY <1>1, <2>1, <2>2, <2>3 DEF HasIn
<1>4. Stores(w)
  BY <1>1, NothingStored
<1>5. Maps(w)
  BY <1>1, <1>2 DEF Maps
<1>6. Learns(w)
  BY <1>2 DEF Learns
<1>7. Honest(w)
  BY <1>1, <1>2, <1>3 DEF Honest
<1> QED
  BY <1>2, <1>4, <1>5, <1>6, <1>7 DEF Moves

LEMMA NothingToLinkMoves ==
    ASSUME Base, NEW w \in Workers, NothingToLink(w)
    PROVE  Moves(w)
<1>1. /\ worker[w].pc = "parents" /\ faults' \in 0..MaxFaults /\ UNCHANGED <<rows, map>>
      /\ Go(w, Advance(worker[w])) /\ ParentOf(w) = 0 /\ worker[w].kind = 1
  BY FaultsCount DEF NothingToLink, dbVars, Base, RunsOK, RunOK
<1>2. /\ Onward(w)
      /\ worker'[w].pc \in {"fetch", "lookup", "parents", "finish"}
      /\ worker'[w].comp = worker[w].comp /\ worker'[w].pending = worker[w].pending
      /\ CleanRun(worker'[w]) => CleanRun(worker[w])
      /\ \A k \in 1..4 : \A i \in 1..Len(Feed[k]) :
           Reached(worker'[w], k, i) =>
             Reached(worker[w], k, i) \/ (k = worker[w].kind /\ i = worker[w].pos)
      /\ \A i \in 1..Len(Feed[1]) :
           ParentReached(worker'[w], i) =>
             ParentReached(worker[w], i) \/ (worker[w].pc = "parents" /\ i = worker[w].pos)
  BY <1>1, SameIsLearned, PassedRun
<1>3. ASSUME NEW k \in 1..4, NEW i \in 1..Len(Feed[k]), k = worker[w].kind
      PROVE  Reached(worker[w], k, i)
  BY <1>1, <1>3 DEF Reached
<1>4. Stores(w)
  BY <1>1, NothingStored
<1>5. Maps(w)
  BY <1>1, <1>2 DEF Maps
<1>6. Learns(w)
  BY <1>2 DEF Learns
<1>7. Honest(w)
  BY <1>1, <1>2, <1>3 DEF Honest
<1> QED
  BY <1>2, <1>4, <1>5, <1>6, <1>7 DEF Moves

LEMMA LinkParentMoves ==
    ASSUME Base, NEW w \in Workers, LinkParent(w)
    PROVE  Moves(w)
<1>1. /\ worker[w].pc = "parents" /\ faults' \in 0..MaxFaults /\ UNCHANGED map
      /\ Go(w, Advance(worker[w])) /\ worker[w].kind = 1
  BY FaultsCount DEF LinkParent, Works, Base, RunsOK, RunOK
<1>2. /\ Onward(w)
      /\ worker'[w].pc \in {"fetch", "lookup", "parents", "finish"}
      /\ worker'[w].comp = worker[w].comp /\ worker'[w].pending = worker[w].pending
      /\ CleanRun(worker'[w]) => CleanRun(worker[w])
      /\ \A k \in 1..4 : \A i \in 1..Len(Feed[k]) :
           Reached(worker'[w], k, i) =>
             Reached(worker[w], k, i) \/ (k = worker[w].kind /\ i = worker[w].pos)
      /\ \A i \in 1..Len(Feed[1]) :
           ParentReached(worker'[w], i) =>
             ParentReached(worker[w], i) \/ (worker[w].pc = "parents" /\ i = worker[w].pos)
  BY <1>1, SameIsLearned, PassedRun
<1>3. ASSUME NEW k \in 1..4, NEW i \in 1..Len(Feed[k]), k = worker[w].kind
      PROVE  Reached(worker[w], k, i)
  BY <1>1, <1>3 DEF Reached
<1>4. /\ rows' \in [Slugs -> Table]
      /\ \A p \in Slugs, e \in Entities :
           /\ Len(rows'[p][e]) = Len(rows[p][e])
           /\ e \notin Of(1) => rows'[p][e] = rows[p][e]
           /\ \A n \in 1..Len(rows[p][e]) :
                rows'[p][e][n].parent =
                  IF /\ ParentOf(w) # 0 /\ p = Page(w) /\ e = Entity(w)
                     /\ n = worker[w].comp[Entity(w)]
                  THEN ParentOf(w) ELSE rows[p][e][n].parent
  BY LinkEffect
<1>5. Stores(w)
  <2>1. ASSUME NEW p \in Slugs, NEW e \in Entities
        PROVE  Len(rows[p][e]) \in Nat /\ Len(rows'[p][e]) = Len(rows[p][e])
    BY <1>4, RowCounts
  <2>2. ASSUME NEW p \in Slugs, NEW e \in Entities, NEW n \in 1..Len(rows[p][e])
        PROVE  /\ e \in Of(1) \/ rows'[p][e][n] = rows[p][e][n]
               /\ \/ rows'[p][e][n].parent = rows[p][e][n].parent
                  \/ /\ ParentOf(w) # 0
                     /\ p = Page(w) /\ e = Entity(w) /\ n = worker[w].comp[e]
                     /\ rows'[p][e][n].parent = ParentOf(w)
    BY <1>4
  <2>3. \A p \in Slugs, e \in Entities :
          /\ Len(rows[p][e]) <= Len(rows'[p][e])
          /\ p # Page(w) => Len(rows[p][e]) = Len(rows'[p][e])
    BY <2>1
  <2> QED
    BY <1>1, <1>4, <2>2, <2>3 DEF Stores
<1>6. Maps(w)
  BY <1>1, <1>2 DEF Maps
<1>7. Learns(w)
  BY <1>2 DEF Learns
<1>8. Honest(w)
  <2>1. Page(w) \in Slugs /\ Entity(w) \in Entities
    BY <1>1, ItemTypes
  <2>2. \/ ParentOf(w) = 0
        \/ LET n == worker[w].comp[Entity(w)] IN
           n \in 1..Len(rows[Page(w)][Entity(w)]) =>
             rows'[Page(w)][Entity(w)][n].parent = ParentOf(w)
    BY <1>4, <2>1
  <2> QED
    BY <1>1, <1>2, <1>3, <2>2 DEF Honest
<1> QED
  BY <1>2, <1>5, <1>6, <1>7, <1>8 DEF Moves

LEMMA SetExternalMappingMoves ==
    ASSUME Base, NEW w \in Workers, SetExternalMapping(w)
    PROVE  Moves(w)
<1> DEFINE old == worker[w]
           e == Entity(w)
           next == IF old.kind = 1
                   THEN [old EXCEPT !.comp[e] = old.row, !.pending = @ \cup {e}]
                   ELSE old
<1>1. /\ old.pc = "map" /\ faults' \in 0..MaxFaults /\ UNCHANGED rows
      /\ map' = [map EXCEPT ![Page(w)][e] = old.row]
      /\ Go(w, Advance(next))
  BY FaultsCount DEF SetExternalMapping, Works, UpsertExternalMapping
<1>2. Page(w) \in Slugs /\ e \in Entities /\ (old.kind = 1 => e \in Of(1)) /\ old.kind \in 1..4
  BY <1>1, ItemTypes, Context DEF RunType
<1>3. old.row \in 1..Len(rows[Page(w)][e]) /\ old.row \in Nat \ {0}
  BY <1>1, <1>2, RowCounts DEF Base, RunsOK
<1>4. map'[Page(w)][e] = old.row
  BY <1>1, <1>2, Context
<1>5. /\ Learned(old, next)
      /\ old.kind = 1 => /\ next.comp = [old.comp EXCEPT ![e] = old.row] /\ next.comp[e] = old.row
                         /\ next.pending = old.pending \cup {e}
      /\ old.kind # 1 => next = old
  <2>1. CASE old.kind = 1
    <3>1. next = Learn(worker[w], e, old.row)
      BY <2>1 DEF Learn
    <3>2. e \in Of(1) /\ old.row \in Nat
      BY <1>2, <1>3, <2>1
    <3> HIDE DEF next, e
    <3> QED
      BY <2>1, <3>1, <3>2, ComponentLearned
  <2>2. CASE old.kind # 1
    <3>1. next = old
      BY <2>2
    <3> QED
      BY <2>2, <3>1, SameIsLearned
  <2> QED
    BY <2>1, <2>2
<1> HIDE DEF next
<1>6. /\ Onward(w)
      /\ worker'[w].pc \in {"fetch", "lookup", "parents", "finish"}
      /\ worker'[w].comp = next.comp /\ worker'[w].pending = next.pending
      /\ CleanRun(worker'[w]) => CleanRun(old)
      /\ \A k \in 1..4 : \A i \in 1..Len(Feed[k]) :
           Reached(worker'[w], k, i) => Reached(old, k, i) \/ (k = old.kind /\ i = old.pos)
      /\ \A i \in 1..Len(Feed[1]) :
           ParentReached(worker'[w], i) =>
             ParentReached(old, i) \/ (old.pc = "parents" /\ i = old.pos)
  BY <1>1, <1>5, PassedRun
<1>7. Stores(w)
  BY <1>1, NothingStored
<1>8. Maps(w)
  BY <1>1, <1>6 DEF Maps
<1>9. Learns(w)
  <2>1. CASE old.kind = 1
    BY <1>1, <1>3, <1>4, <1>5, <1>6, <2>1 DEF Learns
  <2>2. CASE old.kind # 1
    BY <1>5, <1>6, <2>2 DEF Learns
  <2> QED
    BY <2>1, <2>2
<1>10. Honest(w)
  <2>1. HasIn(map', rows', Page(w), e)
    BY <1>3, <1>4 DEF HasIn
  <2>2. old.kind = 1 => worker'[w].comp[e] # 0
    BY <1>3, <1>5, <1>6
  <2> QED
    BY <1>1, <1>6, <2>1, <2>2 DEF Honest
<1> QED
  BY <1>6, <1>7, <1>8, <1>9, <1>10 DEF Moves

\* Rows that are added to one entity of one page.
LEMMA AddsStore ==
    ASSUME Base, NEW w \in Workers, NEW p \in Slugs, p = Page(w), NEW e \in Entities,
           rows' \in [Slugs -> Table],
           \A q \in Slugs : q # p => rows'[q] = rows[q],
           \A f \in Entities :
             /\ Len(rows'[p][f]) = Len(rows[p][f]) + (IF f = e THEN 1 ELSE 0)
             /\ \A m \in 1..Len(rows[p][f]) :
                  /\ rows'[p][f][m].parent = rows[p][f][m].parent
                  /\ f \notin Of(1) => rows'[p][f][m] = rows[p][f][m]
    PROVE  Stores(w)
<1> SUFFICES ASSUME NEW q \in Slugs, NEW f \in Entities
             PROVE  /\ Len(rows[q][f]) <= Len(rows'[q][f])
                    /\ q # p => Len(rows[q][f]) = Len(rows'[q][f])
                    /\ \A m \in 1..Len(rows[q][f]) :
                         /\ f \in Of(1) \/ rows'[q][f][m] = rows[q][f][m]
                         /\ rows'[q][f][m].parent = rows[q][f][m].parent
  BY DEF Stores
<1>1. Len(rows[q][f]) \in Nat
  BY RowCounts
<1>2. CASE q = p
  <2>1. Len(rows'[p][f]) = Len(rows[p][f]) + (IF f = e THEN 1 ELSE 0)
        /\ \A m \in 1..Len(rows[p][f]) :
             /\ rows'[p][f][m].parent = rows[p][f][m].parent
             /\ f \notin Of(1) => rows'[p][f][m] = rows[p][f][m]
    OBVIOUS
  <2>2. Len(rows[p][f]) <= Len(rows'[p][f])
    <3>1. Len(rows[p][f]) \in Nat
      BY <1>1, <1>2
    <3>2. CASE f = e
      <4>1. Len(rows'[p][f]) = Len(rows[p][f]) + 1
        BY <2>1, <3>2
      <4> QED
        BY ONLY <3>1, <4>1
    <3>3. CASE f # e
      <4>1. Len(rows'[p][f]) = Len(rows[p][f]) + 0
        BY <2>1, <3>3
      <4> QED
        BY ONLY <3>1, <4>1
    <3> QED
      BY <3>2, <3>3
  <2> QED
    BY ONLY <1>2, <2>1, <2>2
<1>3. CASE q # p
  BY <1>1, <1>3
<1> QED
  BY <1>2, <1>3

LEMMA CreateFailsMoves ==
    ASSUME Base, NEW w \in Workers, CreateFails(w)
    PROVE  Moves(w)
<1>1. worker[w].pc = "create" /\ faults' \in 0..MaxFaults /\ UNCHANGED map
  BY FailsCount DEF CreateFails
<1>2. Stores(w)
  <2>1. CASE UNCHANGED rows
    BY <2>1, NothingStored
  <2>2. CASE Insert(w)
    <3>1. /\ rows' \in [Slugs -> Table]
          /\ \A p \in Slugs : p # Page(w) => rows'[p] = rows[p]
          /\ \A e \in Entities :
               /\ Len(rows'[Page(w)][e])
                    = Len(rows[Page(w)][e]) + (IF e = Entity(w) THEN 1 ELSE 0)
               /\ \A n \in 1..Len(rows[Page(w)][e]) :
                    /\ rows'[Page(w)][e][n].parent = rows[Page(w)][e][n].parent
                    /\ e \notin Of(1) => rows'[Page(w)][e][n] = rows[Page(w)][e][n]
      BY <1>1, <2>2, InsertEffect
    <3> QED
      BY <1>1, <3>1, RowCounts, ItemTypes, AddsStore
  <2> QED
    BY <2>1, <2>2 DEF CreateFails
<1>3. CASE worker[w].kind # 4
  <2>1. Go(w, Advance(Report(worker[w])))
    BY <1>3 DEF CreateFails
  <2> QED
    BY <1>1, <1>2, <2>1, ReportedMove
<1>4. CASE worker[w].kind = 4
  <2> DEFINE next == Skip(worker[w], Entity(w))
  <2>1. Entity(w) \in Of(4) /\ Go(w, Advance(next))
    BY <1>1, <1>4, ItemTypes DEF CreateFails, Skip
  <2>2. /\ Learned(worker[w], next) /\ Entity(w) \in next.unsaid.skipped
        /\ next.comp = worker[w].comp /\ next.pending = worker[w].pending
    BY <2>1, SkippedRun
  <2> HIDE DEF next
  <2>3. /\ Onward(w)
        /\ worker'[w].pc \in {"fetch", "lookup", "parents", "finish"}
        /\ worker'[w].comp = worker[w].comp /\ worker'[w].pending = worker[w].pending
        /\ worker'[w].unsaid = next.unsaid
        /\ CleanRun(worker'[w]) => CleanRun(worker[w])
        /\ \A k \in 1..4 : \A i \in 1..Len(Feed[k]) :
             Reached(worker'[w], k, i) =>
               Reached(worker[w], k, i) \/ (k = worker[w].kind /\ i = worker[w].pos)
        /\ \A i \in 1..Len(Feed[1]) :
             ParentReached(worker'[w], i) =>
               ParentReached(worker[w], i) \/ (worker[w].pc = "parents" /\ i = worker[w].pos)
    BY <1>1, <2>1, <2>2, PassedRun
  <2>4. Maps(w)
    BY <1>1, <2>3 DEF Maps
  <2>5. Learns(w)
    BY <2>3 DEF Learns
  <2>6. Honest(w)
    BY <1>1, <1>4, <2>2, <2>3 DEF Honest
  <2> QED
    BY <1>2, <2>3, <2>4, <2>5, <2>6 DEF Moves
<1> QED
  BY <1>3, <1>4

LEMMA CreateMoves ==
    ASSUME Base, NEW w \in Workers, Create(w)
    PROVE  Moves(w)
<1> DEFINE old == worker[w]
           p == Page(w)
           e == Entity(w)
           n == Len(rows[p][e]) + 1
           pc == IF HasReplay(w) THEN "replay" ELSE "map"
           run == [old EXCEPT !.row = n, !.update = 2, !.pc = pc]
<1>1. /\ source \in Sources /\ old.pc = "create" /\ old \in RunType /\ RunOK(old) /\ old.id \in Jobs
      /\ faults' \in 0..MaxFaults /\ UNCHANGED map /\ Insert(w)
  BY Context, FaultsCount DEF Create, Works, RunOK
<1>2. Go(w, run)
  BY DEF Create
<1>3. p \in Slugs /\ e \in Entities /\ n \in Nat /\ old.kind \in 1..4
  BY <1>1, ItemTypes, RowCounts
<1>4. /\ rows' \in [Slugs -> Table]
      /\ \A q \in Slugs : q # p => rows'[q] = rows[q]
      /\ \A f \in Entities :
           /\ Len(rows'[p][f]) = Len(rows[p][f]) + (IF f = e THEN 1 ELSE 0)
           /\ \A m \in 1..Len(rows[p][f]) :
                /\ rows'[p][f][m].parent = rows[p][f][m].parent
                /\ f \notin Of(1) => rows'[p][f][m] = rows[p][f][m]
      /\ old.kind = 2 => rows'[p][e][n].status = Item(w).status
  BY <1>1, InsertEffect
<1>5. pc \in {"replay", "map"} /\ (pc = "replay" <=> HasReplay(w))
  OBVIOUS
<1> HIDE DEF n, pc
<1>6. run \in RunType
  BY <1>1, <1>3, <1>5 DEF RunType
<1>7. /\ run.pc = pc /\ run.row = n /\ run.update = 2 /\ run.kind = old.kind /\ run.pos = old.pos
      /\ run.job = old.job /\ run.id = old.id /\ run.comp = old.comp /\ run.pending = old.pending
      /\ run.errors = old.errors /\ run.unsaid = old.unsaid /\ run.failed = old.failed
  BY <1>1 DEF RunType
<1> HIDE DEF run
<1>8. HasReplay(w) => old.kind = 2 /\ 2 \in 2..Len(Feed[2][old.pos].updates)
  <2>1. SUFFICES ASSUME HasReplay(w) PROVE old.kind = 2 /\ 2 \in 2..Len(Feed[2][old.pos].updates)
    OBVIOUS
  <2>2. old.kind = 2 /\ Len(Item(w).updates) > 1 /\ Item(w) = Feed[2][old.pos]
    BY <2>1 DEF HasReplay, Item
  <2>3. Item(w).updates \in Seq(IncidentStatuses)
    BY <1>1, <2>2, ItemTypes DEF ImportedIncident
  <2> QED
    BY <2>2, <2>3
<1>9. RunOK(run)
  BY <1>1, <1>5, <1>6, <1>7, <1>8 DEF RunOK
<1>10. worker'[w] = run /\ Onward(w)
  BY <1>1, <1>2, <1>5, <1>7, <1>9, GoesOn DEF run, Remembers
<1>11. Stores(w)
  BY <1>3, <1>4, RowCounts, AddsStore
<1>12. Maps(w)
  <2>1. Len(rows'[p][e]) = n
    BY <1>3, <1>4 DEF n
  <2>2. pc = "map" /\ old.kind = 2 => rows'[p][e][n].status = FinalStatus(Item(w))
    BY <1>4, <1>5 DEF HasReplay, FinalStatus
  <2> QED
    BY <1>1, <1>5, <1>7, <1>10, <2>1, <2>2 DEF Maps, n
<1>13. Learns(w)
  BY <1>7, <1>10 DEF Learns
<1>14. Honest(w)
  <2>1. CleanRun(run) => CleanRun(old)
    BY <1>7 DEF CleanRun
  <2>2. ASSUME NEW k \in 1..4, NEW i \in 1..Len(Feed[k]), Reached(run, k, i)
        PROVE  Reached(old, k, i)
    BY <1>1, <1>5, <1>7, <2>2 DEF Reached
  <2>3. ASSUME NEW i \in 1..Len(Feed[1]), ParentReached(run, i)
        PROVE  ParentReached(old, i)
    BY <1>5, <1>7, <2>3 DEF ParentReached
  <2> QED
    BY <1>10, <2>1, <2>2, <2>3 DEF Honest
<1> QED
  BY <1>10, <1>11, <1>12, <1>13, <1>14 DEF Moves

LEMMA AddIncidentUpdateMoves ==
    ASSUME Base, NEW w \in Workers, AddIncidentUpdate(w)
    PROVE  Moves(w)
<1> DEFINE old == worker[w]
           more == old.update < Len(Item(w).updates)
           run == IF more THEN [old EXCEPT !.update = @ + 1] ELSE [old EXCEPT !.pc = "map"]
<1>1. /\ source \in Sources /\ old.pc = "replay" /\ old \in RunType /\ RunOK(old) /\ old.id \in Jobs
      /\ faults' \in 0..MaxFaults /\ UNCHANGED map
  BY Context, FaultsCount DEF AddIncidentUpdate, Works, RunOK
<1>2. Go(w, run)
  BY DEF AddIncidentUpdate
<1>3. /\ rows' \in [Slugs -> Table]
      /\ \A p \in Slugs, e \in Entities :
           /\ Len(rows'[p][e]) = Len(rows[p][e])
           /\ \A n \in 1..Len(rows[p][e]) :
                /\ rows'[p][e][n].parent = rows[p][e][n].parent
                /\ (e \notin Of(1) /\ (p # Page(w) \/ e # Entity(w) \/ n # old.row))
                     => rows'[p][e][n] = rows[p][e][n]
      /\ rows'[Page(w)][Entity(w)][old.row].status = Item(w).updates[old.update]
  BY ReplayEffect
<1>4. /\ old.kind = 2 /\ old.update \in 2..Len(Item(w).updates)
      /\ Item(w) = Feed[2][old.pos] /\ Len(Item(w).updates) \in Nat
  <2>1. old.kind = 2 /\ old.update \in 2..Len(Feed[2][old.pos].updates)
    BY <1>1 DEF RunOK
  <2>2. Item(w).updates \in Seq(IncidentStatuses)
    BY <1>1, <2>1, ItemTypes DEF ImportedIncident
  <2>3. Item(w) = Feed[2][old.pos]
    BY <2>1 DEF Item
  <2>4. Len(Item(w).updates) \in Nat
    BY <2>2
  <2> QED
    BY <2>1, <2>3, <2>4
<1>5. /\ RunOK(run) /\ run.pc = (IF more THEN "replay" ELSE "map")
      /\ run.row = old.row /\ run.kind = old.kind /\ run.pos = old.pos
      /\ run.job = old.job /\ run.id = old.id /\ run.comp = old.comp /\ run.pending = old.pending
      /\ run.errors = old.errors /\ run.unsaid = old.unsaid /\ run.failed = old.failed
  <2>1. CASE more
    <3>1. run = [old EXCEPT !.update = old.update + 1]
      <4> HIDE DEF more, old
      <4> QED
        BY <2>1
    <3> HIDE DEF run
    <3>2. old.update + 1 \in Nat /\ old.update + 1 \in 2..Len(Item(w).updates)
      BY <1>4, <2>1
    <3>3. run \in RunType
      BY <1>1, <3>1, <3>2 DEF RunType
    <3>4. /\ run.pc = "replay" /\ run.update = old.update + 1
          /\ run.row = old.row /\ run.kind = old.kind /\ run.pos = old.pos
          /\ run.job = old.job /\ run.id = old.id /\ run.comp = old.comp
          /\ run.pending = old.pending
          /\ run.errors = old.errors /\ run.unsaid = old.unsaid /\ run.failed = old.failed
      BY <1>1, <3>1 DEF RunType
    <3>5. RunOK(run)
      BY <1>1, <1>4, <3>2, <3>3, <3>4 DEF RunOK
    <3> QED
      BY <2>1, <3>4, <3>5
  <2>2. CASE ~more
    <3>1. run = [old EXCEPT !.pc = "map"]
      BY <2>2
    <3> HIDE DEF run
    <3>3. run \in RunType
      BY <1>1, <3>1 DEF RunType
    <3>4. /\ run.pc = "map"
          /\ run.row = old.row /\ run.kind = old.kind /\ run.pos = old.pos
          /\ run.job = old.job /\ run.id = old.id /\ run.comp = old.comp
          /\ run.pending = old.pending
          /\ run.errors = old.errors /\ run.unsaid = old.unsaid /\ run.failed = old.failed
      BY <1>1, <3>1 DEF RunType
    <3>5. RunOK(run)
      BY <1>1, <3>3, <3>4 DEF RunOK
    <3> QED
      BY <2>2, <3>4, <3>5
  <2> QED
    BY <2>1, <2>2
<1> HIDE DEF run
<1>6. worker'[w] = run /\ Onward(w)
  <2>1. run.pc # "idle"
    BY <1>5
  <2> QED
    BY <1>1, <1>2, <1>5, <2>1, GoesOn DEF run, Remembers
<1>7. Stores(w)
  BY <1>1, <1>3, RowCounts DEF Stores
<1>8. Maps(w)
  <2>1. run.pc = "map" => rows'[Page(w)][Entity(w)][run.row].status = FinalStatus(Item(w))
    <3>1. SUFFICES ASSUME run.pc = "map"
                   PROVE  rows'[Page(w)][Entity(w)][old.row].status = FinalStatus(Item(w))
      BY <1>5
    <3>2. ~more
      BY <1>5, <3>1
    <3>3. old.update = Len(Item(w).updates) /\ Len(Item(w).updates) > 1
      BY <1>4, <3>2
    <3> QED
      BY <1>3, <3>3 DEF FinalStatus
  <2>2. run.pc \in {"replay", "map"}
    BY <1>5
  <2> QED
    BY <1>1, <1>5, <1>6, <2>1, <2>2 DEF Maps
<1>9. Learns(w)
  BY <1>5, <1>6 DEF Learns
<1>10. Honest(w)
  <2>1. CleanRun(run) => CleanRun(old)
    BY <1>5 DEF CleanRun
  <2>2. ASSUME NEW k \in 1..4, NEW i \in 1..Len(Feed[k]), Reached(run, k, i)
        PROVE  Reached(old, k, i)
    BY <1>1, <1>5, <2>2 DEF Reached
  <2>3. ASSUME NEW i \in 1..Len(Feed[1]), ParentReached(run, i)
        PROVE  ParentReached(old, i)
    BY <1>5, <2>3 DEF ParentReached
  <2> QED
    BY <1>6, <2>1, <2>2, <2>3 DEF Honest
<1> QED
  BY <1>6, <1>7, <1>8, <1>9, <1>10 DEF Moves

LEMMA ExpireMoves ==
    ASSUME Base, NEW w \in Workers, Expire(w)
    PROVE  Moves(w)
<1> DEFINE old == worker[w]
           run == [old EXCEPT !.expired = TRUE]
<1>1. /\ old.pc \notin {"idle", "ack"} /\ old \in RunType /\ RunOK(old) /\ old.id \in Jobs
      /\ faults' \in 0..MaxFaults /\ UNCHANGED <<rows, map>> /\ Go(w, run)
  BY Context, FaultsCount DEF Expire, RunOK, Go, dbVars
<1>2. run \in RunType
  BY <1>1 DEF RunType
<1>3. /\ run.pc = old.pc /\ run.kind = old.kind /\ run.pos = old.pos /\ run.row = old.row
      /\ run.update = old.update
      /\ run.job = old.job /\ run.id = old.id /\ run.comp = old.comp /\ run.pending = old.pending
      /\ run.errors = old.errors /\ run.unsaid = old.unsaid /\ run.failed = old.failed
  BY <1>1 DEF RunType
<1> HIDE DEF run
<1>4. RunOK(run)
  BY <1>1, <1>2, <1>3 DEF RunOK
<1>5. worker'[w] = run /\ Onward(w)
  <2>1. run.pc # "idle"
    BY <1>1, <1>3
  <2> QED
    BY <1>1, <1>3, <1>4, <2>1, GoesOn DEF Remembers
<1>6. Stores(w)
  BY <1>1, NothingStored
<1>7. Maps(w)
  BY <1>1, <1>3, <1>5 DEF Maps
<1>8. Learns(w)
  BY <1>3, <1>5 DEF Learns
<1>9. Honest(w)
  <2>1. CleanRun(run) => CleanRun(old)
    BY <1>3 DEF CleanRun
  <2>2. ASSUME NEW k \in 1..4, NEW i \in 1..Len(Feed[k]), Reached(run, k, i)
        PROVE  Reached(old, k, i)
    BY <1>3, <2>2 DEF Reached
  <2>3. ASSUME NEW i \in 1..Len(Feed[1]), ParentReached(run, i)
        PROVE  ParentReached(old, i)
    BY <1>3, <2>3 DEF ParentReached
  <2> QED
    BY <1>5, <2>1, <2>2, <2>3 DEF Honest
<1> QED
  BY <1>5, <1>6, <1>7, <1>8, <1>9 DEF Moves
-----------------------------------------------------------------------------
(* Base holds at all times.                                                *)

JobsKept == \A j \in Jobs : job[j].status # "none" =>
                              job'[j].status # "none" /\ job'[j].page = job[j].page

LEMMA BaseKept ==
    ASSUME Base, UNCHANGED source,
           owned' \subseteq Slugs \ Taken, raced' \subseteq owned',
           job' \in [Jobs -> JobType], JobsKept, JobsOK',
           api' \in [Jobs -> {"none", "publishing", "failing", "done"}],
           queue' \subseteq Jobs, swallowed' \subseteq Jobs, faults' \in 0..MaxFaults,
           unsaid' \in [Jobs -> UnsaidType],
           worker' \in [Workers -> RunType],
           \A w \in Workers : worker'[w] = worker[w] \/ RunAt(w)',
           rows' \in [Slugs -> Table], map' \in [Slugs -> [Entities -> Nat]],
           \A p \in Slugs, e \in Entities : Len(rows[p][e]) <= Len(rows'[p][e])
                                            /\ map'[p][e] <= Len(rows'[p][e])
    PROVE  Base'
<1>1. /\ Entities' = Entities /\ RunType' = RunType /\ RowType' = RowType /\ Table' = Table
      /\ UnsaidType' = UnsaidType
  BY SameSource
<1>2. source' \in Sources
  BY DEF Base, TypeOK
<1>3. rows' \in [Slugs -> [Entities' -> Seq(RowType')]]
  BY <1>1 DEF Table
<1>4. TypeOK'
  BY <1>1, <1>2, <1>3 DEF TypeOK, JobType
<1>5. ASSUME NEW w \in Workers PROVE RunAt(w)'
  <2>1. ASSUME worker'[w] = worker[w] PROVE RunAt(w)'
    <3>1. \A p \in Slugs, e \in Entities :
             Len(rows[p][e]) \in Nat /\ Len(rows'[p][e]) \in Nat
               /\ Len(rows[p][e]) <= Len(rows'[p][e])
      BY RowCounts DEF Table
    <3> QED
      BY <2>1, <3>1, RunAtKept DEF JobsKept
  <2> QED
    BY <2>1
<1>6. RunsOK'
  BY <1>5 DEF RunAt, RunsOK
<1> QED
  BY <1>4, <1>6 DEF Base

\* What is left alone keeps its type.
LEMMA Typed ==
    ASSUME Base
    PROVE  /\ source \in Sources /\ owned \subseteq Slugs \ Taken /\ raced \subseteq owned
           /\ job \in [Jobs -> JobType]
           /\ api \in [Jobs -> {"none", "publishing", "failing", "done"}]
           /\ queue \subseteq Jobs /\ swallowed \subseteq Jobs /\ faults \in 0..MaxFaults
           /\ unsaid \in [Jobs -> UnsaidType]
           /\ worker \in [Workers -> RunType]
           /\ rows \in [Slugs -> Table] /\ map \in [Slugs -> [Entities -> Nat]]
           /\ \A p \in Slugs, e \in Entities : Len(rows[p][e]) \in Nat
                                               /\ map[p][e] <= Len(rows[p][e])
           /\ JobsOK
<1>1. \A p \in Slugs, e \in Entities : Len(rows[p][e]) \in Nat
  BY RowCounts
<1> QED
  BY <1>1 DEF Base, TypeOK, Table

LEMMA MoveKeepsBase ==
    ASSUME Base, UNCHANGED source, NEW w \in Workers, Moves(w)
    PROVE  Base'
<1>1. /\ worker[w].pc # "idle" /\ worker'[w].pc # "idle" /\ RunOK(worker'[w])
      /\ worker' = [worker EXCEPT ![w] = worker'[w]]
      /\ worker'[w].job = worker[w].job /\ worker'[w].id = worker[w].id
      /\ UNCHANGED <<job, queue, owned, api, raced, swallowed, unsaid>> /\ faults' \in 0..MaxFaults
  BY DEF Moves, Onward, restVars
<1>2. /\ rows' \in [Slugs -> Table]
      /\ \A p \in Slugs, e \in Entities : Len(rows[p][e]) <= Len(rows'[p][e])
  BY DEF Moves, Stores
<1>3. /\ worker' \in [Workers -> RunType] /\ \A v \in Workers : v # w => worker'[v] = worker[v]
  <2>1. worker'[w] \in RunType
    BY <1>1 DEF RunOK
  <2> QED
    BY <1>1, <2>1, Typed
<1>4. /\ map' \in [Slugs -> [Entities -> Nat]]
      /\ \A p \in Slugs, e \in Entities : map'[p][e] <= Len(rows'[p][e])
  <2>1. \A p \in Slugs, e \in Entities : Len(rows[p][e]) \in Nat /\ Len(rows'[p][e]) \in Nat
    BY <1>2, RowCounts DEF Table
  <2>2. CASE map' = map
    <3>1. map' \in [Slugs -> [Entities -> Nat]]
      BY <2>2, Typed
    <3>2. ASSUME NEW p \in Slugs, NEW e \in Entities PROVE map'[p][e] <= Len(rows'[p][e])
      <4>1. map[p][e] \in Nat /\ map[p][e] <= Len(rows[p][e])
        BY Typed
      <4> QED
        BY <1>2, <2>1, <2>2, <4>1
    <3> QED
      BY <3>1, <3>2
  <2>3. CASE worker[w].pc = "map" /\ map' = [map EXCEPT ![Page(w)][Entity(w)] = worker[w].row]
    <3>1. Page(w) \in Slugs /\ Entity(w) \in Entities
      BY <2>3, ItemTypes
    <3>2. worker[w].row \in 1..Len(rows[Page(w)][Entity(w)])
      BY <2>3 DEF Base, RunsOK
    <3>3. map' \in [Slugs -> [Entities -> Nat]]
      BY <2>1, <2>3, <3>1, <3>2, Typed
    <3>4. ASSUME NEW p \in Slugs, NEW e \in Entities PROVE map'[p][e] <= Len(rows[p][e])
      BY <2>1, <2>3, <3>1, <3>2, Typed
    <3> QED
      BY <1>2, <2>1, <3>3, <3>4
  <2> QED
    BY <2>2, <2>3 DEF Moves, Maps
<1>5. RunAt(w)'
  <2>1. Feed' = Feed /\ RunType' = RunType
    BY SameSource
  <2>2. RunOK(worker[w])'
    BY <1>1, <2>1 DEF RunOK
  <2>3. job'[worker'[w].id].status # "none" /\ Page(w)' = job'[worker'[w].id].page
    BY <1>1 DEF Page, Base, RunsOK
  <2>4. ASSUME worker'[w].pc \in {"replay", "map"}
        PROVE  worker'[w].row \in 1..Len(rows'[Page(w)'][Entity(w)'])
    <3>1. /\ worker[w].pc \in {"create", "replay", "map"}
          /\ worker'[w].kind = worker[w].kind /\ worker'[w].pos = worker[w].pos
      BY <2>4 DEF Moves, Maps
    <3>2. Page(w)' = Page(w) /\ Entity(w)' = Entity(w)
      BY <1>1, <2>1, <3>1 DEF Page, Entity, Item
    <3>3. Page(w) \in Slugs /\ Entity(w) \in Entities
      BY <3>1, ItemTypes
    <3>4. Len(rows[Page(w)][Entity(w)]) \in Nat /\ Len(rows'[Page(w)][Entity(w)]) \in Nat
          /\ Len(rows[Page(w)][Entity(w)]) <= Len(rows'[Page(w)][Entity(w)])
      BY <1>2, <3>3, RowCounts DEF Table
    <3>5. \/ /\ worker'[w].row = Len(rows[Page(w)][Entity(w)]) + 1
             /\ Len(rows'[Page(w)][Entity(w)]) = worker'[w].row
          \/ worker[w].pc \in {"replay", "map"} /\ worker'[w].row = worker[w].row
      BY <2>4 DEF Moves, Maps
    <3>6. worker[w].pc \in {"replay", "map"} => worker[w].row \in 1..Len(rows[Page(w)][Entity(w)])
      BY DEF Base, RunsOK
    <3>7. worker'[w].row \in 1..Len(rows'[Page(w)][Entity(w)])
      <4>1. CASE worker'[w].row = Len(rows[Page(w)][Entity(w)]) + 1
                 /\ Len(rows'[Page(w)][Entity(w)]) = worker'[w].row
        BY ONLY <3>4, <4>1
      <4>2. CASE worker[w].pc \in {"replay", "map"} /\ worker'[w].row = worker[w].row
        BY ONLY <3>4, <3>6, <4>2
      <4> QED
        BY ONLY <3>5, <4>1, <4>2
    <3> QED
      BY <3>2, <3>7
  <2> QED
    BY <2>2, <2>3, <2>4 DEF RunAt
<1>6. JobsOK'
  BY <1>1, Typed DEF JobsOK
<1> QED
  BY <1>1, <1>2, <1>3, <1>4, <1>5, <1>6, Typed, BaseKept DEF JobsKept

\* Every step of Engine.Run moves the run.
RunMove(w) ==
    \/ Fetch(w) \/ ExternalMapping(w) \/ Create(w) \/ CreateRefused(w)
    \/ AddIncidentUpdate(w) \/ SetExternalMapping(w) \/ LinkParent(w) \/ NothingToLink(w)
    \/ FetchFails(w) \/ ExternalMappingFails(w) \/ CreateFails(w)
    \/ AddIncidentUpdateFails(w) \/ SetExternalMappingFails(w) \/ LinkParentFails(w)
    \/ Expire(w)

LEMMA RunMoves ==
    ASSUME Base, NEW w \in Workers, RunMove(w)
    PROVE  Moves(w)
BY FetchMoves, ExternalMappingMoves, CreateMoves, CreateRefusedMoves, AddIncidentUpdateMoves,
   SetExternalMappingMoves, LinkParentMoves, NothingToLinkMoves, FetchFailsMoves,
   ExternalMappingFailsMoves, CreateFailsMoves, AddIncidentUpdateFailsMoves,
   SetExternalMappingFailsMoves, LinkParentFailsMoves, ExpireMoves DEF RunMove

\* The steps of the API and of the broker, and the ends of a run.
ApiMove ==
    \/ \E j \in Jobs, p \in Slugs : \E m \in Modes[j] : handleStartImport(j, m, p)
    \/ \E j \in Jobs, p \in Slugs : handleStartImportFails(j, p)
    \/ \E j \in Jobs : Request(j) \/ PublishImportFails(j) \/ ApiDies(j)
    \/ \E w \in Workers, j \in Jobs : MarkRunningFails(w, j) \/ LoadJobFails(w, j)
Leaves(w) == Ack(w) \/ Crash(w)
Finishes(w) == finalize(w) \/ finalizeFails(w)

LEMMA StepKinds ==
    ASSUME Step
    PROVE  \/ ApiMove
           \/ \E w \in Workers : \/ \E j \in Jobs : processImport(w, j)
                                 \/ Leaves(w) \/ Finishes(w) \/ RunMove(w)
BY DEF Step, ApiMove, Leaves, Finishes, RunMove, Run, RunFails

LEMMA JobUpdated ==
    ASSUME job \in [Jobs -> JobType], NEW j \in Jobs,
           NEW status \in {"none", "pending", "running"} \cup Settled, NEW report,
           report.errors \in BOOLEAN,
           UpdateImportJob(j, status, report)
    PROVE  /\ job' \in [Jobs -> JobType]
           /\ \A i \in Jobs : i # j => job'[i] = job[i]
           /\ job'[j].status = status /\ job'[j].page = job[j].page
           /\ job'[j].errors = report.errors
<1> DEFINE a == report.errors
           old == job[j]
           new == [old EXCEPT !.status = status, !.errors = a]
<1>1. job' = [job EXCEPT ![j] = new]
  BY DEF UpdateImportJob
<1>2. old \in JobType /\ a \in BOOLEAN
  OBVIOUS
<1> HIDE DEF a, old
<1>3. new \in JobType
  BY <1>2 DEF JobType
<1>4. new.status = status /\ new.page = old.page /\ new.errors = a
  BY <1>2 DEF JobType
<1> HIDE DEF new
<1>5. job'[j] = new /\ \A i \in Jobs : i # j => job'[i] = job[i]
  BY <1>1
<1>6. job' \in [Jobs -> JobType]
  BY <1>1, <1>3
<1> QED
  BY <1>4, <1>5, <1>6 DEF a, old

LEMMA JobCreated ==
    ASSUME job \in [Jobs -> JobType], NEW j \in Jobs, NEW m \in Modes[j], NEW p \in Slugs,
           CreateImportJob(j, m, p), source \in Sources
    PROVE  /\ job' \in [Jobs -> JobType]
           /\ \A i \in Jobs : i # j => job'[i] = job[i]
           /\ job'[j].status = "pending" /\ job'[j].page = p
<1> DEFINE new == [NoJob EXCEPT !.status = "pending", !.mode = m, !.page = p]
<1>1. job' = [job EXCEPT ![j] = new]
  BY DEF CreateImportJob
<1>2. NoJob \in JobType /\ m \in {"skip", "update"}
  BY NoRunOK, ImporterConstants
<1>3. new \in JobType /\ new.status = "pending" /\ new.page = p
  BY <1>2 DEF JobType
<1> HIDE DEF new
<1> QED
  BY <1>1, <1>3

LEMMA TargetPage ==
    ASSUME Base, NEW p, resolveImportTargetPage(p)
    PROVE  p \in owned' /\ owned' \subseteq Slugs \ Taken /\ owned \subseteq owned'
BY Typed DEF resolveImportTargetPage

\* What an API step leaves to the others.
ApiFrame ==
    /\ UNCHANGED <<worker, rows, map, unsaid, raced>>
    /\ JobsKept
    /\ \/ job' = job
       \/ \E j \in Jobs : /\ job[j].status = "none" /\ job'[j].status = "pending"
                           /\ \A i \in Jobs : i # j => job'[i] = job[i]
       \/ \E j \in Jobs : /\ job[j].status # "none" /\ job'[j].status = "failed"
                           /\ \A i \in Jobs : i # j => job'[i] = job[i]

LEMMA ApiMoveKeepsBase ==
    ASSUME Base, UNCHANGED source, ApiMove
    PROVE  Base' /\ ApiFrame
<1> DEFINE Goal == Base' /\ ApiFrame
<1>0. ASSUME UNCHANGED <<worker, rows, map, unsaid, raced>>, owned \subseteq owned',
             owned' \subseteq Slugs \ Taken, job' \in [Jobs -> JobType], JobsKept, JobsOK',
             api' \in [Jobs -> {"none", "publishing", "failing", "done"}],
             queue' \subseteq Jobs, swallowed' \subseteq Jobs, faults' \in 0..MaxFaults,
             \/ job' = job
             \/ \E j \in Jobs : /\ job[j].status = "none" /\ job'[j].status = "pending"
                                 /\ \A i \in Jobs : i # j => job'[i] = job[i]
             \/ \E j \in Jobs : /\ job[j].status # "none" /\ job'[j].status = "failed"
                                 /\ \A i \in Jobs : i # j => job'[i] = job[i]
      PROVE  Goal
  <2>1. raced' \subseteq owned' /\ rows' \in [Slugs -> Table]
        /\ map' \in [Slugs -> [Entities -> Nat]] /\ worker' \in [Workers -> RunType]
        /\ unsaid' \in [Jobs -> UnsaidType]
        /\ \A p \in Slugs, e \in Entities : Len(rows[p][e]) <= Len(rows'[p][e])
                                            /\ map'[p][e] <= Len(rows'[p][e])
    BY <1>0, Typed
  <2> QED
    BY <1>0, <2>1, BaseKept DEF ApiFrame
<1>1. ASSUME NEW j \in Jobs, NEW p \in Slugs, NEW m \in Modes[j], handleStartImport(j, m, p)
      PROVE  Goal
  <2>1. p \in owned' /\ owned' \subseteq Slugs \ Taken /\ owned \subseteq owned'
    BY <1>1, TargetPage DEF handleStartImport
  <2>2. /\ job' \in [Jobs -> JobType] /\ \A i \in Jobs : i # j => job'[i] = job[i]
        /\ job'[j].status = "pending" /\ job'[j].page = p
    BY <1>1, JobCreated, Typed DEF handleStartImport
  <2>3. /\ api' = [api EXCEPT ![j] = "publishing"] /\ job[j].status = "none"
        /\ UNCHANGED <<queue, worker, rows, map, faults, swallowed, unsaid, raced>>
    BY <1>1, Typed DEF handleStartImport, NextJob, dbVars, JobsOK
  <2>4. JobsKept
    BY <2>2, <2>3 DEF JobsKept
  <2>5. JobsOK'
    BY <2>1, <2>2, <2>3, Typed DEF JobsOK
  <2> QED
    BY <1>0, <2>1, <2>2, <2>3, <2>4, <2>5, Typed
<1>2. ASSUME NEW j \in Jobs, NEW p \in Slugs, handleStartImportFails(j, p) PROVE Goal
  <2>1. owned' \subseteq Slugs \ Taken /\ owned \subseteq owned'
    BY <1>2, TargetPage DEF handleStartImportFails
  <2>2. /\ api' = [api EXCEPT ![j] = "done"] /\ faults' \in 0..MaxFaults
        /\ UNCHANGED <<job, queue, worker, rows, map, swallowed, unsaid, raced>>
    BY <1>2, ImporterConstants, Typed DEF handleStartImportFails, dbVars, Strike
  <2>3. JobsOK' /\ JobsKept
    BY <2>1, <2>2, Typed DEF JobsOK, JobsKept
  <2> QED
    BY <1>0, <2>1, <2>2, <2>3, Typed
<1>3. ASSUME NEW j \in Jobs, PublishImport(j) PROVE Goal
  <2>1. /\ api[j] = "publishing" /\ queue' = queue \cup {j} /\ api' = [api EXCEPT ![j] = "done"]
        /\ UNCHANGED <<owned, job, worker, rows, map, faults, swallowed, unsaid, raced>>
    BY <1>3 DEF PublishImport, dbVars
  <2>2. JobsOK' /\ JobsKept
    BY <2>1, Typed DEF JobsOK, JobsKept
  <2> QED
    BY <1>0, <2>1, <2>2, Typed
<1>4. ASSUME NEW j \in Jobs, PublishImportFails(j) PROVE Goal
  <2>1. /\ api[j] = "publishing" /\ queue' \in {queue, queue \cup {j}}
        /\ api' = [api EXCEPT ![j] = "failing"] /\ faults' \in 0..MaxFaults
        /\ UNCHANGED <<owned, job, worker, rows, map, swallowed, unsaid, raced>>
    BY <1>4, ImporterConstants, Typed DEF PublishImportFails, dbVars, Strike
  <2>2. JobsOK' /\ JobsKept
    BY <2>1, Typed DEF JobsOK, JobsKept
  <2> QED
    BY <1>0, <2>1, <2>2, Typed
<1>5. ASSUME NEW j \in Jobs, MarkUnqueued(j) PROVE Goal
  <2>1. /\ api[j] = "failing" /\ api' = [api EXCEPT ![j] = "done"]
        /\ UNCHANGED <<owned, queue, worker, rows, map, unsaid, raced>>
    BY <1>5 DEF MarkUnqueued, dbVars
  <2>2. CASE UpdateImportJob(j, "failed", NoJob) /\ UNCHANGED <<faults, swallowed>>
    <3>1. "failed" \in {"none", "pending", "running"} \cup Settled
          /\ NoJob.errors \in BOOLEAN
      BY DEF Settled, NoJob
    <3>2. /\ job' \in [Jobs -> JobType] /\ \A i \in Jobs : i # j => job'[i] = job[i]
          /\ job'[j].status = "failed" /\ job'[j].page = job[j].page
      BY <2>2, <3>1, JobUpdated, Typed
    <3>3. JobsOK' /\ JobsKept /\ job[j].status # "none"
      BY <2>1, <3>2, Typed DEF JobsOK, JobsKept
    <3> QED
      BY <1>0, <2>1, <2>2, <3>2, <3>3, Typed
  <2>3. CASE Strike /\ swallowed' = swallowed \cup {j} /\ UNCHANGED job
    <3>1. faults' \in 0..MaxFaults
      BY <2>3, ImporterConstants, Typed DEF Strike
    <3>2. JobsOK' /\ JobsKept
      BY <2>1, <2>3, Typed DEF JobsOK, JobsKept
    <3> QED
      BY <1>0, <2>1, <2>3, <3>1, <3>2, Typed
  <2> QED
    BY <1>5, <2>2, <2>3 DEF MarkUnqueued
<1>6. ASSUME NEW j \in Jobs, ApiDies(j) PROVE Goal
  <2>1. /\ api[j] \in {"publishing", "failing"}
        /\ api' = [api EXCEPT ![j] = "done"] /\ faults' \in 0..MaxFaults
        /\ swallowed' = swallowed \cup {j}
        /\ UNCHANGED <<owned, job, queue, worker, rows, map, unsaid, raced>>
    BY <1>6, ImporterConstants, Typed DEF ApiDies, dbVars, Strike
  <2>2. JobsOK' /\ JobsKept
    BY <2>1, Typed DEF JobsOK, JobsKept
  <2> QED
    BY <1>0, <2>1, <2>2, Typed
<1>7. ASSUME NEW w \in Workers, NEW j \in Jobs, MarkRunningFails(w, j) \/ LoadJobFails(w, j)
      PROVE  Goal
  <2>1. /\ queue' \subseteq queue /\ faults' \in 0..MaxFaults /\ swallowed' \subseteq Jobs
        /\ UNCHANGED <<owned, api, job, worker, rows, map, unsaid, raced>>
    <3>1. CASE MarkRunningFails(w, j)
      BY <3>1, ImporterConstants, Typed DEF MarkRunningFails, dbVars, restVars, Strike
    <3>2. CASE LoadJobFails(w, j)
      BY <3>2, ImporterConstants, Typed DEF LoadJobFails, dbVars, restVars, Strike
    <3> QED
      BY <1>7, <3>1, <3>2
  <2>2. JobsOK' /\ JobsKept
    BY <2>1, Typed DEF JobsOK, JobsKept
  <2> QED
    BY <1>0, <2>1, <2>2, Typed
<1> QED
  BY <1>1, <1>2, <1>3, <1>4, <1>5, <1>6, <1>7 DEF ApiMove, Request

\* A run that is over.
LeaveFrame(w) ==
    /\ worker[w].pc # "idle"
    /\ worker'[w] = NoRun /\ \A v \in Workers : v # w => worker'[v] = worker[v]
    /\ UNCHANGED <<job, rows, map, unsaid, raced>>

LEMMA LeaveKeepsBase ==
    ASSUME Base, UNCHANGED source, NEW w \in Workers, Leaves(w)
    PROVE  Base' /\ LeaveFrame(w)
<1>1. /\ worker[w].pc # "idle" /\ worker' = [worker EXCEPT ![w] = NoRun]
      /\ UNCHANGED <<job, rows, map, owned, api, raced, swallowed, unsaid>>
      /\ queue' \in {queue, queue \cup {worker[w].id}} /\ faults' \in 0..MaxFaults
  BY ImporterConstants, Typed DEF Leaves, Ack, Crash, restVars, dbVars, Strike
<1>2. RunOK(NoRun) /\ NoRun.pc = "idle" /\ NoRun \in RunType
  BY Typed, NoRunOK DEF RunOK
<1>3. LeaveFrame(w)
  BY <1>1, Typed DEF LeaveFrame
<1>4. worker[w].id \in Jobs /\ job[worker[w].id].status # "none"
  BY <1>1 DEF Base, RunsOK, RunOK
<1>5. JobsOK' /\ JobsKept /\ queue' \subseteq Jobs
  BY <1>1, <1>4, Typed DEF JobsOK, JobsKept
<1>6. RunAt(w)'
  <2>1. Feed' = Feed /\ RunType' = RunType
    BY SameSource
  <2>2. worker'[w] = NoRun
    BY <1>3 DEF LeaveFrame
  <2>3. RunOK(worker[w])'
    BY <1>2, <2>1, <2>2 DEF RunOK
  <2> QED
    BY <1>2, <2>2, <2>3 DEF RunAt
<1>7. worker' \in [Workers -> RunType]
  BY <1>1, <1>2, Typed
<1>8. \A v \in Workers : worker'[v] = worker[v] \/ RunAt(v)'
  BY <1>3, <1>6 DEF LeaveFrame
<1> QED
  BY <1>1, <1>3, <1>5, <1>7, <1>8, Typed, BaseKept

\* A run whose outcome is saved, or lost.
FinishFrame(w) ==
    /\ worker[w].pc = "finish"
    /\ worker'[w] = [worker[w] EXCEPT !.pc = "ack"]
    /\ \A v \in Workers : v # w => worker'[v] = worker[v]
    /\ UNCHANGED <<rows, map, raced>>
    /\ \A j \in Jobs : j # worker[w].id => job'[j] = job[j] /\ unsaid'[j] = unsaid[j]
    /\ LET j == worker[w].id IN
       \/ job' = job /\ unsaid' = unsaid
       \/ /\ job'[j].status = IF worker[w].failed THEN "failed" ELSE "completed"
          /\ job'[j].page = job[j].page
          /\ job'[j].errors = worker[w].errors
          /\ unsaid'[j] = worker[w].unsaid

LEMMA FinishKeepsBase ==
    ASSUME Base, UNCHANGED source, NEW w \in Workers, Finishes(w)
    PROVE  Base' /\ FinishFrame(w)
<1> DEFINE j == worker[w].id
           run == [worker[w] EXCEPT !.pc = "ack"]
           status == IF worker[w].failed THEN "failed" ELSE "completed"
<1>1. /\ worker[w].pc = "finish" /\ worker' = [worker EXCEPT ![w].pc = "ack"]
      /\ UNCHANGED <<rows, map, owned, api, raced, queue>> /\ faults' \in 0..MaxFaults
  <2>1. CASE finalize(w)
    BY <2>1, Typed DEF finalize, restVars, dbVars
  <2>2. CASE finalizeFails(w)
    BY <2>2, ImporterConstants, Typed DEF finalizeFails, restVars, dbVars, Strike
  <2> QED
    BY <2>1, <2>2 DEF Finishes
<1>2. worker[w] \in RunType /\ RunOK(worker[w]) /\ j \in Jobs /\ job[j].status # "none"
  BY <1>1, Typed DEF Base, RunsOK, RunOK
<1>3. run \in RunType /\ run.pc = "ack" /\ run.id = j /\ run.job = worker[w].job
      /\ run.failed = worker[w].failed /\ run.kind = worker[w].kind
  BY <1>2 DEF RunType
<1>4. worker'[w] = run /\ (\A v \in Workers : v # w => worker'[v] = worker[v])
      /\ worker' \in [Workers -> RunType]
  BY <1>1, <1>3, Typed
<1> HIDE DEF run
<1>5. \/ job' = job /\ swallowed' = swallowed \cup {j} /\ unsaid' = unsaid
      \/ /\ job' \in [Jobs -> JobType] /\ \A i \in Jobs : i # j => job'[i] = job[i]
         /\ job'[j].status = status /\ job'[j].page = job[j].page
         /\ job'[j].errors = worker[w].errors
         /\ swallowed' = swallowed /\ unsaid' = [unsaid EXCEPT ![j] = worker[w].unsaid]
  <2>1. CASE finalize(w)
    <3>1. /\ UpdateImportJob(j, status, worker[w]) /\ swallowed' = swallowed
          /\ unsaid' = [unsaid EXCEPT ![j] = worker[w].unsaid]
      BY <2>1 DEF finalize
    <3>2. status \in {"none", "pending", "running"} \cup Settled
      BY DEF Settled
    <3>3. worker[w].errors \in BOOLEAN
      BY <1>2 DEF RunType
    <3> HIDE DEF status, j
    <3> QED
      BY <1>2, <3>1, <3>2, <3>3, JobUpdated, Typed DEF j
  <2>2. CASE finalizeFails(w)
    BY <2>2 DEF finalizeFails, restVars
  <2> QED
    BY <2>1, <2>2 DEF Finishes
<1>6. FinishFrame(w)
  <2>1. \A i \in Jobs : i # j => job'[i] = job[i] /\ unsaid'[i] = unsaid[i]
    BY <1>5, Typed
  <2>2. \/ job' = job /\ unsaid' = unsaid
        \/ /\ job'[j].status = status /\ job'[j].page = job[j].page
           /\ job'[j].errors = worker[w].errors /\ unsaid'[j] = worker[w].unsaid
    BY <1>2, <1>5, Typed
  <2> QED
    BY <1>1, <1>4, <2>1, <2>2 DEF FinishFrame, run
<1>7. status # "none"
  OBVIOUS
<1> HIDE DEF status
<1>8. JobsOK' /\ JobsKept /\ job' \in [Jobs -> JobType] /\ swallowed' \subseteq Jobs
  <2>1. job' \in [Jobs -> JobType] /\ swallowed' \subseteq Jobs
    BY <1>2, <1>5, Typed
  <2>2. \A i \in Jobs : job'[i].page = job[i].page
                        /\ (job'[i].status = "none" <=> job[i].status = "none")
    BY <1>2, <1>5, <1>7
  <2>3. JobsOK'
    BY <1>1, <2>2, Typed DEF JobsOK
  <2>4. JobsKept
    BY <2>2 DEF JobsKept
  <2> QED
    BY <2>1, <2>3, <2>4
<1>9. RunAt(w)'
  <2>1. Feed' = Feed /\ RunType' = RunType
    BY SameSource
  <2>2. RunOK(worker[w])'
    BY <1>1, <1>2, <1>3, <1>4, <2>1 DEF RunOK
  <2>3. job'[j].status # "none" /\ Page(w)' = job'[j].page
    BY <1>1, <1>2, <1>3, <1>4, <1>5, <1>7 DEF Page, Base, RunsOK
  <2> QED
    BY <1>3, <1>4, <2>2, <2>3 DEF RunAt
<1>10. \A v \in Workers : worker'[v] = worker[v] \/ RunAt(v)'
  BY <1>4, <1>9
<1>11. unsaid' \in [Jobs -> UnsaidType]
  <2>1. worker[w].unsaid \in UnsaidType
    BY <1>2 DEF RunType
  <2> QED
    BY <1>2, <1>5, <2>1, Typed
<1> QED
  BY <1>1, <1>4, <1>6, <1>8, <1>10, <1>11, Typed, BaseKept

\* A run that begins.
BeginFrame(w, j) ==
    /\ worker[w].pc = "idle"
    /\ /\ worker'[w].pc = "fetch" /\ worker'[w].kind = 1 /\ worker'[w].job = job[j]
       /\ worker'[w].id = j /\ worker'[w].comp = [e \in Of(1) |-> 0]
       /\ worker'[w].pending = {}
    /\ \A v \in Workers : v # w => worker'[v] = worker[v]
    /\ UNCHANGED <<rows, map, unsaid>>
    /\ raced \subseteq raced'
    /\ job[j].page \notin raced' =>
         job[j].mode # "update" /\ \A v \in Workers : ~Busy(v, job[j].page)
    /\ \A i \in Jobs : i # j => job'[i] = job[i]
    /\ job[j].status # "none" /\ job'[j].status = "running" /\ job'[j].page = job[j].page

LEMMA BeginKeepsBase ==
    ASSUME Base, UNCHANGED source, NEW w \in Workers, NEW j \in Jobs, processImport(w, j)
    PROVE  Base' /\ BeginFrame(w, j)
<1> DEFINE row == job[j]
           run == [NoRun EXCEPT !.pc = "fetch", !.job = row, !.id = j]
<1>1. /\ worker[w].pc = "idle" /\ j \in queue /\ queue' = queue \ {j}
      /\ UpdateImportJob(j, "running", job[j])
      /\ worker' = [worker EXCEPT ![w] = run]
      /\ raced' = raced \cup {p \in {job[j].page} :
                      job[j].mode = "update" \/ \E v \in Workers : Busy(v, p)}
      /\ UNCHANGED <<owned, api, rows, map, faults, swallowed, unsaid>>
  BY DEF processImport, dbVars
<1>2. job[j].status # "none" /\ job[j].page \in owned /\ row \in JobType
  BY <1>1, Typed DEF JobsOK
<1> HIDE DEF row
<1>3. NoRun \in RunType /\ RunOK(NoRun)
  BY Typed, NoRunOK DEF RunOK
<1>4. run \in RunType
  BY <1>2, <1>3 DEF RunType
<1>5. /\ run.pc = "fetch" /\ run.kind = 1 /\ run.job = row /\ run.id = j
      /\ run.comp = [e \in Of(1) |-> 0] /\ run.pending = {}
  BY DEF NoRun
<1> HIDE DEF run
<1>6. worker'[w] = run /\ (\A v \in Workers : v # w => worker'[v] = worker[v])
      /\ worker' \in [Workers -> RunType]
  BY <1>1, <1>4, Typed
<1>7. /\ job' \in [Jobs -> JobType] /\ \A i \in Jobs : i # j => job'[i] = job[i]
      /\ job'[j].status = "running" /\ job'[j].page = job[j].page
  <2>1. job[j].errors \in BOOLEAN
    BY Typed DEF JobType
  <2> QED
    BY <1>1, <2>1, JobUpdated, Typed
<1>8. raced \subseteq raced' /\ raced' \subseteq owned'
      /\ (job[j].page \notin raced' =>
            job[j].mode # "update" /\ \A v \in Workers : ~Busy(v, job[j].page))
  <2>1. raced' \subseteq raced \cup {job[j].page} /\ raced \subseteq raced'
    BY <1>1
  <2>2. job[j].page \notin raced' =>
          job[j].mode # "update" /\ \A v \in Workers : ~Busy(v, job[j].page)
    BY <1>1
  <2> QED
    BY <1>1, <1>2, <2>1, <2>2, Typed
<1>9. BeginFrame(w, j)
  BY <1>1, <1>2, <1>5, <1>6, <1>7, <1>8 DEF BeginFrame, row
<1>10. JobsOK' /\ JobsKept
  BY <1>1, <1>2, <1>7, Typed DEF JobsOK, JobsKept
<1>11. RunAt(w)'
  <2>1. Feed' = Feed /\ RunType' = RunType
    BY SameSource
  <2>2. RunOK(worker[w])'
    BY <1>4, <1>5, <1>6, <2>1 DEF RunOK
  <2>3. job'[j].status # "none" /\ Page(w)' = job'[j].page
    BY <1>5, <1>6, <1>7 DEF Page, row
  <2> QED
    BY <1>5, <1>6, <2>2, <2>3 DEF RunAt
<1>12. \A v \in Workers : worker'[v] = worker[v] \/ RunAt(v)'
  BY <1>6, <1>11
<1>13. queue' \subseteq Jobs
  BY <1>1, Typed
<1> QED
  BY <1>1, <1>6, <1>7, <1>8, <1>9, <1>10, <1>12, <1>13, Typed, BaseKept

LEMMA NextKeepsBase == Base /\ [Next]_vars => Base'
<1> SUFFICES ASSUME Base, [Next]_vars PROVE Base'
  OBVIOUS
<1>1. CASE UNCHANGED vars
  BY <1>1, Typed, BaseKept DEF vars, JobsKept, JobsOK, dbVars, restVars
<1>2. CASE Next
  <2>1. Step /\ UNCHANGED source
    BY <1>2 DEF Next
  <2> QED
    BY <2>1, StepKinds, ApiMoveKeepsBase, BeginKeepsBase, LeaveKeepsBase, FinishKeepsBase,
       RunMoves, MoveKeepsBase
<1> QED
  BY <1>1, <1>2

LEMMA BaseHolds == Spec => []Base
BY BaseInit, NextKeepsBase, PTL DEF Spec

\* Jobs, messages, runs, rows and mappings keep their types; a mapping never
\* names a row that is not there, and a run never works on one.
THEOREM TypeCorrect == Spec => []TypeOK
<1>1. Base => TypeOK
  BY DEF Base
<1> QED
  BY <1>1, BaseHolds, PTL
-----------------------------------------------------------------------------
(* What has been carried over.                                             *)

\* A clean run has carried over what it has passed, and a job that reports a
\* clean success everything, but for the subscribers they skipped.
Carried ==
    /\ \A w \in Workers : worker[w].pc # "idle" /\ CleanRun(worker[w]) =>
         \A k \in 1..4 : \A i \in 1..Len(Feed[k]) :
           Reached(worker[w], k, i) =>
             HasIn(map, rows, Page(w), At(k, i)) \/ At(k, i) \in worker[w].unsaid.skipped
    /\ \A j \in Jobs : Clean(j) =>
         \A e \in Entities : HasIn(map, rows, job[j].page, e) \/ e \in unsaid[j].skipped

LEMMA AtIsEntity ==
    ASSUME Base, NEW k \in 1..4, NEW i \in 1..Len(Feed[k])
    PROVE  At(k, i) \in Entities /\ At(k, i) \in Of(k)
<1>1. At(k, i) \in Of(k)
  BY Typed, EntityPlaces
<1> QED
  BY <1>1, Typed, EntityPlaces

LEMMA SubscriberAt ==
    ASSUME Base, NEW n \in 1..Len(Feed[4])
    PROVE  <<"subscriber", Feed[4][n].ext>> \in Entities
<1>1. At(4, n) = <<"subscriber", Feed[4][n].ext>>
  BY DEF At, Kinds
<1>2. 4 \in 1..4
  OBVIOUS
<1> QED
  BY <1>1, <1>2, AtIsEntity

\* In the next state the source is the same.
LEMMA HasInPrime ==
    ASSUME UNCHANGED source
    PROVE  /\ \A p, e : HasIn(map, rows, p, e)' <=> HasIn(map', rows', p, e)
           /\ \A k, i : At(k, i)' = At(k, i)
<1>1. Feed' = Feed
  BY SameSource
<1> QED
  BY <1>1 DEF HasIn, At

LEMMA CarriedPrime ==
    ASSUME UNCHANGED source,
           \A w \in Workers : worker'[w].pc # "idle" /\ CleanRun(worker'[w]) =>
             \A k \in 1..4 : \A i \in 1..Len(Feed[k]) :
               Reached(worker'[w], k, i) =>
                 \/ HasIn(map', rows', worker'[w].job.page, At(k, i))
                 \/ At(k, i) \in worker'[w].unsaid.skipped,
           \A j \in Jobs : Clean(j)' =>
             \A e \in Entities :
               HasIn(map', rows', job'[j].page, e) \/ e \in unsaid'[j].skipped
    PROVE  Carried'
<1>1. Feed' = Feed /\ Entities' = Entities
  BY SameSource
<1>2. ASSUME NEW w \in Workers, worker'[w].pc # "idle", CleanRun(worker'[w]),
             NEW k \in 1..4, NEW i \in 1..Len(Feed'[k]), Reached(worker[w], k, i)'
      PROVE  (HasIn(map, rows, Page(w), At(k, i)) \/ At(k, i) \in worker[w].unsaid.skipped)'
  <2>1. Reached(worker'[w], k, i)
    BY <1>1, <1>2 DEF Reached
  <2>2. HasIn(map', rows', worker'[w].job.page, At(k, i)) \/ At(k, i) \in worker'[w].unsaid.skipped
    BY <1>1, <1>2, <2>1
  <2> QED
    BY <1>1, <2>2 DEF HasIn, At, Page
<1>3. ASSUME NEW j \in Jobs, Clean(j)', NEW e \in Entities'
      PROVE  (HasIn(map, rows, job[j].page, e) \/ e \in unsaid[j].skipped)'
  BY <1>1, <1>3, HasInPrime
<1> QED
  BY <1>2, <1>3 DEF Carried

LEMMA HasIsHasIn == \A p, e : Has(p, e) <=> HasIn(map, rows, p, e)
BY DEF Has, HasIn, Mapped, AddressTaken

\* What is carried over stays so.
LEMMA HasStays ==
    ASSUME Base, rows' \in [Slugs -> Table], NEW p \in Slugs, NEW e,
           \A f \in Entities : /\ Len(rows[p][f]) <= Len(rows'[p][f])
                               /\ map[p][f] # 0 => map'[p][f] # 0,
           e \in Entities, HasIn(map, rows, p, e)
    PROVE  HasIn(map', rows', p, e)
<1>1. CASE map[p][e] # 0
  BY <1>1 DEF HasIn
<1>2. ASSUME NEW i \in 1..Len(Feed[4]), e = <<"subscriber", Feed[4][i].ext>>,
             NEW n \in 1..Len(Feed[4]), Feed[4][n].email = Feed[4][i].email,
             rows[p][<<"subscriber", Feed[4][n].ext>>] # <<>>
      PROVE  HasIn(map', rows', p, e)
  <2> DEFINE f == <<"subscriber", Feed[4][n].ext>>
  <2>1. f \in Entities
    BY SubscriberAt
  <2>2. rows[p][f] \in Seq(RowType) /\ rows'[p][f] \in Seq(RowType)
    BY <2>1, Typed DEF Table
  <2>3. Len(rows[p][f]) # 0 /\ Len(rows[p][f]) \in Nat /\ Len(rows'[p][f]) \in Nat
    BY <1>2, <2>2
  <2>4. Len(rows'[p][f]) # 0
    BY <2>1, <2>3
  <2>5. rows'[p][f] # <<>>
    BY <2>4
  <2> QED
    BY <1>2, <2>5 DEF HasIn
<1> QED
  BY <1>1, <1>2 DEF HasIn

\* Nothing but the length of the rows counts.
LEMMA HasSame ==
    ASSUME Base, rows' \in [Slugs -> Table], NEW p \in Slugs, NEW e \in Entities,
           map'[p] = map[p], \A f \in Entities : Len(rows[p][f]) = Len(rows'[p][f])
    PROVE  HasIn(map', rows', p, e) <=> HasIn(map, rows, p, e)
<1>1. ASSUME NEW n \in 1..Len(Feed[4])
      PROVE  rows[p][<<"subscriber", Feed[4][n].ext>>] = <<>>
               <=> rows'[p][<<"subscriber", Feed[4][n].ext>>] = <<>>
  <2> DEFINE f == <<"subscriber", Feed[4][n].ext>>
  <2>1. f \in Entities
    BY SubscriberAt
  <2>2. rows[p][f] \in Seq(RowType) /\ rows'[p][f] \in Seq(RowType)
    BY <2>1, Typed DEF Table
  <2>3. Len(rows[p][f]) = Len(rows'[p][f])
    BY <2>1
  <2> QED
    BY <2>2, <2>3
<1> QED
  BY <1>1 DEF HasIn

\* The mappings after a move.
LEMMA MapsMore ==
    ASSUME Base, NEW w \in Workers, Moves(w)
    PROVE  /\ \A p \in Slugs, e \in Entities : map[p][e] # 0 => map'[p][e] # 0
           /\ \A p \in Slugs : p # Page(w) => map'[p] = map[p]
<1>1. CASE map' = map
  BY <1>1
<1>2. CASE worker[w].pc = "map" /\ map' = [map EXCEPT ![Page(w)][Entity(w)] = worker[w].row]
  <2>1. Page(w) \in Slugs /\ Entity(w) \in Entities
    BY <1>2, ItemTypes
  <2>2. worker[w].row # 0
    BY <1>2, <2>1, RowCounts DEF Base, RunsOK
  <2> QED
    BY <1>2, <2>1, <2>2, Typed
<1> QED
  BY <1>1, <1>2 DEF Moves, Maps

LEMMA CarriedInit == Init => Carried
<1> SUFFICES ASSUME Init PROVE Carried
  OBVIOUS
<1>1. job = [j \in Jobs |-> NoJob] /\ worker = [w \in Workers |-> NoRun]
  BY DEF Init
<1> QED
  BY <1>1 DEF Carried, Clean, NoJob, NoRun

LEMMA MoveKeepsCarried ==
    ASSUME Base, Carried, UNCHANGED source, NEW w \in Workers, Moves(w)
    PROVE  Carried'
<1>1. Feed' = Feed /\ Entities' = Entities
  BY SameSource
<1>2. rows' \in [Slugs -> Table]
      /\ \A p \in Slugs, e \in Entities : Len(rows[p][e]) <= Len(rows'[p][e])
  BY DEF Moves, Stores
<1>3. ASSUME NEW p \in Slugs, NEW e \in Entities, HasIn(map, rows, p, e)
      PROVE  HasIn(map', rows', p, e)
  BY <1>2, <1>3, HasStays, MapsMore
<1>4. worker' = [worker EXCEPT ![w] = worker'[w]] /\ job' = job
      /\ worker'[w].job = worker[w].job /\ worker[w].pc # "idle"
      /\ unsaid' = unsaid /\ worker[w].unsaid.skipped \subseteq worker'[w].unsaid.skipped
  BY DEF Moves, Onward, Remembers, restVars
<1>5. ASSUME NEW v \in Workers, worker'[v].pc # "idle", CleanRun(worker'[v]),
             NEW k \in 1..4, NEW i \in 1..Len(Feed[k]), Reached(worker'[v], k, i)
      PROVE  \/ HasIn(map', rows', worker'[v].job.page, At(k, i))
             \/ At(k, i) \in worker'[v].unsaid.skipped
  <2>1. At(k, i) \in Entities
    BY Typed, EntityPlaces
  <2>2. worker[v].job.page \in Slugs
    BY Typed DEF RunType, JobType
  <2>3. CASE v # w
    <3>1. worker'[v] = worker[v]
      BY <1>4, <2>3, Typed
    <3>2. worker[v].pc # "idle" /\ CleanRun(worker[v]) /\ Reached(worker[v], k, i)
      BY <1>5, <3>1
    <3>3. HasIn(map, rows, worker[v].job.page, At(k, i)) \/ At(k, i) \in worker[v].unsaid.skipped
      BY <3>2 DEF Carried, Page
    <3> QED
      BY <1>3, <2>1, <2>2, <3>1, <3>3
  <2>4. CASE v = w
    <3>0. CleanRun(worker'[w]) /\ Reached(worker'[w], k, i) /\ Honest(w)
      BY <1>5, <2>4 DEF Moves
    <3>1. /\ CleanRun(worker[w])
          /\ \/ Reached(worker[w], k, i)
             \/ /\ k = worker[w].kind /\ i = worker[w].pos
                /\ \/ HasIn(map', rows', Page(w), Entity(w))
                   \/ Entity(w) \in worker'[w].unsaid.skipped
      BY <3>0 DEF Honest
    <3>2. CASE Reached(worker[w], k, i)
      BY <1>3, <1>4, <2>1, <2>2, <2>4, <3>1, <3>2 DEF Carried, Page
    <3>3. CASE k = worker[w].kind /\ i = worker[w].pos
               /\ \/ HasIn(map', rows', Page(w), Entity(w))
                  \/ Entity(w) \in worker'[w].unsaid.skipped
      <4>1. Entity(w) = At(k, i)
        BY <3>3 DEF Entity, Item, At
      <4> QED
        BY <1>4, <2>4, <3>3, <4>1 DEF Page
    <3> QED
      BY <3>1, <3>2, <3>3
  <2> QED
    BY <2>3, <2>4
<1>6. ASSUME NEW j \in Jobs, Clean(j)', NEW e \in Entities
      PROVE  HasIn(map', rows', job'[j].page, e) \/ e \in unsaid'[j].skipped
  <2>1. Clean(j)
    BY <1>4, <1>6 DEF Clean
  <2>2. job[j].page \in Slugs
    BY Typed DEF JobType
  <2> QED
    BY <1>3, <1>4, <2>1, <2>2 DEF Carried
<1> QED
  BY <1>5, <1>6, CarriedPrime

LEMMA NextKeepsCarried == Base /\ Carried /\ [Next]_vars => Carried'
<1> SUFFICES ASSUME Base, Carried, [Next]_vars PROVE Carried'
  OBVIOUS
<1>0. source' = source
  BY DEF Next, vars
<1>1. Feed' = Feed /\ Entities' = Entities
  BY <1>0, SameSource
<1>2. ASSUME UNCHANGED <<rows, map>>,
             \A w \in Workers : \/ worker'[w] = worker[w]
                                \/ worker'[w].pc = "idle"
                                \/ worker'[w].pc = "fetch" /\ worker'[w].kind = 1
                                \/ FinishFrame(w),
             \A j \in Jobs : Clean(j)' =>
               \/ Clean(j) /\ job'[j].page = job[j].page /\ unsaid'[j] = unsaid[j]
               \/ \A e \in Entities :
                    HasIn(map, rows, job'[j].page, e) \/ e \in unsaid'[j].skipped
      PROVE  Carried'
  <2>1. ASSUME NEW w \in Workers, worker'[w].pc # "idle", CleanRun(worker'[w]),
               NEW k \in 1..4, NEW i \in 1..Len(Feed[k]), Reached(worker'[w], k, i)
        PROVE  \/ HasIn(map', rows', worker'[w].job.page, At(k, i))
               \/ At(k, i) \in worker'[w].unsaid.skipped
    <3>1. CASE worker'[w] = worker[w]
      BY <1>2, <2>1, <3>1 DEF Carried, Page
    <3>2. CASE worker'[w].pc = "fetch" /\ worker'[w].kind = 1
      BY <2>1, <3>2 DEF Reached
    <3>3. CASE FinishFrame(w)
      <4>1. worker[w] \in RunType /\ worker[w].pc = "finish"
            /\ worker'[w] = [worker[w] EXCEPT !.pc = "ack"]
        BY <3>3, Typed DEF FinishFrame
      <4>2. /\ worker'[w].pc = "ack" /\ worker'[w].kind = worker[w].kind
            /\ worker'[w].job = worker[w].job
            /\ worker'[w].errors = worker[w].errors /\ worker'[w].unsaid = worker[w].unsaid
            /\ worker'[w].failed = worker[w].failed
        BY <4>1 DEF RunType
      <4>3. CleanRun(worker[w]) /\ Reached(worker[w], k, i)
        BY <2>1, <4>1, <4>2 DEF CleanRun, Reached
      <4> QED
        BY <1>2, <4>1, <4>2, <4>3 DEF Carried, Page
    <3> QED
      BY <1>2, <2>1, <3>1, <3>2, <3>3
  <2>2. ASSUME NEW j \in Jobs, Clean(j)', NEW e \in Entities
        PROVE  HasIn(map', rows', job'[j].page, e) \/ e \in unsaid'[j].skipped
    BY <1>2, <2>2 DEF Carried
  <2> QED
    BY <1>0, <2>1, <2>2, CarriedPrime
<1>3. CASE UNCHANGED vars
  BY <1>2, <1>3 DEF vars, dbVars, Clean
<1>4. CASE ApiMove
  <2>1. ApiFrame
    BY <1>0, <1>4, ApiMoveKeepsBase
  <2>2. ASSUME NEW j \in Jobs, Clean(j)' PROVE Clean(j) /\ job'[j].page = job[j].page
    <3>1. job'[j].status = "completed"
      BY <2>2 DEF Clean
    <3>2. job'[j] = job[j]
      BY <2>1, <3>1 DEF ApiFrame
    <3> QED
      BY <2>2, <3>2 DEF Clean
  <2> QED
    BY <1>2, <2>1, <2>2 DEF ApiFrame
<1>5. ASSUME NEW w \in Workers, NEW j \in Jobs, processImport(w, j) PROVE Carried'
  <2>1. BeginFrame(w, j)
    BY <1>0, <1>5, BeginKeepsBase
  <2>2. ASSUME NEW i \in Jobs, Clean(i)' PROVE Clean(i) /\ job'[i].page = job[i].page
    <3>1. job'[i].status = "completed"
      BY <2>2 DEF Clean
    <3>2. job'[i] = job[i]
      BY <2>1, <3>1 DEF BeginFrame
    <3> QED
      BY <2>2, <3>2 DEF Clean
  <2> QED
    BY <1>2, <2>1, <2>2 DEF BeginFrame
<1>6. ASSUME NEW w \in Workers, Leaves(w) PROVE Carried'
  <2>1. LeaveFrame(w)
    BY <1>0, <1>6, LeaveKeepsBase
  <2>2. NoRun.pc = "idle"
    BY DEF NoRun
  <2> QED
    BY <1>2, <2>1, <2>2 DEF LeaveFrame, Clean
<1>7. ASSUME NEW w \in Workers, Finishes(w) PROVE Carried'
  <2>1. FinishFrame(w)
    BY <1>0, <1>7, FinishKeepsBase
  <2>2. RunOK(worker[w]) /\ worker[w].id \in Jobs /\ worker[w].pc = "finish"
        /\ Page(w) = job[worker[w].id].page
    BY <2>1 DEF FinishFrame, Base, RunsOK, RunOK
  <2>3. ASSUME NEW j \in Jobs, Clean(j)'
        PROVE  \/ Clean(j) /\ job'[j].page = job[j].page /\ unsaid'[j] = unsaid[j]
               \/ \A e \in Entities :
                    HasIn(map, rows, job'[j].page, e) \/ e \in unsaid'[j].skipped
    <3>1. CASE j # worker[w].id \/ (job' = job /\ unsaid' = unsaid)
      BY <2>1, <2>3, <3>1 DEF FinishFrame, Clean
    <3>2. CASE j = worker[w].id /\ ~(job' = job /\ unsaid' = unsaid)
      <4>1. /\ ~worker[w].failed /\ ~worker[w].errors /\ unsaid'[j] = worker[w].unsaid
            /\ job'[j].page = job[j].page
        BY <2>1, <2>3, <3>2 DEF FinishFrame, Clean
      <4>2. CleanRun(worker[w]) /\ worker[w].kind = 4
        BY <2>2, <4>1 DEF CleanRun, RunOK
      <4>3. ASSUME NEW e \in Entities
            PROVE  HasIn(map, rows, job[j].page, e) \/ e \in worker[w].unsaid.skipped
        <5>0. PICK k \in 1..4 : e \in Of(k)
          BY Typed, EntityPlaces
        <5>1. PICK i \in 1..Len(Feed[k]) : e = At(k, i)
          <6>1. Of(k) = {At(k, i) : i \in 1..Len(Feed[k])}
            BY Typed, EntityPlaces
          <6> QED
            BY ONLY <5>0, <6>1
        <5>2. Reached(worker[w], k, i)
          BY <2>2, <4>2 DEF Reached
        <5> QED
          BY <2>2, <3>2, <4>2, <5>1, <5>2 DEF Carried
      <4> QED
        BY <4>1, <4>3
    <3> QED
      BY <3>1, <3>2
  <2> QED
    BY <1>2, <2>1, <2>3 DEF FinishFrame
<1>8. ASSUME NEW w \in Workers, RunMove(w) PROVE Carried'
  BY <1>0, <1>8, RunMoves, MoveKeepsCarried
<1> QED
  BY <1>3, <1>4, <1>5, <1>6, <1>7, <1>8, StepKinds DEF Next
-----------------------------------------------------------------------------
(* Importer implements ImportContract.                                     *)

Missing == [p \in Slugs |-> {e \in Entities : ~Has(p, e)}]
Verdicts == [j \in Jobs |-> Verdict(j)]
Skips == [j \in Jobs |-> unsaid[j].skipped]
AllSubscribers == UNION {EntitiesOf[s][4] : s \in Sources}

LEMMA VerdictKinds ==
    ASSUME NEW j \in Jobs, job[j] \in JobType
    PROVE  /\ Verdict(j) = <<>> <=> job[j].status = "none"
           /\ job[j].status \in {"pending", "running"} => Verdict(j) = <<job[j].page, "open">>
           /\ Clean(j) => Verdict(j) = <<job[j].page, "clean">>
           /\ job[j].status \in Settled /\ ~Clean(j) => Verdict(j) = <<job[j].page, "other">>
<1>1. job[j].status \in {"none", "pending", "running", "completed", "failed"}
  BY DEF JobType, Settled
<1>2. CASE job[j].status = "none"
  BY <1>2 DEF Verdict, Clean, Settled
<1>3. CASE job[j].status \in {"pending", "running"}
  BY <1>3 DEF Verdict, Clean, Settled
<1>4. CASE Clean(j)
  BY <1>4 DEF Verdict, Clean
<1>5. CASE job[j].status \in {"completed", "failed"} /\ ~Clean(j)
  BY <1>5 DEF Verdict, Settled
<1> QED
  BY <1>1, <1>2, <1>3, <1>4, <1>5

\* The verdict of a job depends on its row alone.
LEMMA VerdictOfRow ==
    ASSUME NEW j \in Jobs, job'[j] = job[j]
    PROVE  Verdict(j)' = Verdict(j)
BY DEF Verdict, Clean

LEMMA ContractInit == Init => Contract!Init
<1> SUFFICES ASSUME Init PROVE Contract!Init
  OBVIOUS
<1>1. \A j \in Jobs : job[j] = NoJob
  BY DEF Init
<1>3. Base
  BY BaseInit
<1>2. ASSUME NEW j \in Jobs PROVE Verdict(j) = <<>>
  <2>1. job[j].status = "none" /\ job[j] \in JobType
    BY <1>1, <1>3 DEF NoJob, Base, TypeOK
  <2> QED
    BY <2>1, VerdictKinds
<1>4. ASSUME NEW p \in Slugs, NEW e \in Entities PROVE ~Has(p, e)
  <2>1. map[p][e] = 0
    BY DEF Init
  <2>2. \A n \in 1..Len(Feed[4]) : rows[p][<<"subscriber", Feed[4][n].ext>>] = <<>>
    BY <1>3, SubscriberAt DEF Init
  <2> QED
    BY <2>1, <2>2 DEF Has, Mapped, AddressTaken
<1>5. Missing = [p \in Slugs |-> Entities]
  BY <1>4 DEF Missing
<1>6. Entities \in SUBSET AllEntities
  <2>1. source \in Sources
    BY DEF Init
  <2> QED
    BY <2>1 DEF Entities, Of, AllEntities
<1>7. \E s \in SUBSET AllEntities : Missing = [p \in Slugs |-> s]
  BY <1>5, <1>6
<1>8. Verdicts = [j \in Jobs |-> <<>>]
  BY <1>2 DEF Verdicts
<1>10. [j \in Jobs |-> unsaid[j].skipped] = [j \in Jobs |-> {}]
  BY DEF Init, NothingUnsaid
<1>9. /\ \E s \in SUBSET AllEntities :
           [p \in Slugs |-> {e \in Entities : ~Has(p, e)}] = [p \in Slugs |-> s]
      /\ [j \in Jobs |-> Verdict(j)] = [j \in Jobs |-> <<>>]
  BY <1>7, <1>8 DEF Missing, Verdicts
<1> QED
  BY ONLY <1>9, <1>10 DEF Contract!Init

\* One step of the contract each.
LEMMA SubmitStep ==
    ASSUME Missing' = Missing, Skips' = Skips,
           NEW j \in Jobs, NEW p \in Slugs, Verdicts[j] = <<>>,
           Verdicts' = [Verdicts EXCEPT ![j] = <<p, "open">>]
    PROVE  Contract!Next
<1>1. Contract!Submit(j, p)
  BY DEF Contract!Submit, Missing, Verdicts, Skips
<1> QED
  BY <1>1 DEF Contract!Next

LEMMA SettleStep ==
    ASSUME Missing' = Missing, NEW j \in Jobs, NEW v \in {"open", "clean", "other"},
           NEW S \in SUBSET AllSubscribers,
           Verdicts[j] # <<>>, v = "clean" => Missing[Verdicts[j][1]] \subseteq S,
           Verdicts' = [Verdicts EXCEPT ![j] = <<@[1], v>>],
           Skips' = [Skips EXCEPT ![j] = S]
    PROVE  Contract!Next
<1>1. Contract!Settle(j, v, S)
  BY DEF Contract!Settle, Missing, Verdicts, Skips
<1> QED
  BY <1>1 DEF Contract!Next, AllSubscribers

LEMMA ImportStep ==
    ASSUME Verdicts' = Verdicts, Skips' = Skips, NEW p \in Slugs, NEW rest \in SUBSET Missing[p],
           Missing' = [Missing EXCEPT ![p] = rest]
    PROVE  Contract!Next
<1>1. Contract!Import(p, rest)
  BY DEF Contract!Import, Missing, Verdicts, Skips
<1> QED
  BY <1>1 DEF Contract!Next, Missing

LEMMA StutterStep ==
    ASSUME Missing' = Missing, Verdicts' = Verdicts, Skips' = Skips
    PROVE  UNCHANGED Contract!vars
BY DEF Contract!vars, Missing, Verdicts, Skips

LEMMA SameMissing ==
    ASSUME UNCHANGED <<source, rows, map>>
    PROVE  Missing' = Missing
<1>1. Feed' = Feed /\ Entities' = Entities
  BY SameSource
<1> QED
  BY <1>1 DEF Missing, Has, Mapped, AddressTaken

\* What a run does to a page.
LEMMA MoveImports ==
    ASSUME Base, UNCHANGED source, NEW w \in Workers, Moves(w)
    PROVE  Contract!Next
<1>1. Entities' = Entities
  BY SameSource
<1>2. Page(w) \in Slugs
  BY Typed DEF Page, RunType, JobType
<1> SUFFICES ASSUME NEW p \in Slugs, p = Page(w) PROVE Contract!Next
  BY <1>2
<1>3. /\ rows' \in [Slugs -> Table]
      /\ \A q \in Slugs, e \in Entities :
           /\ Len(rows[q][e]) <= Len(rows'[q][e])
           /\ q # p => Len(rows[q][e]) = Len(rows'[q][e])
  BY DEF Moves, Stores
<1>4. ASSUME NEW q \in Slugs, NEW e \in Entities
      PROVE  /\ Has(q, e) => Has(q, e)'
             /\ q # p => (Has(q, e)' <=> Has(q, e))
  <2>1. (Has(q, e) <=> HasIn(map, rows, q, e)) /\ (Has(q, e)' <=> HasIn(map', rows', q, e))
    <3>1. Has(q, e)' <=> HasIn(map, rows, q, e)'
      BY HasIsHasIn DEF Has, HasIn, Mapped, AddressTaken
    <3> QED
      BY <3>1, HasIsHasIn, HasInPrime
  <2>2. HasIn(map, rows, q, e) => HasIn(map', rows', q, e)
    BY <1>3, MapsMore, HasStays
  <2>3. q # p => (HasIn(map', rows', q, e) <=> HasIn(map, rows, q, e))
    BY <1>3, MapsMore, HasSame
  <2> QED
    BY <2>1, <2>2, <2>3
<1> DEFINE Left(q) == {e \in Entities : ~Has(q, e)'}
           rest == Left(p)
<1>5. rest \in SUBSET Missing[p]
  <2>1. ASSUME NEW e \in Left(p) PROVE e \in Entities /\ ~Has(p, e)
    BY <1>2, <1>4, <2>1
  <2>2. Missing[p] = {e \in Entities : ~Has(p, e)}
    BY <1>2 DEF Missing
  <2> HIDE DEF Left
  <2> QED
    BY <2>1, <2>2
<1>6. Missing' = [Missing EXCEPT ![p] = rest]
  <2>1. ASSUME NEW q \in Slugs, q # p PROVE Left(q) = Missing[q]
    BY <1>4, <2>1 DEF Missing
  <2>2. Missing' = [q \in Slugs |-> Left(q)]
    BY <1>1 DEF Missing
  <2>3. DOMAIN Missing = Slugs /\ Missing = [q \in Slugs |-> Missing[q]]
    BY DEF Missing
  <2> HIDE DEF Left
  <2>4. ASSUME NEW q \in Slugs PROVE [Missing EXCEPT ![p] = rest][q] = Left(q)
    BY <2>1, <2>3
  <2> QED
    BY <2>2, <2>3, <2>4
<1>7. Verdicts' = Verdicts /\ Skips' = Skips
  BY VerdictOfRow DEF Moves, Onward, Verdicts, Skips, restVars
<1> HIDE DEF rest
<1> QED
  BY <1>2, <1>5, <1>6, <1>7, ImportStep

\* The same of the verdict after a step.
LEMMA VerdictKindsNext ==
    ASSUME NEW j \in Jobs, job'[j] \in JobType
    PROVE  /\ Verdict(j)' = <<>> <=> job'[j].status = "none"
           /\ job'[j].status \in {"pending", "running"} =>
                Verdict(j)' = <<job'[j].page, "open">>
           /\ Clean(j)' => Verdict(j)' = <<job'[j].page, "clean">>
           /\ job'[j].status \in Settled /\ ~Clean(j)' =>
                Verdict(j)' = <<job'[j].page, "other">>
<1>1. job'[j].status \in {"none", "pending", "running", "completed", "failed"}
  BY DEF JobType, Settled
<1>2. CASE job'[j].status = "none"
  BY <1>2 DEF Verdict, Clean, Settled
<1>3. CASE job'[j].status \in {"pending", "running"}
  BY <1>3 DEF Verdict, Clean, Settled
<1>4. CASE Clean(j)'
  BY <1>4 DEF Verdict, Clean
<1>5. CASE job'[j].status \in {"completed", "failed"} /\ ~Clean(j)'
  BY <1>5 DEF Verdict, Settled
<1> QED
  BY <1>1, <1>2, <1>3, <1>4, <1>5

LEMMA OneVerdict ==
    ASSUME NEW j \in Jobs, \A i \in Jobs : i # j => job'[i] = job[i]
    PROVE  Verdicts' = [Verdicts EXCEPT ![j] = Verdict(j)']
<1>1. ASSUME NEW i \in Jobs, i # j PROVE Verdict(i)' = Verdict(i)
  BY <1>1, VerdictOfRow
<1>2. ASSUME NEW i \in Jobs PROVE Verdicts'[i] = [Verdicts EXCEPT ![j] = Verdict(j)'][i]
  BY <1>1 DEF Verdicts
<1> QED
  BY <1>2 DEF Verdicts

\* A job that was requested has its page in its verdict.
LEMMA VerdictNames ==
    ASSUME Base, NEW j \in Jobs
    PROVE  /\ Verdicts[j] = Verdict(j)
           /\ job[j] \in JobType
           /\ job[j].status = "none" => Verdict(j) = <<>>
           /\ job[j].status # "none" => Verdict(j) # <<>> /\ Verdict(j)[1] = job[j].page
<1>1. Verdicts[j] = Verdict(j) /\ job[j] \in JobType
  BY Typed DEF Verdicts
<1>2. job[j].status \in {"none", "pending", "running"} \cup Settled
  BY <1>1 DEF JobType
<1> QED
  BY <1>1, <1>2, VerdictKinds

\* A job whose row is settled, or set back to running, keeps its page.
LEMMA JobSettled ==
    ASSUME Base, Base', NEW j \in Jobs,
           \A i \in Jobs : i # j => job'[i] = job[i] /\ unsaid'[i] = unsaid[i],
           UNCHANGED <<source, rows, map>>,
           job[j].status # "none", job'[j].page = job[j].page,
           job'[j].status \in {"running"} \cup Settled,
           Clean(j)' => Missing[job[j].page] \subseteq unsaid'[j].skipped
    PROVE  Contract!Next
<1>1. Missing' = Missing
  BY SameMissing
<1>2. job'[j] \in JobType
  BY DEF Base, TypeOK
<1>3. Verdicts[j] # <<>> /\ Verdicts[j][1] = job[j].page
  BY VerdictNames
<1>4. PICK v \in {"open", "clean", "other"} :
        /\ Verdict(j)' = <<job[j].page, v>>
        /\ v = "clean" => Missing[job[j].page] \subseteq unsaid'[j].skipped
  BY <1>2, VerdictKindsNext
<1>5. Verdicts' = [Verdicts EXCEPT ![j] = <<@[1], v>>]
  BY <1>3, <1>4, OneVerdict
<1>6. PICK S \in SUBSET AllSubscribers : S = unsaid'[j].skipped
  <2>1. unsaid'[j] \in UnsaidType' /\ source \in Sources
    BY DEF Base, TypeOK
  <2>2. unsaid'[j].skipped \subseteq Of(4)
    BY <2>1, SameSource DEF UnsaidType
  <2>3. Of(4) \subseteq AllSubscribers
    BY <2>1 DEF Of, AllSubscribers
  <2> QED
    BY <2>2, <2>3
<1>7. Skips' = [Skips EXCEPT ![j] = S]
  <2>1. ASSUME NEW i \in Jobs PROVE Skips'[i] = [Skips EXCEPT ![j] = S][i]
    BY <1>6 DEF Skips
  <2> QED
    BY <2>1 DEF Skips
<1> QED
  BY <1>1, <1>3, <1>4, <1>5, <1>6, <1>7, SettleStep

LEMMA NextKeepsContract ==
    Base /\ Carried /\ [Next]_vars => [Contract!Next]_(Contract!vars)
<1> SUFFICES ASSUME Base, Carried, [Next]_vars
             PROVE  [Contract!Next]_(Contract!vars)
  OBVIOUS
<1>0. Base' /\ Carried'
  BY NextKeepsBase, NextKeepsCarried
<1>1. ASSUME UNCHANGED <<source, job, rows, map, unsaid>> PROVE UNCHANGED Contract!vars
  <2>1. Missing' = Missing
    BY <1>1, SameMissing
  <2>2. Verdicts' = Verdicts
    BY <1>1, VerdictOfRow DEF Verdicts
  <2>3. Skips' = Skips
    BY <1>1 DEF Skips
  <2> QED
    BY <2>1, <2>2, <2>3, StutterStep
<1>2. CASE UNCHANGED vars
  BY <1>1, <1>2 DEF vars, dbVars
<1>3. ASSUME Next PROVE Step /\ UNCHANGED source
  BY <1>3 DEF Next
<1>4. CASE Next /\ ApiMove
  <2>1. ApiFrame /\ UNCHANGED source
    BY <1>3, <1>4, ApiMoveKeepsBase
  <2>2. CASE job' = job
    BY <1>1, <2>1, <2>2 DEF ApiFrame
  <2>3. ASSUME NEW j \in Jobs, job[j].status = "none", job'[j].status = "pending",
               \A i \in Jobs : i # j => job'[i] = job[i]
        PROVE  Contract!Next
    <3>1. job'[j] \in JobType /\ Missing' = Missing /\ Skips' = Skips
      BY <1>0, <2>1, SameMissing DEF Base, TypeOK, ApiFrame, Skips
    <3>2. PICK p \in Slugs : p = job'[j].page
      BY <3>1 DEF JobType
    <3>3. Verdicts[j] = <<>>
      BY <2>3, VerdictNames
    <3>4. Verdict(j)' = <<p, "open">>
      BY <2>3, <3>1, <3>2, VerdictKindsNext
    <3>5. Verdicts' = [Verdicts EXCEPT ![j] = <<p, "open">>]
      BY <2>3, <3>4, OneVerdict
    <3> QED
      BY <3>1, <3>3, <3>5, SubmitStep
  <2>4. ASSUME NEW j \in Jobs, job[j].status # "none", job'[j].status = "failed",
               \A i \in Jobs : i # j => job'[i] = job[i]
        PROVE  Contract!Next
    <3>1. job'[j].page = job[j].page /\ ~Clean(j)' /\ job'[j].status \in Settled
      BY <2>1, <2>4 DEF ApiFrame, JobsKept, Clean, Settled
    <3> QED
      BY <1>0, <2>1, <2>4, <3>1, JobSettled DEF ApiFrame
  <2> QED
    BY <2>1, <2>2, <2>3, <2>4 DEF ApiFrame
<1>5. ASSUME Next, NEW w \in Workers, NEW j \in Jobs, processImport(w, j)
      PROVE  Contract!Next
  <2>1. BeginFrame(w, j) /\ UNCHANGED source
    BY <1>3, <1>5, BeginKeepsBase
  <2>2. ~Clean(j)'
    BY <2>1 DEF BeginFrame, Clean
  <2> QED
    BY <1>0, <2>1, <2>2, JobSettled DEF BeginFrame
<1>6. ASSUME Next, NEW w \in Workers, Leaves(w) PROVE UNCHANGED Contract!vars
  BY <1>1, <1>3, <1>6, LeaveKeepsBase DEF LeaveFrame
<1>7. ASSUME Next, NEW w \in Workers, Finishes(w) PROVE [Contract!Next]_(Contract!vars)
  <2>1. FinishFrame(w) /\ UNCHANGED source
    BY <1>3, <1>7, FinishKeepsBase
  <2>2. CASE job' = job /\ unsaid' = unsaid
    BY <1>1, <2>1, <2>2 DEF FinishFrame
  <2>3. CASE ~(job' = job /\ unsaid' = unsaid)
    <3>1. RunOK(worker[w]) /\ worker[w].id \in Jobs /\ worker[w].pc = "finish"
          /\ job[worker[w].id].status # "none"
      BY <2>1 DEF FinishFrame, Base, RunsOK, RunOK
    <3> SUFFICES ASSUME NEW j \in Jobs, j = worker[w].id PROVE Contract!Next
      BY <3>1
    <3>2. /\ job'[j].status \in Settled /\ job'[j].page = job[j].page
          /\ \A i \in Jobs : i # j => job'[i] = job[i] /\ unsaid'[i] = unsaid[i]
      BY <2>1, <2>3 DEF FinishFrame, Settled
    <3>3. ASSUME Clean(j)' PROVE Missing[job[j].page] \subseteq unsaid'[j].skipped
      <4>1. Feed' = Feed /\ Entities' = Entities
        BY <2>1, SameSource
      <4>2. \A e \in Entities' :
              HasIn(map, rows, job[j].page, e)' \/ e \in unsaid'[j].skipped
        BY <1>0, <3>3 DEF Carried
      <4>3. \A e \in Entities :
              HasIn(map', rows', job'[j].page, e) \/ e \in unsaid'[j].skipped
        BY <2>1, <4>1, <4>2, HasInPrime
      <4>4. \A e \in Entities :
              HasIn(map, rows, job[j].page, e) \/ e \in unsaid'[j].skipped
        BY <2>1, <3>2, <4>3 DEF FinishFrame
      <4>5. job[j].page \in Slugs
        BY Typed DEF JobType
      <4> QED
        BY <4>4, <4>5, HasIsHasIn DEF Missing
    <3> QED
      BY <1>0, <2>1, <3>1, <3>2, <3>3, JobSettled DEF FinishFrame
  <2> QED
    BY <2>2, <2>3
<1>8. ASSUME Next, NEW w \in Workers, RunMove(w) PROVE Contract!Next
  BY <1>3, <1>8, RunMoves, MoveImports
<1> QED
  BY <1>2, <1>3, <1>4, <1>5, <1>6, <1>7, <1>8, StepKinds

\* Importer implements ImportContract: whatever dies, fails or overlaps, an
\* entity once carried over stays so, and a job reported completed without
\* errors has carried over every entity of the source but the subscribers whose
\* insert failed, which the engine counts as skipped (Engine.Run,
\* processImport).
THEOREM KeepsTheContract == Spec => ImplementsContract
<1>1. Base /\ Carried /\ [Next]_vars => (Base /\ Carried)'
  BY NextKeepsBase, NextKeepsCarried
<1>2. Init => Base /\ Carried
  BY BaseInit, CarriedInit
<1> QED
  BY <1>1, <1>2, ContractInit, NextKeepsContract, PTL
  DEF Spec, ImplementsContract, Contract!Spec
-----------------------------------------------------------------------------
(* What is mapped is whole.                                                *)

Ent(run) == At(run.kind, run.pos)
OnRow(run) == run.pc \in {"replay", "map"}

\* A mapped incident has its final status.
Finals(m, r) ==
    \A p \in Slugs : \A i \in 1..Len(Feed[2]) :
      m[p][At(2, i)] # 0 => r[p][At(2, i)][m[p][At(2, i)]].status = FinalStatus(Feed[2][i])

\* So has one that is about to be mapped.
Ready(k, r) ==
    \A w \in Workers : k[w].pc = "map" /\ k[w].kind = 2 =>
      r[k[w].job.page][Ent(k[w])][k[w].row].status = FinalStatus(Feed[2][k[w].pos])

\* The row a run works on is its own: the map does not name it yet, and no
\* other run works on it.
Apart(k, m) ==
    \A w \in Workers : OnRow(k[w]) =>
      /\ k[w].row # m[k[w].job.page][Ent(k[w])]
      /\ \A v \in Workers : /\ v # w /\ OnRow(k[v])
                            /\ k[v].job.page = k[w].job.page /\ Ent(k[v]) = Ent(k[w])
           => k[v].row # k[w].row

Whole(k, m, r) == Finals(m, r) /\ Ready(k, r) /\ Apart(k, m)

LEMMA WholePrime ==
    ASSUME UNCHANGED source, Whole(worker', map', rows')
    PROVE  Whole(worker, map, rows)'
<1>1. Feed' = Feed
  BY SameSource
<1> QED
  BY <1>1 DEF Whole, Finals, Ready, Apart, OnRow, Ent, At

LEMMA WholeInit == Init => Whole(worker, map, rows)
<1> SUFFICES ASSUME Init PROVE Whole(worker, map, rows)
  OBVIOUS
<1>1. Base
  BY BaseInit
<1>2. \A p \in Slugs : \A e \in Entities : map[p][e] = 0
  BY DEF Init
<1>3. \A i \in 1..Len(Feed[2]) : At(2, i) \in Entities
  BY <1>1, AtIsEntity
<1>4. \A w \in Workers : worker[w].pc = "idle"
  BY DEF Init, NoRun
<1> QED
  BY <1>2, <1>3, <1>4 DEF Whole, Finals, Ready, Apart, OnRow

\* A run that leaves the rows alone.
LEMMA WholeKept ==
    ASSUME Base, Whole(worker, map, rows), UNCHANGED <<source, rows, map>>,
           \A v \in Workers : worker'[v] = worker[v] \/ worker'[v].pc \in {"idle", "fetch", "ack"}
    PROVE  Whole(worker, map, rows)'
<1>1. Ready(worker', rows')
  BY DEF Whole, Ready
<1>2. Apart(worker', map')
  BY DEF Whole, Apart, OnRow
<1> QED
  BY <1>1, <1>2, WholePrime DEF Whole

\* A run at its row, with the facts about the place of that row.
LEMMA RowPlace ==
    ASSUME Base, NEW w \in Workers, OnRow(worker[w])
    PROVE  /\ Ent(worker[w]) = Entity(w) /\ Page(w) = worker[w].job.page
           /\ Page(w) \in Slugs /\ Entity(w) \in Entities
           /\ worker[w].kind \in 1..4 /\ worker[w].pos \in 1..Len(Feed[worker[w].kind])
           /\ worker[w].row \in 1..Len(rows[Page(w)][Entity(w)])
           /\ Len(rows[Page(w)][Entity(w)]) \in Nat
           /\ map[Page(w)][Entity(w)] <= Len(rows[Page(w)][Entity(w)])
           /\ map[Page(w)][Entity(w)] \in Nat
<1>1. worker[w].pc \in {"replay", "map"}
  BY DEF OnRow
<1>2. worker[w].row \in 1..Len(rows[Page(w)][Entity(w)])
  BY <1>1 DEF Base, RunsOK
<1> QED
  BY <1>1, <1>2, ItemTypes, RowCounts, Typed DEF Ent, Page

LEMMA NotAComponent ==
    ASSUME Base, NEW k \in 2..4, NEW i \in 1..Len(Feed[k])
    PROVE  At(k, i) \in Entities /\ At(k, i) \notin Of(1)
<1>1. At(k, i) \in Entities /\ At(k, i) \in Of(k) /\ source \in Sources
  BY AtIsEntity, Typed
<1>2. At(k, i) \in Of(1) => FALSE
  <2>1. \A l, n \in 1..4 : Kinds[l] = Kinds[n] => l = n
    BY <1>1, EntityPlaces
  <2>2. \A l \in 1..4 : \A e \in Of(l) : e[1] = Kinds[l]
    BY <1>1, EntityPlaces
  <2>3. 1 \in 1..4 /\ k \in 1..4
    OBVIOUS
  <2> QED
    BY <1>1, <2>1, <2>2, <2>3
<1> QED
  BY <1>1, <1>2

LEMMA MoveKeepsWhole ==
    ASSUME Base, Whole(worker, map, rows), UNCHANGED source, NEW w \in Workers, Moves(w)
    PROVE  Whole(worker, map, rows)'
<1>1. /\ \A v \in Workers : v # w => worker'[v] = worker[v]
      /\ worker'[w].job = worker[w].job
  BY Typed DEF Moves, Onward
<1>2. ASSUME NEW p \in Slugs, NEW e \in Entities, e \notin Of(1), NEW n \in 1..Len(rows[p][e])
      PROVE  \/ rows'[p][e][n] = rows[p][e][n]
             \/ /\ worker[w].pc = "replay"
                /\ p = Page(w) /\ e = Entity(w) /\ n = worker[w].row
  BY <1>2 DEF Moves, Stores
<1>3. \/ map' = map
      \/ worker[w].pc = "map" /\ map' = [map EXCEPT ![Page(w)][Entity(w)] = worker[w].row]
  BY DEF Moves, Maps
<1>4. ASSUME OnRow(worker'[w])
      PROVE  /\ map' = map /\ worker[w].pc \in {"create", "replay", "map"}
             /\ worker'[w].kind = worker[w].kind /\ worker'[w].pos = worker[w].pos
             /\ Ent(worker'[w]) = Entity(w) /\ worker'[w].job.page = Page(w)
             /\ Page(w) \in Slugs /\ Entity(w) \in Entities
             /\ \/ worker'[w].row = Len(rows[Page(w)][Entity(w)]) + 1
                \/ OnRow(worker[w]) /\ worker'[w].row = worker[w].row
  <2>1. /\ map' = map /\ worker[w].pc \in {"create", "replay", "map"}
        /\ worker'[w].kind = worker[w].kind /\ worker'[w].pos = worker[w].pos
        /\ \/ worker'[w].row = Len(rows[Page(w)][Entity(w)]) + 1
           \/ worker[w].pc \in {"replay", "map"} /\ worker'[w].row = worker[w].row
    BY <1>4 DEF Moves, Maps, OnRow
  <2>2. /\ Entity(w) = At(worker[w].kind, worker[w].pos)
        /\ Page(w) \in Slugs /\ Entity(w) \in Entities
    BY <2>1, ItemTypes
  <2> QED
    BY <1>1, <2>1, <2>2 DEF OnRow, Ent, Page
<1>5. Finals(map', rows')
  <2> SUFFICES ASSUME NEW p \in Slugs, NEW i \in 1..Len(Feed[2]), NEW e, e = At(2, i),
                      map'[p][e] # 0
               PROVE  rows'[p][e][map'[p][e]].status = FinalStatus(Feed[2][i])
    BY DEF Finals
  <2>1. e \in Entities /\ e \notin Of(1)
    BY NotAComponent
  <2>2. ASSUME map[p][e] # 0, map'[p][e] = map[p][e]
        PROVE  rows'[p][e][map'[p][e]].status = FinalStatus(Feed[2][i])
    <3>1. map[p][e] \in 1..Len(rows[p][e])
      <4>1. map[p][e] \in Nat /\ Len(rows[p][e]) \in Nat /\ map[p][e] <= Len(rows[p][e])
        BY <2>1, Typed, RowCounts
      <4> QED
        BY <2>2, <4>1
    <3>2. ASSUME worker[w].pc = "replay", p = Page(w), e = Entity(w),
                 map[p][e] = worker[w].row
          PROVE  FALSE
      <4>1. OnRow(worker[w])
        BY <3>2 DEF OnRow
      <4> QED
        BY <3>2, <4>1, RowPlace DEF Whole, Apart
    <3>3. rows'[p][e][map[p][e]] = rows[p][e][map[p][e]]
      BY <1>2, <2>1, <3>1, <3>2
    <3> QED
      BY <2>2, <3>3 DEF Whole, Finals
  <2>3. CASE map' = map
    BY <2>2, <2>3
  <2>4. CASE worker[w].pc = "map" /\ map' = [map EXCEPT ![Page(w)][Entity(w)] = worker[w].row]
    <3>1. OnRow(worker[w])
      BY <2>4 DEF OnRow
    <3>2. CASE p = Page(w) /\ e = Entity(w)
      <4>1. map'[p][e] = worker[w].row
        BY <2>4, <3>1, <3>2, RowPlace, Typed
      <4>2. worker[w].kind = 2 /\ worker[w].pos = i
        <5>1. At(worker[w].kind, worker[w].pos) = At(2, i)
          BY <3>1, <3>2, RowPlace DEF Ent
        <5>2. 2 \in 1..4
          OBVIOUS
        <5> QED
          <6>1. source \in Sources /\ worker[w].kind \in 1..4
                /\ worker[w].pos \in 1..Len(Feed[worker[w].kind])
            BY <3>1, RowPlace, Typed
          <6>2. \A k, l \in 1..4 : \A m \in 1..Len(Feed[k]), n \in 1..Len(Feed[l]) :
                  At(k, m) = At(l, n) => k = l /\ m = n
            BY <6>1, EntityPlaces
          <6> QED
            BY ONLY <5>1, <5>2, <6>1, <6>2, i \in 1..Len(Feed[2])
      <4>3. rows[p][e][worker[w].row].status = FinalStatus(Feed[2][i])
        BY <2>4, <3>1, <3>2, <4>2, RowPlace DEF Whole, Ready
      <4>4. rows'[p][e][worker[w].row] = rows[p][e][worker[w].row]
        BY <1>2, <2>1, <2>4, <3>1, <3>2, RowPlace
      <4> QED
        BY <4>1, <4>3, <4>4
    <3>3. CASE ~(p = Page(w) /\ e = Entity(w))
      <4>1. map'[p][e] = map[p][e]
        BY <2>1, <2>4, <3>1, <3>3, RowPlace, Typed
      <4> QED
        BY <2>2, <4>1
    <3> QED
      BY <3>2, <3>3
  <2> QED
    BY <1>3, <2>3, <2>4
<1>6. Ready(worker', rows')
  <2> SUFFICES ASSUME NEW v \in Workers, worker'[v].pc = "map", worker'[v].kind = 2
               PROVE  rows'[worker'[v].job.page][Ent(worker'[v])][worker'[v].row].status
                        = FinalStatus(Feed[2][worker'[v].pos])
    BY DEF Ready
  <2>1. ASSUME worker[v].pc = "map", worker'[v].row = worker[v].row,
               worker'[v].kind = worker[v].kind, worker'[v].pos = worker[v].pos,
               worker'[v].job = worker[v].job
        PROVE  rows'[worker'[v].job.page][Ent(worker'[v])][worker'[v].row].status
                 = FinalStatus(Feed[2][worker'[v].pos])
    <3>1. OnRow(worker[v])
      BY <2>1 DEF OnRow
    <3>2. Ent(worker'[v]) = Entity(v) /\ worker'[v].job.page = Page(v)
      BY <2>1, <3>1, RowPlace DEF Ent
    <3>3. Entity(v) \in Entities /\ Entity(v) \notin Of(1)
      BY <2>1, <3>1, RowPlace, NotAComponent DEF Ent
    <3>4. ASSUME worker[w].pc = "replay", Page(v) = Page(w), Entity(v) = Entity(w),
                 worker[v].row = worker[w].row
          PROVE  FALSE
      <4>1. OnRow(worker[w]) /\ w # v
        BY <2>1, <3>4 DEF OnRow
      <4> QED
        BY <3>1, <3>4, <4>1, RowPlace DEF Whole, Apart
    <3>5. rows'[Page(v)][Entity(v)][worker[v].row] = rows[Page(v)][Entity(v)][worker[v].row]
      BY <1>2, <3>1, <3>3, <3>4, RowPlace
    <3>6. rows[Page(v)][Entity(v)][worker[v].row].status = FinalStatus(Feed[2][worker[v].pos])
      BY <2>1, <3>1, RowPlace DEF Whole, Ready
    <3> QED
      BY <2>1, <3>2, <3>5, <3>6
  <2>2. CASE v # w
    BY <1>1, <2>1, <2>2
  <2>3. CASE v = w
    <3>1. OnRow(worker'[w])
      BY <2>3 DEF OnRow
    <3>2. CASE worker[w].pc = "map"
      <4>1. worker'[w].row = worker[w].row
        BY <2>3, <3>2 DEF Moves, Maps
      <4> QED
        BY <1>1, <1>4, <2>1, <2>3, <3>1, <3>2, <4>1
    <3>3. CASE worker[w].pc # "map"
      <4>1. rows'[Page(w)][Entity(w)][worker'[w].row].status = FinalStatus(Item(w))
        BY <1>4, <2>3, <3>1, <3>3 DEF Moves, Maps
      <4>2. Item(w) = Feed[2][worker'[w].pos]
        BY <1>4, <2>3, <3>1 DEF Item
      <4> QED
        BY <1>4, <2>3, <3>1, <4>1, <4>2
    <3> QED
      BY <3>2, <3>3
  <2> QED
    BY <2>2, <2>3
<1>7. ASSUME NEW v \in Workers, v # w, OnRow(worker'[w]), OnRow(worker'[v]),
             worker'[v].job.page = worker'[w].job.page, Ent(worker'[v]) = Ent(worker'[w])
      PROVE  worker'[v].row # worker'[w].row
  <2>1. worker'[v] = worker[v] /\ OnRow(worker[v])
    BY <1>1, <1>7
  <2>2. worker[v].row \in 1..Len(rows[Page(w)][Entity(w)]) /\ Len(rows[Page(w)][Entity(w)]) \in Nat
        /\ worker[v].job.page = worker[w].job.page /\ Ent(worker[v]) = Entity(w)
    BY <1>1, <1>4, <1>7, <2>1, RowPlace
  <2>3. CASE worker'[w].row = Len(rows[Page(w)][Entity(w)]) + 1
    BY <2>1, <2>2, <2>3
  <2>4. CASE OnRow(worker[w]) /\ worker'[w].row = worker[w].row
    BY <1>7, <2>1, <2>2, <2>4, RowPlace DEF Whole, Apart
  <2> QED
    BY <1>4, <1>7, <2>3, <2>4
<1>8. ASSUME NEW v \in Workers, OnRow(worker'[v])
      PROVE  worker'[v].row # map'[worker'[v].job.page][Ent(worker'[v])]
  <2>1. CASE v = w
    <3>1. map' = map /\ Ent(worker'[w]) = Entity(w) /\ worker'[w].job.page = Page(w)
      BY <1>4, <1>8, <2>1
    <3>2. CASE worker'[w].row = Len(rows[Page(w)][Entity(w)]) + 1
      <4>1. /\ map[Page(w)][Entity(w)] \in Nat /\ Len(rows[Page(w)][Entity(w)]) \in Nat
            /\ map[Page(w)][Entity(w)] <= Len(rows[Page(w)][Entity(w)])
        BY <1>4, <1>8, <2>1, Typed, RowCounts
      <4> QED
        BY <2>1, <3>1, <3>2, <4>1
    <3>3. CASE OnRow(worker[w]) /\ worker'[w].row = worker[w].row
      BY <2>1, <3>1, <3>3, RowPlace DEF Whole, Apart
    <3> QED
      BY <1>4, <1>8, <2>1, <3>2, <3>3
  <2>2. CASE v # w
    <3>1. worker'[v] = worker[v] /\ OnRow(worker[v])
      BY <1>1, <1>8, <2>2
    <3>2. worker[v].row # map[Page(v)][Entity(v)]
      BY <3>1, RowPlace DEF Whole, Apart
    <3>3. CASE map' = map
      BY <3>1, <3>2, <3>3, RowPlace
    <3>4. CASE worker[w].pc = "map" /\ map' = [map EXCEPT ![Page(w)][Entity(w)] = worker[w].row]
      <4>1. OnRow(worker[w])
        BY <3>4 DEF OnRow
      <4>2. CASE Page(v) = Page(w) /\ Entity(v) = Entity(w)
        <5>1. map'[Page(v)][Entity(v)] = worker[w].row
          BY <3>4, <4>1, <4>2, RowPlace, Typed
        <5>2. worker[v].row # worker[w].row
          BY <2>2, <3>1, <4>1, <4>2, RowPlace DEF Whole, Apart
        <5> QED
          BY <3>1, <5>1, <5>2, RowPlace
      <4>3. CASE ~(Page(v) = Page(w) /\ Entity(v) = Entity(w))
        <5>1. map'[Page(v)][Entity(v)] = map[Page(v)][Entity(v)]
          BY <3>1, <3>4, <4>1, <4>3, RowPlace, Typed
        <5> QED
          BY <3>1, <3>2, <5>1, RowPlace
      <4> QED
        BY <4>2, <4>3
    <3> QED
      BY <1>3, <3>3, <3>4
  <2> QED
    BY <2>1, <2>2
<1>9. Apart(worker', map')
  <2> SUFFICES ASSUME NEW u \in Workers, OnRow(worker'[u]), NEW v \in Workers, v # u,
                      OnRow(worker'[v]), worker'[v].job.page = worker'[u].job.page,
                      Ent(worker'[v]) = Ent(worker'[u])
               PROVE  worker'[v].row # worker'[u].row
    BY <1>8 DEF Apart
  <2>1. CASE u = w
    BY <1>7, <2>1
  <2>2. CASE v = w
    BY <1>7, <2>2
  <2>3. CASE u # w /\ v # w
    BY <1>1, <2>3 DEF Whole, Apart
  <2> QED
    BY <2>1, <2>2, <2>3
<1> QED
  BY <1>5, <1>6, <1>9, WholePrime DEF Whole

LEMMA NextKeepsWhole == Base /\ Whole(worker, map, rows) /\ [Next]_vars => Whole(worker, map, rows)'
<1> SUFFICES ASSUME Base, Whole(worker, map, rows), [Next]_vars
             PROVE  Whole(worker, map, rows)'
  OBVIOUS
<1>1. CASE UNCHANGED vars
  BY <1>1, WholeKept DEF vars, dbVars
<1>2. ASSUME Next PROVE Step /\ UNCHANGED source
  BY <1>2 DEF Next
<1>3. CASE Next /\ ApiMove
  BY <1>2, <1>3, ApiMoveKeepsBase, WholeKept DEF ApiFrame
<1>4. ASSUME Next, NEW w \in Workers, NEW j \in Jobs, processImport(w, j)
      PROVE  Whole(worker, map, rows)'
  BY <1>2, <1>4, BeginKeepsBase, WholeKept DEF BeginFrame
<1>5. ASSUME Next, NEW w \in Workers, Leaves(w) PROVE Whole(worker, map, rows)'
  <2>1. NoRun.pc = "idle"
    BY DEF NoRun
  <2> QED
    BY <1>2, <1>5, <2>1, LeaveKeepsBase, WholeKept DEF LeaveFrame
<1>6. ASSUME Next, NEW w \in Workers, Finishes(w) PROVE Whole(worker, map, rows)'
  <2>1. FinishFrame(w) /\ UNCHANGED source
    BY <1>2, <1>6, FinishKeepsBase
  <2>2. worker'[w].pc = "ack"
    BY <2>1, Typed DEF FinishFrame, RunType
  <2> QED
    BY <2>1, <2>2, WholeKept DEF FinishFrame
<1>7. ASSUME Next, NEW w \in Workers, RunMove(w) PROVE Whole(worker, map, rows)'
  BY <1>2, <1>7, RunMoves, MoveKeepsWhole
<1> QED
  BY <1>1, <1>2, <1>3, <1>4, <1>5, <1>6, <1>7, StepKinds

\* A row the map names has been carried over whole: importIncident stores the
\* mapping last, and no other run works on the row by then.
THEOREM MappedWhole == Spec => []MappedIsWhole
<1>1. Base /\ Whole(worker, map, rows) /\ [Next]_vars => (Base /\ Whole(worker, map, rows))'
  BY NextKeepsBase, NextKeepsWhole
<1>2. Init => Base /\ Whole(worker, map, rows)
  BY BaseInit, WholeInit
<1>3. Base /\ Whole(worker, map, rows) => MappedIsWhole
  <2> SUFFICES ASSUME Base, Whole(worker, map, rows), NEW p \in Slugs,
                      NEW i \in 1..Len(Feed[2]), Mapped(p, <<"incident", Feed[2][i].ext>>)
               PROVE  LET e == <<"incident", Feed[2][i].ext>> IN
                      rows[p][e][map[p][e]].status = FinalStatus(Feed[2][i])
    BY DEF MappedIsWhole
  <2>1. At(2, i) = <<"incident", Feed[2][i].ext>>
    BY DEF At, Kinds
  <2> QED
    BY <2>1 DEF Whole, Finals, Mapped
<1> QED
  BY <1>1, <1>2, <1>3, PTL DEF Spec
-----------------------------------------------------------------------------
(* The tree of components, on pages nobody raced on.                       *)

\* The i-th component has its parent, if the source has that parent.
LinkedIn(m, r, p, i) ==
    LET c == At(1, i)
        up == <<"component", Feed[1][i].parent>>
    IN up \in Of(1) => /\ m[p][c] # 0 /\ m[p][up] # 0
                       /\ r[p][c][m[p][c]].parent = m[p][up]

\* There is one run at a time, in mode "skip".
Alone(k, d) ==
    \A w \in Workers : k[w].pc # "idle" /\ k[w].job.page \notin d =>
      /\ k[w].job.mode = "skip"
      /\ \A v \in Workers : v # w /\ k[v].pc # "idle" => k[v].job.page # k[w].job.page

\* What it knows of components is what the map says, and what it is creating
\* is not mapped; if it is clean it knows all the components it has passed and
\* has linked those its second pass has passed, but for those it left loose.
Knows(run, m, r) ==
    /\ \A e \in Of(1) : run.comp[e] \in {0, m[run.job.page][e]}
    /\ \A e \in Of(1) : (e \in run.pending) <=> (run.comp[e] # 0)
    /\ run.pc \in {"create", "replay", "map"} => m[run.job.page][Ent(run)] = 0
    /\ CleanRun(run) => \A i \in 1..Len(Feed[1]) :
         /\ Reached(run, 1, i) => run.comp[At(1, i)] # 0
         /\ ParentReached(run, i) =>
              LinkedIn(m, r, run.job.page, i) \/ At(1, i) \in run.unsaid.loose

Knowing(k, m, r, d) ==
    \A w \in Workers : k[w].pc # "idle" /\ k[w].job.page \notin d => Knows(k[w], m, r)

\* A clean success has linked everything that was not left loose.
CleanRow(row) == row.status = "completed" /\ ~row.errors
Linking(l, u, m, r, d) ==
    \A j \in Jobs : CleanRow(l[j]) /\ l[j].page \notin d =>
      \A i \in 1..Len(Feed[1]) : LinkedIn(m, r, l[j].page, i) \/ At(1, i) \in u[j].loose

Tree(k, l, u, m, r, d) == Alone(k, d) /\ Knowing(k, m, r, d) /\ Linking(l, u, m, r, d)

LEMMA TreePrime ==
    ASSUME UNCHANGED source, Tree(worker', job', unsaid', map', rows', raced')
    PROVE  Tree(worker, job, unsaid, map, rows, raced)'
<1>1. Feed' = Feed /\ Of(1)' = Of(1)
  BY SameSource
<1>2. Alone(worker, raced)'
  BY DEF Tree, Alone
<1>3. \A p, i : LinkedIn(map, rows, p, i)' <=> LinkedIn(map', rows', p, i)
  BY <1>1 DEF LinkedIn, At
<1>4. Linking(job, unsaid, map, rows, raced)'
  BY <1>1, <1>3 DEF Tree, Linking, CleanRow, At
<1>5. Knowing(worker, map, rows, raced)'
  <2> SUFFICES ASSUME NEW w \in Workers, worker'[w].pc # "idle",
                      worker'[w].job.page \notin raced'
               PROVE  Knows(worker[w], map, rows)'
    BY DEF Knowing
  <2>1. Knows(worker'[w], map', rows')
    BY DEF Tree, Knowing
  <2>2. Ent(worker[w])' = Ent(worker'[w])
    BY <1>1 DEF Ent, At
  <2>3. \A i : /\ Reached(worker[w], 1, i)' <=> Reached(worker'[w], 1, i)
               /\ ParentReached(worker[w], i)' <=> ParentReached(worker'[w], i)
               /\ At(1, i)' = At(1, i)
    BY <1>1 DEF Reached, ParentReached, At
  <2>4. \A p, i : LinkedIn(map, rows, p, i)' <=> LinkedIn(map', rows', p, i)
    BY <1>3
  <2> QED
    BY <1>1, <2>1, <2>2, <2>3, <2>4 DEF Knows, CleanRun
<1> QED
  BY <1>2, <1>4, <1>5 DEF Tree

LEMMA TreeInit == Init => Tree(worker, job, unsaid, map, rows, raced)
<1> SUFFICES ASSUME Init PROVE Tree(worker, job, unsaid, map, rows, raced)
  OBVIOUS
<1>1. \A w \in Workers : worker[w].pc = "idle"
  BY DEF Init, NoRun
<1>2. \A j \in Jobs : job[j].status = "none"
  BY DEF Init, NoJob
<1> QED
  BY <1>1, <1>2 DEF Tree, Alone, Knowing, Linking, CleanRow

\* The run a step belongs to is the only one on its page, and in mode "skip".
LEMMA CalmRun ==
    ASSUME Base, Tree(worker, job, unsaid, map, rows, raced), NEW w \in Workers,
           worker[w].pc # "idle", Page(w) \notin raced
    PROVE  /\ worker[w].job.mode = "skip"
           /\ Knows(worker[w], map, rows)
           /\ \A v \in Workers : v # w /\ worker[v].pc # "idle" => Page(v) # Page(w)
BY DEF Tree, Alone, Knowing, Page

\* An entity that is a component is found by a run at components.
LEMMA ComponentPlace ==
    ASSUME Base, NEW w \in Workers, worker[w].pc \in {"lookup", "create", "replay", "map", "parents"},
           Entity(w) \in Of(1)
    PROVE  worker[w].kind = 1
<1>1. Entity(w) \in Of(worker[w].kind) /\ worker[w].kind \in 1..4 /\ source \in Sources
  BY ItemTypes, Typed
<1>2. \A l, n \in 1..4 : Kinds[l] = Kinds[n] => l = n
  BY <1>1, EntityPlaces
<1>3. \A l \in 1..4 : \A e \in Of(l) : e[1] = Kinds[l]
  BY <1>1, EntityPlaces
<1>4. 1 \in 1..4
  OBVIOUS
<1> QED
  BY <1>1, <1>2, <1>3, <1>4

LEMMA ComponentsAreEntities ==
    ASSUME Base
    PROVE  /\ \A e \in Of(1) : e \in Entities
           /\ \A e \in Of(1) : \E i \in 1..Len(Feed[1]) : e = At(1, i)
           /\ \A i \in 1..Len(Feed[1]) : At(1, i) \in Of(1)
<1>1. source \in Sources /\ 1 \in 1..4
  BY Typed
<1>2. Of(1) = {At(1, i) : i \in 1..Len(Feed[1])} /\ Of(1) \subseteq Entities
  BY <1>1, EntityPlaces
<1> QED
  BY <1>2

\* Once named, a component keeps its row.
LEMMA NameStays ==
    ASSUME Base, Tree(worker, job, unsaid, map, rows, raced), NEW w \in Workers, Moves(w),
           NEW p \in Slugs, p \notin raced, NEW e \in Of(1), map[p][e] # 0
    PROVE  map'[p][e] = map[p][e]
<1>1. CASE map' = map
  BY <1>1
<1>2. CASE worker[w].pc = "map" /\ map' = [map EXCEPT ![Page(w)][Entity(w)] = worker[w].row]
  <2>1. Page(w) \in Slugs /\ Entity(w) \in Entities /\ e \in Entities
    BY <1>2, ItemTypes, ComponentsAreEntities
  <2>2. CASE p = Page(w) /\ e = Entity(w)
    <3>1. worker[w].kind = 1
      BY <1>2, <2>2, ComponentPlace
    <3>2. Knows(worker[w], map, rows) /\ Entity(w) = Ent(worker[w])
      BY <1>2, <2>2, CalmRun, ItemTypes DEF Ent
    <3> QED
      BY <1>2, <2>2, <3>1, <3>2 DEF Knows, Page
  <2>3. CASE ~(p = Page(w) /\ e = Entity(w))
    BY <1>2, <2>1, <2>3, Typed
  <2> QED
    BY <2>2, <2>3
<1> QED
  BY <1>1, <1>2 DEF Moves, Maps

\* What the second pass of a clean run finds.
LEMMA ParentKnown ==
    ASSUME Base, NEW w \in Workers, worker[w].pc = "parents", Knows(worker[w], map, rows),
           ParentOf(w) # 0
    PROVE  LET up == <<"component", Item(w).parent>> IN
           /\ up \in Of(1) /\ ParentOf(w) = map[Page(w)][up] /\ map[Page(w)][up] # 0
BY DEF Knows, ParentOf, Page

LEMMA LinkedStays ==
    ASSUME Base, Tree(worker, job, unsaid, map, rows, raced), NEW w \in Workers, Moves(w),
           NEW p \in Slugs, p \notin raced, NEW i \in 1..Len(Feed[1]), LinkedIn(map, rows, p, i)
    PROVE  LinkedIn(map', rows', p, i)
<1> SUFFICES ASSUME NEW up, up = <<"component", Feed[1][i].parent>>, up \in Of(1),
                    NEW c, c = At(1, i)
             PROVE  /\ map'[p][c] # 0 /\ map'[p][up] # 0
                    /\ rows'[p][c][map'[p][c]].parent = map'[p][up]
  BY DEF LinkedIn
<1>1. c \in Of(1) /\ c \in Entities /\ up \in Entities
  BY ComponentsAreEntities
<1>2. map[p][c] # 0 /\ map[p][up] # 0 /\ rows[p][c][map[p][c]].parent = map[p][up]
  BY DEF LinkedIn
<1>3. map'[p][c] = map[p][c] /\ map'[p][up] = map[p][up]
  BY <1>1, <1>2, NameStays
<1>4. map[p][c] \in 1..Len(rows[p][c])
  <2>1. map[p][c] \in Nat /\ Len(rows[p][c]) \in Nat /\ map[p][c] <= Len(rows[p][c])
    BY <1>1, Typed, RowCounts
  <2> QED
    BY <1>2, <2>1
<1>5. \/ rows'[p][c][map[p][c]].parent = rows[p][c][map[p][c]].parent
      \/ /\ worker[w].pc = "parents" /\ ParentOf(w) # 0
         /\ p = Page(w) /\ c = Entity(w)
         /\ rows'[p][c][map[p][c]].parent = ParentOf(w)
  BY <1>1, <1>4 DEF Moves, Stores
<1>6. ASSUME worker[w].pc = "parents", ParentOf(w) # 0, p = Page(w), c = Entity(w)
      PROVE  ParentOf(w) = map[p][up]
  <2>1. Knows(worker[w], map, rows)
    BY <1>6, CalmRun
  <2>2. worker[w].kind = 1 /\ worker[w].pos \in 1..Len(Feed[1])
        /\ At(1, worker[w].pos) = At(1, i)
    BY <1>1, <1>6, ComponentPlace, ItemTypes
  <2>3. worker[w].pos = i
    <3>1. 1 \in 1..4 /\ source \in Sources
      BY Typed
    <3>2. \A k, l \in 1..4 : \A m \in 1..Len(Feed[k]), n \in 1..Len(Feed[l]) :
            At(k, m) = At(l, n) => k = l /\ m = n
      BY <3>1, EntityPlaces
    <3> QED
      BY ONLY <2>2, <3>1, <3>2, i \in 1..Len(Feed[1])
  <2>4. Item(w).parent = Feed[1][i].parent
    BY <2>2, <2>3 DEF Item
  <2> QED
    BY <1>6, <2>1, <2>4, ParentKnown
<1> QED
  BY <1>2, <1>3, <1>5, <1>6

LEMMA MoveKeepsKnows ==
    ASSUME Base, Tree(worker, job, unsaid, map, rows, raced), UNCHANGED source,
           NEW w \in Workers, Moves(w), Page(w) \notin raced
    PROVE  Knows(worker'[w], map', rows')
<1>1. /\ worker[w].pc # "idle" /\ worker'[w].job = worker[w].job
      /\ Page(w) = worker[w].job.page /\ Page(w) \in Slugs
  BY Typed DEF Moves, Onward, Page, RunType, JobType
<1>2. Knows(worker[w], map, rows) /\ worker[w].job.mode = "skip"
  BY <1>1, CalmRun
<1>3. \A e \in Of(1) : map[Page(w)][e] # 0 => map'[Page(w)][e] = map[Page(w)][e]
  BY <1>1, NameStays
<1> DEFINE old == worker[w]
           new == worker'[w]
<1>4. \/ new.comp = old.comp /\ new.pending = old.pending
      \/ /\ old.kind = 1 /\ old.pc \in {"lookup", "map"}
         /\ map'[Page(w)][Entity(w)] # 0
         /\ new.comp = [old.comp EXCEPT ![Entity(w)] = map'[Page(w)][Entity(w)]]
         /\ new.pending = old.pending \cup {Entity(w)}
  BY <1>2 DEF Moves, Learns
<1>5. old.comp \in [Of(1) -> Nat]
  BY Typed DEF RunType
<1>6. /\ \A e \in Of(1) : new.comp[e] \in {0, map'[Page(w)][e]}
      /\ \A e \in Of(1) : (e \in new.pending) <=> (new.comp[e] # 0)
      /\ \A e \in Of(1) : old.comp[e] # 0 => new.comp[e] # 0
  <2>1. /\ \A e \in Of(1) : old.comp[e] \in {0, map[Page(w)][e]}
        /\ \A e \in Of(1) : (e \in old.pending) <=> (old.comp[e] # 0)
    BY <1>1, <1>2 DEF Knows
  <2>2. \A e \in Of(1) : old.comp[e] \in {0, map'[Page(w)][e]}
    BY <1>3, <2>1
  <2>3. CASE new.comp = old.comp /\ new.pending = old.pending
    BY <2>1, <2>2, <2>3
  <2>4. CASE /\ old.kind = 1 /\ old.pc \in {"lookup", "map"}
             /\ map'[Page(w)][Entity(w)] # 0
             /\ new.comp = [old.comp EXCEPT ![Entity(w)] = map'[Page(w)][Entity(w)]]
             /\ new.pending = old.pending \cup {Entity(w)}
    <3>1. Entity(w) \in Of(1)
      BY <2>4, ItemTypes
    <3> HIDE DEF old, new
    <3>2. ASSUME NEW e \in Of(1)
          PROVE  new.comp[e] = IF e = Entity(w) THEN map'[Page(w)][Entity(w)] ELSE old.comp[e]
      BY <1>5, <2>4, <3>1
    <3> QED
      BY <2>1, <2>2, <2>4, <3>2
  <2> QED
    BY <1>4, <2>3, <2>4
<1>7. ASSUME new.pc \in {"create", "replay", "map"}
      PROVE  map'[Page(w)][Ent(new)] = 0
  <2>1. map' = map /\ new.kind = old.kind /\ new.pos = old.pos
    BY <1>7 DEF Moves, Maps
  <2>2. Ent(new) = Ent(old)
    BY <2>1 DEF Ent
  <2>3. CASE old.pc \in {"create", "replay", "map"}
    BY <1>1, <1>2, <1>7, <2>1, <2>2, <2>3 DEF Knows
  <2>4. CASE old.pc \notin {"create", "replay", "map"}
    <3>1. new.pc = "create"
      BY <1>7, <2>4 DEF Moves, Maps
    <3>2. map[Page(w)][Entity(w)] = 0
      BY <1>2, <1>7, <2>1, <2>4, <3>1 DEF Moves, Maps
    <3>3. Entity(w) = Ent(old)
      BY DEF Entity, Item, Ent, At
    <3> QED
      BY <2>1, <2>2, <3>2, <3>3
  <2> QED
    BY <2>3, <2>4
<1>8. ASSUME CleanRun(new), NEW i \in 1..Len(Feed[1]), Reached(new, 1, i)
      PROVE  new.comp[At(1, i)] # 0
  <2>1. CleanRun(old) /\ 1 \in 1..4
    BY <1>8 DEF Moves, Honest
  <2>2. \/ Reached(old, 1, i)
        \/ /\ old.kind = 1 /\ i = old.pos
           /\ new.comp[Entity(w)] # 0
    BY <1>8, <2>1 DEF Moves, Honest
  <2>3. At(1, i) \in Of(1)
    BY ComponentsAreEntities
  <2>4. CASE Reached(old, 1, i)
    BY <1>2, <1>6, <2>1, <2>3, <2>4 DEF Knows
  <2>5. CASE old.kind = 1 /\ i = old.pos /\ new.comp[Entity(w)] # 0
    <3>1. Entity(w) = At(1, i)
      BY <2>5 DEF Entity, Item, At
    <3> QED
      BY <2>5, <3>1
  <2> QED
    BY <2>2, <2>4, <2>5
<1>9. ASSUME CleanRun(new), NEW i \in 1..Len(Feed[1]), ParentReached(new, i)
      PROVE  LinkedIn(map', rows', Page(w), i) \/ At(1, i) \in new.unsaid.loose
  <2>1. CleanRun(old)
    BY <1>9 DEF Moves, Honest
  <2>2. \/ ParentReached(old, i)
        \/ /\ old.pc = "parents" /\ i = old.pos
           /\ \/ ParentOf(w) = 0
              \/ Entity(w) \in new.unsaid.loose
              \/ LET n == old.comp[Entity(w)] IN
                 n \in 1..Len(rows[Page(w)][Entity(w)]) =>
                   rows'[Page(w)][Entity(w)][n].parent = ParentOf(w)
    BY <1>9 DEF Moves, Honest
  <2>3. CASE ParentReached(old, i)
    <3>1. LinkedIn(map, rows, Page(w), i) \/ At(1, i) \in old.unsaid.loose
      BY <1>1, <1>2, <2>1, <2>3 DEF Knows
    <3>2. old.unsaid.loose \subseteq new.unsaid.loose
      BY DEF Moves, Onward, Remembers
    <3> QED
      BY <1>1, <3>1, <3>2, LinkedStays
  <2>4. CASE /\ old.pc = "parents" /\ i = old.pos
             /\ \/ ParentOf(w) = 0
                \/ LET n == old.comp[Entity(w)] IN
                   n \in 1..Len(rows[Page(w)][Entity(w)]) =>
                     rows'[Page(w)][Entity(w)][n].parent = ParentOf(w)
    <3> SUFFICES ASSUME NEW up, up = <<"component", Feed[1][i].parent>>, up \in Of(1),
                        NEW c, c = At(1, i)
                 PROVE  /\ map'[Page(w)][c] # 0 /\ map'[Page(w)][up] # 0
                        /\ rows'[Page(w)][c][map'[Page(w)][c]].parent = map'[Page(w)][up]
      BY DEF LinkedIn
    <3>1. old.kind = 1 /\ Entity(w) = c /\ Item(w).parent = Feed[1][i].parent
      <4>1. old.kind = 1
        BY <2>4 DEF Base, RunsOK, RunOK
      <4> QED
        BY <2>4, <4>1 DEF Entity, Item, At
    <3>2. c \in Of(1) /\ c \in Entities
      BY ComponentsAreEntities
    <3>3. \A n \in 1..Len(Feed[1]) : Reached(old, 1, n)
      BY <2>4, <3>1 DEF Reached
    <3>4. old.comp[c] # 0 /\ old.comp[up] # 0
      <4>1. PICK n \in 1..Len(Feed[1]) : up = At(1, n)
        BY ComponentsAreEntities
      <4> QED
        BY <1>2, <2>1, <3>3, <4>1 DEF Knows
    <3>5. old.comp[c] = map[Page(w)][c] /\ old.comp[up] = map[Page(w)][up]
      BY <1>1, <1>2, <3>2, <3>4 DEF Knows
    <3>6. ParentOf(w) = old.comp[up]
      <4>1. c \in old.pending
        BY <1>2, <3>2, <3>4 DEF Knows
      <4> QED
        BY <3>1, <4>1 DEF ParentOf
    <3>7. old.comp[c] \in 1..Len(rows[Page(w)][c])
      <4>1. /\ map[Page(w)][c] \in Nat /\ Len(rows[Page(w)][c]) \in Nat
            /\ map[Page(w)][c] <= Len(rows[Page(w)][c])
        BY <1>1, <3>2, Typed, RowCounts
      <4> QED
        BY <3>4, <3>5, <4>1
    <3>8. rows'[Page(w)][c][old.comp[c]].parent = old.comp[up]
      BY <2>4, <3>1, <3>4, <3>6, <3>7
    <3>9. map'[Page(w)][c] = map[Page(w)][c] /\ map'[Page(w)][up] = map[Page(w)][up]
      BY <1>3, <3>2, <3>4, <3>5
    <3> QED
      BY <3>4, <3>5, <3>8, <3>9
  <2>5. CASE old.pc = "parents" /\ i = old.pos /\ Entity(w) \in new.unsaid.loose
    <3>1. old.kind = 1
      BY <2>5 DEF Base, RunsOK, RunOK
    <3> QED
      BY <2>5, <3>1 DEF Entity, Item, At
  <2> QED
    BY <2>2, <2>3, <2>4, <2>5
<1> QED
  BY <1>1, <1>6, <1>7, <1>8, <1>9 DEF Knows

LEMMA KnowsElsewhere ==
    ASSUME Base, Tree(worker, job, unsaid, map, rows, raced), NEW w \in Workers, Moves(w),
           NEW v \in Workers, worker[v].pc # "idle", Page(v) \notin raced, Page(v) # Page(w)
    PROVE  Knows(worker[v], map', rows')
<1>1. Page(v) \in Slugs /\ Page(v) = worker[v].job.page
  BY Typed DEF Page, RunType, JobType
<1>2. Knows(worker[v], map, rows)
  BY CalmRun
<1>3. map'[Page(v)] = map[Page(v)]
  BY <1>1, Typed DEF Moves, Maps
<1>4. \A i \in 1..Len(Feed[1]) :
        LinkedIn(map, rows, Page(v), i) => LinkedIn(map', rows', Page(v), i)
  BY <1>1, LinkedStays
<1> QED
  BY <1>1, <1>2, <1>3, <1>4 DEF Knows

LEMMA MoveKeepsTree ==
    ASSUME Base, Tree(worker, job, unsaid, map, rows, raced), UNCHANGED source,
           NEW w \in Workers, Moves(w)
    PROVE  Tree(worker, job, unsaid, map, rows, raced)'
<1>1. /\ \A v \in Workers : v # w => worker'[v] = worker[v]
      /\ worker'[w].job = worker[w].job /\ worker[w].pc # "idle" /\ worker'[w].pc # "idle"
      /\ UNCHANGED <<job, unsaid, raced>>
  BY Typed DEF Moves, Onward, restVars
<1>2. Alone(worker', raced')
  BY <1>1 DEF Tree, Alone
<1>3. ASSUME NEW v \in Workers, worker'[v].pc # "idle", worker'[v].job.page \notin raced'
      PROVE  Knows(worker'[v], map', rows')
  <2>1. CASE v = w
    BY <1>1, <1>3, <2>1, MoveKeepsKnows DEF Page
  <2>2. CASE v # w
    <3>1. worker'[v] = worker[v] /\ worker[v].pc # "idle" /\ Page(v) \notin raced
      BY <1>1, <1>3, <2>2 DEF Page
    <3>2. Page(v) # Page(w)
      BY <1>1, <2>2, <3>1, CalmRun
    <3> QED
      BY <3>1, <3>2, KnowsElsewhere
  <2> QED
    BY <2>1, <2>2
<1>4. ASSUME NEW j \in Jobs, CleanRow(job'[j]), job'[j].page \notin raced',
             NEW i \in 1..Len(Feed[1])
      PROVE  LinkedIn(map', rows', job'[j].page, i) \/ At(1, i) \in unsaid'[j].loose
  <2>1. job[j].page \in Slugs
    BY Typed DEF JobType
  <2>2. LinkedIn(map, rows, job[j].page, i) \/ At(1, i) \in unsaid[j].loose
    BY <1>1, <1>4 DEF Tree, Linking
  <2> QED
    BY <1>1, <1>4, <2>1, <2>2, LinkedStays
<1> QED
  BY <1>2, <1>3, <1>4, TreePrime DEF Tree, Knowing, Linking

\* Where neither runs nor rows nor mappings change, only what is reported as a
\* clean success may.
LEMMA TreeKept ==
    ASSUME Base, Tree(worker, job, unsaid, map, rows, raced), UNCHANGED <<source, worker, rows, map, unsaid, raced>>,
           \A j \in Jobs : CleanRow(job'[j]) => job'[j] = job[j]
    PROVE  Tree(worker, job, unsaid, map, rows, raced)'
<1>1. Linking(job', unsaid', map', rows', raced')
  BY DEF Tree, Linking
<1> QED
  BY <1>1, TreePrime DEF Tree

LEMMA BeginKeepsTree ==
    ASSUME Base, Tree(worker, job, unsaid, map, rows, raced), UNCHANGED source,
           NEW w \in Workers, NEW j \in Jobs, BeginFrame(w, j)
    PROVE  Tree(worker, job, unsaid, map, rows, raced)'
<1>1. /\ worker'[w].pc = "fetch" /\ worker'[w].kind = 1 /\ worker'[w].job = job[j]
      /\ worker'[w].comp = [e \in Of(1) |-> 0] /\ worker'[w].pending = {}
      /\ \A v \in Workers : v # w => worker'[v] = worker[v]
      /\ UNCHANGED <<rows, map, unsaid>> /\ raced \subseteq raced'
      /\ worker[w].pc = "idle"
  BY DEF BeginFrame
<1>2. ASSUME job[j].page \notin raced'
      PROVE  /\ job[j].mode = "skip"
             /\ \A v \in Workers : worker[v].pc # "idle" => worker[v].job.page # job[j].page
  <2>1. job[j].mode # "update" /\ \A v \in Workers : ~Busy(v, job[j].page)
    BY <1>2 DEF BeginFrame
  <2>2. job[j].mode \in {"skip", "update"}
    BY Typed DEF JobType
  <2> QED
    BY <2>1, <2>2 DEF Busy, Page
<1>3. Alone(worker', raced')
  <2> SUFFICES ASSUME NEW u \in Workers, worker'[u].pc # "idle", worker'[u].job.page \notin raced'
               PROVE  /\ worker'[u].job.mode = "skip"
                      /\ \A v \in Workers : v # u /\ worker'[v].pc # "idle" =>
                           worker'[v].job.page # worker'[u].job.page
    BY DEF Alone
  <2>1. CASE u = w
    BY <1>1, <1>2, <2>1
  <2>2. CASE u # w
    <3>1. worker[u].pc # "idle" /\ worker[u].job.page \notin raced /\ worker'[u] = worker[u]
      BY <1>1, <2>2
    <3>2. ASSUME NEW v \in Workers, v # u, worker'[v].pc # "idle"
          PROVE  worker'[v].job.page # worker'[u].job.page
      <4>1. CASE v = w
        BY <1>1, <1>2, <3>1, <4>1
      <4>2. CASE v # w
        BY <1>1, <3>1, <3>2, <4>2 DEF Tree, Alone
      <4> QED
        BY <4>1, <4>2
    <3> QED
      BY <3>1, <3>2 DEF Tree, Alone
  <2> QED
    BY <2>1, <2>2
<1>4. ASSUME NEW v \in Workers, worker'[v].pc # "idle", worker'[v].job.page \notin raced'
      PROVE  Knows(worker'[v], map', rows')
  <2>1. CASE v = w
    <3>1. \A i : ~Reached(worker'[w], 1, i) /\ ~ParentReached(worker'[w], i)
      BY <1>1 DEF Reached, ParentReached
    <3> QED
      BY <1>1, <2>1, <3>1 DEF Knows
  <2>2. CASE v # w
    BY <1>1, <1>4, <2>2 DEF Tree, Knowing
  <2> QED
    BY <2>1, <2>2
<1>5. ASSUME NEW i \in Jobs, CleanRow(job'[i]) PROVE job'[i] = job[i]
  BY <1>5 DEF BeginFrame, CleanRow
<1>6. Linking(job', unsaid', map', rows', raced')
  BY <1>1, <1>5 DEF Tree, Linking
<1> QED
  BY <1>3, <1>4, <1>6, TreePrime DEF Tree, Knowing

LEMMA LeaveKeepsTree ==
    ASSUME Base, Tree(worker, job, unsaid, map, rows, raced), UNCHANGED source,
           NEW w \in Workers, LeaveFrame(w)
    PROVE  Tree(worker, job, unsaid, map, rows, raced)'
<1>1. /\ worker'[w].pc = "idle" /\ \A v \in Workers : v # w => worker'[v] = worker[v]
      /\ UNCHANGED <<job, rows, map, unsaid, raced>>
  BY DEF LeaveFrame, NoRun
<1>2. \A v \in Workers : worker'[v].pc # "idle" => worker'[v] = worker[v]
  BY <1>1
<1>3. Alone(worker', raced')
  BY <1>1, <1>2 DEF Tree, Alone
<1>4. Knowing(worker', map', rows', raced') /\ Linking(job', unsaid', map', rows', raced')
  BY <1>1, <1>2 DEF Tree, Knowing, Linking
<1> QED
  BY <1>3, <1>4, TreePrime DEF Tree

LEMMA FinishKeepsTree ==
    ASSUME Base, Tree(worker, job, unsaid, map, rows, raced), UNCHANGED source,
           NEW w \in Workers, FinishFrame(w)
    PROVE  Tree(worker, job, unsaid, map, rows, raced)'
<1> DEFINE old == worker[w]
           new == [old EXCEPT !.pc = "ack"]
<1>1. /\ old.pc = "finish" /\ worker'[w] = new
      /\ \A v \in Workers : v # w => worker'[v] = worker[v]
      /\ UNCHANGED <<rows, map, raced>>
  BY DEF FinishFrame
<1>2. /\ new.pc = "ack" /\ new.job = old.job /\ new.kind = old.kind /\ new.comp = old.comp
      /\ new.pending = old.pending /\ new.errors = old.errors /\ new.unsaid = old.unsaid
      /\ new.failed = old.failed /\ old.kind \in 1..4
  BY Typed DEF RunType
<1>3. /\ old.id \in Jobs /\ Page(w) = job[old.id].page /\ (old.failed \/ old.kind = 4)
      /\ Page(w) = old.job.page
  BY <1>1 DEF Base, RunsOK, RunOK, Page
<1> HIDE DEF new
<1>4. Alone(worker', raced')
  BY <1>1, <1>2 DEF Tree, Alone
<1>5. ASSUME old.job.page \notin raced PROVE Knows(new, map, rows)
  <2>1. Knows(old, map, rows)
    BY <1>1, <1>5 DEF Tree, Knowing
  <2>2. \A i \in 1..Len(Feed[1]) : /\ Reached(new, 1, i) => Reached(old, 1, i)
                                   /\ ParentReached(new, i) => ParentReached(old, i)
    BY <1>1, <1>2 DEF Reached, ParentReached
  <2>3. CleanRun(new) => CleanRun(old)
    BY <1>2 DEF CleanRun
  <2> HIDE DEF old
  <2> QED
    BY <1>2, <2>1, <2>2, <2>3 DEF Knows
<1>6. Knowing(worker', map', rows', raced')
  BY <1>1, <1>2, <1>5 DEF Tree, Knowing
<1>7. ASSUME NEW j \in Jobs, CleanRow(job'[j]), job'[j].page \notin raced,
             NEW i \in 1..Len(Feed[1])
      PROVE  LinkedIn(map, rows, job'[j].page, i) \/ At(1, i) \in unsaid'[j].loose
  <2>1. CASE j # old.id \/ (job' = job /\ unsaid' = unsaid)
    <3>1. job'[j] = job[j] /\ unsaid'[j] = unsaid[j]
      BY <2>1 DEF FinishFrame
    <3> QED
      BY <1>7, <3>1 DEF Tree, Linking
  <2>2. CASE j = old.id /\ ~(job' = job /\ unsaid' = unsaid)
    <3>1. ~old.failed /\ ~old.errors /\ unsaid'[j] = old.unsaid /\ job'[j].page = job[j].page
      BY <1>7, <2>2 DEF FinishFrame, CleanRow
    <3>2. Knows(old, map, rows) /\ CleanRun(old) /\ ParentReached(old, i)
      BY <1>1, <1>3, <1>7, <2>2, <3>1 DEF Tree, Knowing, CleanRun, ParentReached
    <3> QED
      BY <1>3, <2>2, <3>1, <3>2 DEF Knows
  <2> QED
    BY <2>1, <2>2
<1> QED
  BY <1>1, <1>4, <1>6, <1>7, TreePrime DEF Tree, Linking

LEMMA NextKeepsTree ==
    Base /\ Tree(worker, job, unsaid, map, rows, raced) /\ [Next]_vars
      => Tree(worker, job, unsaid, map, rows, raced)'
<1> SUFFICES ASSUME Base, Tree(worker, job, unsaid, map, rows, raced), [Next]_vars
             PROVE  Tree(worker, job, unsaid, map, rows, raced)'
  OBVIOUS
<1>1. CASE UNCHANGED vars
  BY <1>1, TreeKept DEF vars, dbVars
<1>2. ASSUME Next PROVE Step /\ UNCHANGED source
  BY <1>2 DEF Next
<1>3. CASE Next /\ ApiMove
  <2>1. ApiFrame /\ UNCHANGED source
    BY <1>2, <1>3, ApiMoveKeepsBase
  <2>2. ASSUME NEW j \in Jobs, CleanRow(job'[j]) PROVE job'[j] = job[j]
    BY <2>1, <2>2 DEF ApiFrame, CleanRow
  <2> QED
    BY <2>1, <2>2, TreeKept DEF ApiFrame
<1>4. ASSUME Next, NEW w \in Workers, NEW j \in Jobs, processImport(w, j)
      PROVE  Tree(worker, job, unsaid, map, rows, raced)'
  BY <1>2, <1>4, BeginKeepsBase, BeginKeepsTree
<1>5. ASSUME Next, NEW w \in Workers, Leaves(w) PROVE Tree(worker, job, unsaid, map, rows, raced)'
  BY <1>2, <1>5, LeaveKeepsBase, LeaveKeepsTree
<1>6. ASSUME Next, NEW w \in Workers, Finishes(w) PROVE Tree(worker, job, unsaid, map, rows, raced)'
  BY <1>2, <1>6, FinishKeepsBase, FinishKeepsTree
<1>7. ASSUME Next, NEW w \in Workers, RunMove(w) PROVE Tree(worker, job, unsaid, map, rows, raced)'
  BY <1>2, <1>7, RunMoves, MoveKeepsTree
<1> QED
  BY <1>1, <1>2, <1>3, <1>4, <1>5, <1>6, <1>7, StepKinds

\* After a clean import the tree is the source's, on every page where runs did
\* not overlap and none was in mode "update": the second pass also links the
\* components an earlier run left without a parent.  Components whose parent
\* could not be set, an error the engine drops, are left out.
THEOREM TreeRestored == Spec => []TreeIsRestored
<1>1. Base /\ Tree(worker, job, unsaid, map, rows, raced) /\ [Next]_vars
        => (Base /\ Tree(worker, job, unsaid, map, rows, raced))'
  BY NextKeepsBase, NextKeepsTree
<1>2. Init => Base /\ Tree(worker, job, unsaid, map, rows, raced)
  BY BaseInit, TreeInit
<1>3. Base /\ Tree(worker, job, unsaid, map, rows, raced) => TreeIsRestored
  <2> SUFFICES ASSUME Tree(worker, job, unsaid, map, rows, raced), NEW j \in Jobs, Clean(j),
                      job[j].page \notin raced, NEW i \in 1..Len(Feed[1]),
                      <<"component", Feed[1][i].parent>> \in Of(1),
                      <<"component", Feed[1][i].ext>> \notin unsaid[j].loose
               PROVE  LET c == <<"component", Feed[1][i].ext>>
                          p == <<"component", Feed[1][i].parent>>
                      IN rows[job[j].page][c][map[job[j].page][c]].parent = map[job[j].page][p]
    BY DEF TreeIsRestored
  <2>1. At(1, i) = <<"component", Feed[1][i].ext>>
    BY DEF At, Kinds
  <2>2. LinkedIn(map, rows, job[j].page, i)
    BY <2>1 DEF Tree, Linking, CleanRow, Clean
  <2> QED
    BY <2>1, <2>2 DEF LinkedIn
<1> QED
  BY <1>1, <1>2, <1>3, PTL DEF Spec
-----------------------------------------------------------------------------
(* Rows nobody will find again, and the faults that paid for them.         *)

SameCounts == \A p \in Slugs, e \in Entities : Len(rows'[p][e]) = Len(rows[p][e])
OneMore(w) == \A p \in Slugs, e \in Entities :
    Len(rows'[p][e]) = Len(rows[p][e]) + (IF p = Page(w) /\ e = Entity(w) THEN 1 ELSE 0)
Struck == faults' = faults + 1

\* What a step of a run costs: a row it adds without taking it in hand, or
\* lets go of without mapping it, is paid for, at once or when the run's
\* deadline expired.
Pays(w) ==
    /\ Struck \/ UNCHANGED faults
    /\ SameCounts \/ (worker[w].pc = "create" /\ OneMore(w) /\ (OnRow(worker'[w]) \/ Struck))
    /\ OnRow(worker'[w]) /\ worker'[w].expired =>
         Struck \/ (OnRow(worker[w]) /\ worker[w].expired)
    /\ OnRow(worker[w]) /\ ~OnRow(worker'[w]) =>
         \/ Struck \/ worker[w].expired
         \/ map' = [map EXCEPT ![Page(w)][Entity(w)] = worker[w].row]

LEMMA FailsStrikes ==
    ASSUME NEW w \in Workers, NEW pc, Fails(w, pc)
    PROVE  worker[w].pc = pc /\ (Struck \/ (UNCHANGED faults /\ worker[w].expired))
BY DEF Fails, Strike, Struck

LEMMA RowsStay ==
    ASSUME UNCHANGED rows
    PROVE  SameCounts
BY DEF SameCounts

\* A run that has no row, and gets none.
LEMMA NoRowPays ==
    ASSUME Base, NEW w \in Workers, Moves(w), ~OnRow(worker[w]), SameCounts,
           Struck \/ UNCHANGED faults
    PROVE  Pays(w)
<1>1. ~OnRow(worker'[w])
  <2> SUFFICES ASSUME worker'[w].pc \in {"replay", "map"} PROVE FALSE
    BY DEF OnRow
  <2>1. /\ worker[w].pc = "create"
        /\ Len(rows'[Page(w)][Entity(w)]) = Len(rows[Page(w)][Entity(w)]) + 1
    BY DEF Moves, Maps, OnRow
  <2>2. Page(w) \in Slugs /\ Entity(w) \in Entities
    BY <2>1, ItemTypes
  <2>3. Len(rows[Page(w)][Entity(w)]) \in Nat
    BY <2>2, RowCounts
  <2> QED
    BY <2>1, <2>2, <2>3 DEF SameCounts
<1> QED
  BY <1>1 DEF Pays

LEMMA InsertCounts ==
    ASSUME Base, NEW w \in Workers, worker[w].pc = "create", Insert(w)
    PROVE  OneMore(w)
<1> SUFFICES ASSUME NEW p \in Slugs, NEW e \in Entities
             PROVE  Len(rows'[p][e])
                      = Len(rows[p][e]) + (IF p = Page(w) /\ e = Entity(w) THEN 1 ELSE 0)
  BY DEF OneMore
<1>1. Len(rows[p][e]) \in Nat
  BY RowCounts
<1>2. CASE p = Page(w)
  BY <1>2, InsertEffect
<1>3. CASE p # Page(w)
  <2>1. rows'[p] = rows[p]
    BY <1>3, InsertEffect
  <2> QED
    BY <1>1, <1>3, <2>1
<1> QED
  BY <1>2, <1>3

LEMMA CreatePays ==
    ASSUME Base, NEW w \in Workers, Create(w)
    PROVE  Pays(w)
<1>1. /\ worker[w].pc = "create" /\ ~worker[w].expired /\ Insert(w) /\ UNCHANGED faults
      /\ worker[w] \in RunType /\ worker \in [Workers -> RunType]
  BY Context DEF Create, Works
<1> DEFINE n == Len(rows[Page(w)][Entity(w)]) + 1
           pc == IF HasReplay(w) THEN "replay" ELSE "map"
<1>2. worker' = [worker EXCEPT ![w] =
                   [worker[w] EXCEPT !.row = n, !.update = 2, !.pc = pc]]
  BY DEF Create, Go
<1>3. pc \in {"replay", "map"}
  OBVIOUS
<1> HIDE DEF n, pc
<1>5. worker'[w].pc = pc /\ worker'[w].expired = worker[w].expired
  BY <1>1, <1>2 DEF RunType
<1>4. OneMore(w)
  BY <1>1, InsertCounts
<1> QED
  BY <1>1, <1>3, <1>4, <1>5 DEF Pays, OnRow

LEMMA CreateFailsPays ==
    ASSUME Base, NEW w \in Workers, CreateFails(w)
    PROVE  Pays(w)
<1>1. worker[w].pc = "create" /\ (Struck \/ (UNCHANGED faults /\ worker[w].expired))
  BY FailsStrikes DEF CreateFails
<1>2. CASE UNCHANGED rows
  BY <1>1, <1>2, RowsStay, NoRowPays, CreateFailsMoves DEF OnRow
<1>3. CASE ~worker[w].expired /\ Insert(w)
  BY <1>1, <1>3, InsertCounts DEF Pays, OnRow
<1> QED
  BY <1>2, <1>3 DEF CreateFails

LEMMA AddIncidentUpdatePays ==
    ASSUME Base, NEW w \in Workers, AddIncidentUpdate(w)
    PROVE  Pays(w)
<1>1. /\ worker[w].pc = "replay" /\ ~worker[w].expired /\ UNCHANGED faults
      /\ worker[w] \in RunType /\ worker \in [Workers -> RunType]
  BY Context DEF AddIncidentUpdate, Works
<1>2. \/ worker' = [worker EXCEPT ![w] = [worker[w] EXCEPT !.update = @ + 1]]
      \/ worker' = [worker EXCEPT ![w] = [worker[w] EXCEPT !.pc = "map"]]
  BY DEF AddIncidentUpdate, Go
<1>3. worker'[w].pc \in {"replay", "map"} /\ worker'[w].expired = worker[w].expired
  BY <1>1, <1>2 DEF RunType
<1>4. SameCounts
  BY ReplayEffect DEF SameCounts
<1> QED
  BY <1>1, <1>3, <1>4 DEF Pays, OnRow

LEMMA SetExternalMappingPays ==
    ASSUME Base, Whole(worker, map, rows), NEW w \in Workers, SetExternalMapping(w)
    PROVE  Pays(w)
<1>1. /\ worker[w].pc = "map" /\ UNCHANGED <<rows, faults>>
      /\ map' = [map EXCEPT ![Page(w)][Entity(w)] = worker[w].row]
  BY DEF SetExternalMapping, Works, UpsertExternalMapping
<1>2. map' # map
  <2>1. OnRow(worker[w])
    BY <1>1 DEF OnRow
  <2>2. worker[w].row # map[Page(w)][Entity(w)] /\ Page(w) \in Slugs /\ Entity(w) \in Entities
    BY <2>1, RowPlace DEF Whole, Apart
  <2> QED
    BY <1>1, <2>2, Typed
<1>3. ~OnRow(worker'[w])
  BY <1>2, SetExternalMappingMoves DEF Moves, Maps, OnRow
<1> QED
  BY <1>1, <1>3, RowsStay DEF Pays

\* A run that loses its row.
LEMMA RowLostPays ==
    ASSUME Base, NEW w \in Workers, OnRow(worker[w]), UNCHANGED rows,
           Struck \/ (UNCHANGED faults /\ worker[w].expired)
    PROVE  Pays(w)
BY RowsStay DEF Pays

LEMMA RunPays ==
    ASSUME Base, Whole(worker, map, rows), NEW w \in Workers, RunMove(w)
    PROVE  Pays(w)
<1>1. Moves(w)
  BY RunMoves
<1>2. ASSUME Fetch(w) \/ ExternalMapping(w) \/ CreateRefused(w) \/ NothingToLink(w)
      PROVE  Pays(w)
  <2>1. /\ worker[w].pc \in {"fetch", "lookup", "create", "parents"} /\ UNCHANGED <<rows, faults>>
    BY <1>2 DEF Fetch, ExternalMapping, CreateRefused, NothingToLink, Works, dbVars
  <2> QED
    BY <1>1, <2>1, RowsStay, NoRowPays DEF OnRow
<1>3. ASSUME FetchFails(w) \/ ExternalMappingFails(w) \/ LinkParentFails(w)
      PROVE  Pays(w)
  <2>1. /\ worker[w].pc \in {"fetch", "lookup", "parents"} /\ UNCHANGED rows
        /\ Struck \/ UNCHANGED faults
    BY <1>3, FailsStrikes DEF FetchFails, ExternalMappingFails, LinkParentFails, dbVars
  <2> QED
    BY <1>1, <2>1, RowsStay, NoRowPays DEF OnRow
<1>4. ASSUME LinkParent(w) PROVE Pays(w)
  <2>1. worker[w].pc = "parents" /\ UNCHANGED faults
    BY <1>4 DEF LinkParent, Works
  <2>2. SameCounts
    BY <1>4, LinkEffect DEF SameCounts
  <2> QED
    BY <1>1, <2>1, <2>2, NoRowPays DEF OnRow
<1>5. ASSUME AddIncidentUpdateFails(w) \/ SetExternalMappingFails(w) PROVE Pays(w)
  <2>1. /\ worker[w].pc \in {"replay", "map"} /\ UNCHANGED rows
        /\ Struck \/ (UNCHANGED faults /\ worker[w].expired)
    BY <1>5, FailsStrikes DEF AddIncidentUpdateFails, SetExternalMappingFails, dbVars
  <2> QED
    BY <2>1, RowLostPays DEF OnRow
<1>6. ASSUME Expire(w) PROVE Pays(w)
  <2>1. Struck /\ UNCHANGED rows
    BY <1>6 DEF Expire, Strike, Struck, dbVars
  <2> QED
    BY <2>1, RowsStay DEF Pays
<1> QED
  BY <1>2, <1>3, <1>4, <1>5, <1>6, CreatePays, CreateFailsPays, AddIncidentUpdatePays,
     SetExternalMappingPays DEF RunMove

\* Hand is InHand and Lost the set of orphans, for any runs, mappings and rows;
\* Doomed says that a row in hand will be lost at no further charge.
Hand(k, p, e, n) ==
    \E v \in Workers : /\ OnRow(k[v]) /\ k[v].job.page = p
                       /\ Ent(k[v]) = e /\ k[v].row = n
Lost(k, m, r, p) ==
    {x \in Entities \X Nat : /\ x[2] \in 1..Len(r[p][x[1]]) /\ x[2] # m[p][x[1]]
                             /\ ~Hand(k, p, x[1], x[2])}
Doomed(k, p) == \E v \in Workers : OnRow(k[v]) /\ k[v].job.page = p /\ k[v].expired
Due(k, p) == IF Doomed(k, p) THEN 1 ELSE 0

\* The orphans of a page, and the row that is bound to become one, are paid for.
Paid(k, m, r, f, p) ==
    /\ IsFiniteSet(Lost(k, m, r, p))
    /\ Cardinality(Lost(k, m, r, p)) + Due(k, p) <= f
Costs(k, m, r, d, f) == \A p \in Slugs \ d : Paid(k, m, r, f, p)

LEMMA CostsPrime ==
    ASSUME UNCHANGED source, Costs(worker', map', rows', raced', faults')
    PROVE  Costs(worker, map, rows, raced, faults)'
<1>1. Feed' = Feed /\ Entities' = Entities
  BY SameSource
<1>2. \A p, e, n : Hand(worker, p, e, n)' <=> Hand(worker', p, e, n)
  BY <1>1 DEF Hand, OnRow, Ent, At
<1>3. \A p : Lost(worker, map, rows, p)' = Lost(worker', map', rows', p)
  BY <1>1, <1>2 DEF Lost
<1>4. \A p : Due(worker, p)' = Due(worker', p)
  BY DEF Due, Doomed, OnRow
<1> QED
  BY <1>3, <1>4 DEF Costs, Paid

LEMMA CostsInit == Init => Costs(worker, map, rows, raced, faults)
<1> SUFFICES ASSUME Init, NEW p \in Slugs PROVE Paid(worker, map, rows, faults, p)
  BY DEF Costs
<1>1. \A e \in Entities : rows[p][e] = <<>>
  BY DEF Init
<1>2. \A v \in Workers : worker[v].pc = "idle"
  BY DEF Init, NoRun
<1>3. Lost(worker, map, rows, p) = {}
  BY <1>1 DEF Lost
<1>4. Due(worker, p) = 0
  BY <1>2 DEF Due, Doomed, OnRow
<1>5. faults = 0
  BY DEF Init
<1> QED
  BY <1>3, <1>4, <1>5, FS_EmptySet DEF Paid

\* A step that loses no row.
LEMMA StillPaid ==
    ASSUME Base, NEW p, Paid(worker, map, rows, faults, p),
           Lost(worker', map', rows', p) \subseteq Lost(worker, map, rows, p),
           Struck \/ (UNCHANGED faults /\ (Doomed(worker', p) => Doomed(worker, p)))
    PROVE  Paid(worker', map', rows', faults', p)
<1> DEFINE A == Lost(worker, map, rows, p)
           B == Lost(worker', map', rows', p)
<1>1. IsFiniteSet(A) /\ Cardinality(A) + Due(worker, p) <= faults /\ B \subseteq A
  BY DEF Paid
<1> HIDE DEF A, B
<1>2. IsFiniteSet(B) /\ Cardinality(B) <= Cardinality(A)
  BY <1>1, FS_Subset
<1>3. Cardinality(A) \in Nat /\ Cardinality(B) \in Nat
  BY <1>1, <1>2, FS_CardinalityType
<1>4. faults \in Nat /\ Due(worker, p) \in {0, 1} /\ Due(worker', p) \in {0, 1}
  BY ImporterConstants, Typed DEF Due
<1>5. \/ faults' = faults + 1
      \/ faults' = faults /\ Due(worker', p) <= Due(worker, p)
  BY DEF Struck, Due
<1>6. Cardinality(B) + Due(worker', p) <= faults'
  BY <1>1, <1>2, <1>3, <1>4, <1>5
<1> QED
  BY <1>2, <1>6 DEF Paid, B

\* A step that loses one row, for a fault of its own or one that is past.
LEMMA PaidForOne ==
    ASSUME Base, NEW p, Paid(worker, map, rows, faults, p), NEW x,
           Lost(worker', map', rows', p) \subseteq Lost(worker, map, rows, p) \cup {x},
           ~Doomed(worker', p), Struck \/ (UNCHANGED faults /\ Doomed(worker, p))
    PROVE  Paid(worker', map', rows', faults', p)
<1> DEFINE A == Lost(worker, map, rows, p)
           B == Lost(worker', map', rows', p)
<1>1. /\ IsFiniteSet(A) /\ Cardinality(A) + Due(worker, p) <= faults
      /\ B \subseteq A \cup {x}
  BY DEF Paid
<1> HIDE DEF A, B
<1>2. IsFiniteSet(A \cup {x}) /\ Cardinality(A \cup {x}) <= Cardinality(A) + 1
  <2>1. Cardinality(A) \in Nat
    BY <1>1, FS_CardinalityType
  <2>2. /\ IsFiniteSet(A \cup {x})
        /\ Cardinality(A \cup {x})
             = IF x \in A THEN Cardinality(A) ELSE Cardinality(A) + 1
    BY <1>1, FS_AddElement
  <2> QED
    BY <2>1, <2>2
<1>3. IsFiniteSet(B) /\ Cardinality(B) <= Cardinality(A \cup {x})
  BY <1>1, <1>2, FS_Subset
<1>4. Cardinality(A) \in Nat /\ Cardinality(B) \in Nat /\ Cardinality(A \cup {x}) \in Nat
  BY <1>1, <1>2, <1>3, FS_CardinalityType
<1>5. faults \in Nat /\ Due(worker, p) \in {0, 1} /\ Due(worker', p) = 0
  BY ImporterConstants, Typed DEF Due
<1>6. faults' = faults + 1 \/ (faults' = faults /\ Due(worker, p) = 1)
  BY DEF Struck, Due
<1>7. Cardinality(B) + Due(worker', p) <= faults'
  BY <1>1, <1>2, <1>3, <1>4, <1>5, <1>6
<1> QED
  BY <1>3, <1>7 DEF Paid, B

\* A page where neither rows nor mappings nor the runs on rows change.
LEMMA PageKept ==
    ASSUME Base, NEW p \in Slugs, Paid(worker, map, rows, faults, p),
           Struck \/ UNCHANGED faults,
           \A e \in Entities : Len(rows'[p][e]) = Len(rows[p][e]) /\ map'[p][e] = map[p][e],
           \A v \in Workers : \/ worker'[v] = worker[v]
                              \/ /\ ~(OnRow(worker[v]) /\ worker[v].job.page = p)
                                 /\ ~(OnRow(worker'[v]) /\ worker'[v].job.page = p)
    PROVE  Paid(worker', map', rows', faults', p)
<1>1. \A e, n : Hand(worker', p, e, n) <=> Hand(worker, p, e, n)
  BY DEF Hand
<1>2. Doomed(worker', p) <=> Doomed(worker, p)
  BY DEF Doomed
<1>3. Lost(worker', map', rows', p) \subseteq Lost(worker, map, rows, p)
  BY <1>1 DEF Lost
<1> QED
  BY <1>2, <1>3, StillPaid

\* A page nobody raced on has one run at most: its row is the one in hand.
LEMMA OwnPage ==
    ASSUME Base, Tree(worker, job, unsaid, map, rows, raced), NEW w \in Workers,
           worker[w].pc # "idle", Page(w) \notin raced,
           NEW k, \A v \in Workers : v # w => k[v] = worker[v],
           OnRow(k[w]) => k[w].job.page = Page(w)
    PROVE  /\ \A e, n : Hand(k, Page(w), e, n) <=>
                          OnRow(k[w]) /\ Ent(k[w]) = e /\ k[w].row = n
           /\ Doomed(k, Page(w)) <=> OnRow(k[w]) /\ k[w].expired
<1>1. ASSUME NEW v \in Workers, OnRow(k[v]), k[v].job.page = Page(w)
      PROVE  v = w
  <2> SUFFICES ASSUME v # w PROVE FALSE
    OBVIOUS
  <2>1. worker[v].pc # "idle" /\ Page(v) = Page(w)
    BY <1>1 DEF OnRow, Page
  <2> QED
    BY <2>1, CalmRun
<1> QED
  BY <1>1 DEF Hand, Doomed

LEMMA MoveKeepsCosts ==
    ASSUME Base, Tree(worker, job, unsaid, map, rows, raced), Costs(worker, map, rows, raced, faults),
           UNCHANGED source, NEW w \in Workers, Moves(w), Pays(w)
    PROVE  Costs(worker, map, rows, raced, faults)'
<1>1. /\ \A v \in Workers : v # w => worker'[v] = worker[v]
      /\ worker[w].pc # "idle" /\ worker'[w].job = worker[w].job
      /\ Page(w) = worker[w].job.page /\ Page(w) \in Slugs
      /\ UNCHANGED raced /\ map \in [Slugs -> [Entities -> Nat]]
  BY Typed DEF Moves, Onward, Page, RunType, JobType, restVars
<1>2. Struck \/ UNCHANGED faults
  BY DEF Pays
<1>3. ASSUME NEW p \in Slugs \ raced, p # Page(w)
      PROVE  Paid(worker', map', rows', faults', p)
  <2>1. \A e \in Entities : Len(rows'[p][e]) = Len(rows[p][e]) /\ map'[p][e] = map[p][e]
    BY <1>1, <1>3 DEF Moves, Stores, Maps
  <2>2. \A v \in Workers : \/ worker'[v] = worker[v]
                           \/ worker[v].job.page # p /\ worker'[v].job.page # p
    BY <1>1, <1>3
  <2> QED
    BY <1>2, <1>3, <2>1, <2>2, PageKept DEF Costs
<1>4. ASSUME NEW p, p = Page(w), p \notin raced, NEW e0, e0 = Entity(w),
             NEW old, old = worker[w], NEW new, new = worker'[w]
      PROVE  Paid(worker', map', rows', faults', p)
  <2>1. Paid(worker, map, rows, faults, p)
    BY <1>1, <1>4 DEF Costs
  <2>2. /\ \A e, n : Hand(worker, p, e, n) <=> OnRow(old) /\ Ent(old) = e /\ old.row = n
        /\ Doomed(worker, p) <=> OnRow(old) /\ old.expired
    BY <1>1, <1>4, OwnPage
  <2>3. /\ \A e, n : Hand(worker', p, e, n) <=> OnRow(new) /\ Ent(new) = e /\ new.row = n
        /\ Doomed(worker', p) <=> OnRow(new) /\ new.expired
    BY <1>1, <1>4, OwnPage
  <2>4. ASSUME OnRow(old) \/ OnRow(new) \/ old.pc = "create"
        PROVE  /\ e0 \in Entities /\ Ent(old) = e0 /\ map[p][e0] = 0
               /\ old.pc \in {"create", "replay", "map"}
    <3>1. old.pc \in {"create", "replay", "map"}
      BY <1>4, <2>4 DEF OnRow, Moves, Maps
    <3>2. e0 \in Entities /\ Ent(old) = e0
      BY <1>4, <3>1, ItemTypes DEF Ent
    <3>3. Knows(old, map, rows)
      BY <1>1, <1>4, CalmRun
    <3> QED
      BY <1>4, <1>1, <3>1, <3>2, <3>3 DEF Knows
  <2>5. ASSUME OnRow(new)
        PROVE  /\ map' = map /\ Ent(new) = e0
               /\ \/ /\ old.pc = "create" /\ new.row = Len(rows[p][e0]) + 1
                     /\ Len(rows'[p][e0]) = Len(rows[p][e0]) + 1
                  \/ OnRow(old) /\ new.row = old.row
    <3>1. /\ map' = map /\ new.kind = old.kind /\ new.pos = old.pos
          /\ \/ /\ old.pc = "create" /\ new.row = Len(rows[p][e0]) + 1
                /\ Len(rows'[p][e0]) = new.row
             \/ OnRow(old) /\ new.row = old.row
      BY <1>4, <2>5 DEF OnRow, Moves, Maps
    <3>2. Ent(new) = Ent(old)
      BY <1>4, <3>1 DEF Ent
    <3> QED
      BY <1>4, <2>4, <2>5, <3>1, <3>2
  <2>6. \A e \in Entities : Len(rows[p][e]) \in Nat
    BY <1>4, <1>1, RowCounts
  <2>7. CASE SameCounts
    <3>1. \A e \in Entities : Len(rows'[p][e]) = Len(rows[p][e])
      BY <1>4, <1>1, <2>7 DEF SameCounts
    <3>2. OnRow(new) => OnRow(old) /\ new.row = old.row
      BY <1>4, <2>4, <2>5, <2>6, <3>1
    <3>3. CASE OnRow(old) <=> OnRow(new)
      <4>1. map' = map
        BY <1>4, <3>3, <2>5 DEF Moves, Maps, OnRow
      <4>2. \A e, n : Hand(worker', p, e, n) <=> Hand(worker, p, e, n)
        BY <1>4, <2>2, <2>3, <2>4, <2>5, <3>2, <3>3
      <4>3. Lost(worker', map', rows', p) \subseteq Lost(worker, map, rows, p)
        BY <1>4, <3>1, <4>1, <4>2 DEF Lost
      <4>4. Struck \/ (UNCHANGED faults /\ (Doomed(worker', p) => Doomed(worker, p)))
        BY <1>4, <2>2, <2>3 DEF Pays
      <4> QED
        BY <2>1, <4>3, <4>4, StillPaid
    <3>4. CASE OnRow(old) /\ ~OnRow(new)
      <4>1. CASE map' = [map EXCEPT ![p][e0] = old.row]
        <5>1. \A e \in Entities : map'[p][e] = IF e = e0 THEN old.row ELSE map[p][e]
          BY <1>4, <1>1, <4>1
        <5>2. ASSUME NEW x \in Lost(worker', map', rows', p)
              PROVE  x \in Lost(worker, map, rows, p)
          <6>1. /\ x \in Entities \X Nat /\ x[1] \in Entities
                /\ x[2] \in 1..Len(rows[p][x[1]]) /\ x[2] # map'[p][x[1]]
            BY <1>4, <3>1 DEF Lost
          <6>2. x[2] # map[p][x[1]]
            BY <1>4, <2>4, <3>4, <5>1, <6>1
          <6>3. ~Hand(worker, p, x[1], x[2])
            BY <1>4, <2>2, <2>4, <3>4, <5>1, <6>1
          <6> QED
            BY <1>4, <6>1, <6>2, <6>3 DEF Lost
        <5>3. Struck \/ (UNCHANGED faults /\ (Doomed(worker', p) => Doomed(worker, p)))
          BY <1>4, <1>2, <2>3, <3>4
        <5> QED
          BY <2>1, <5>2, <5>3, StillPaid
      <4>2. CASE map' # [map EXCEPT ![p][e0] = old.row]
        <5>1. map' = map
          BY <1>4, <4>2 DEF Moves, Maps
        <5>2. Lost(worker', map', rows', p)
                \subseteq Lost(worker, map, rows, p) \cup {<<e0, old.row>>}
          <6>1. ASSUME NEW x \in Lost(worker', map', rows', p), x # <<e0, old.row>>
                PROVE  x \in Lost(worker, map, rows, p)
            <7>1. /\ x \in Entities \X Nat /\ x[1] \in Entities
                  /\ x[2] \in 1..Len(rows[p][x[1]]) /\ x[2] # map[p][x[1]]
              BY <1>4, <3>1, <5>1, <6>1 DEF Lost
            <7>2. x[1] # e0 \/ x[2] # old.row
              BY <1>4, <6>1, <7>1
            <7> QED
              BY <1>4, <2>2, <2>4, <3>4, <7>1, <7>2 DEF Lost
          <6> QED
            BY <1>4, <6>1
        <5>3. ~Doomed(worker', p) /\ (Struck \/ (UNCHANGED faults /\ Doomed(worker, p)))
          BY <1>4, <2>2, <2>3, <3>4, <4>2 DEF Pays
        <5> QED
          BY <2>1, <5>2, <5>3, PaidForOne
      <4> QED
        BY <1>4, <4>1, <4>2
    <3> QED
      BY <1>4, <3>2, <3>3, <3>4
  <2>8. CASE ~SameCounts
    <3>1. old.pc = "create" /\ OneMore(w) /\ (OnRow(new) \/ Struck) /\ ~OnRow(old)
      BY <1>4, <2>8 DEF Pays, OnRow
    <3>2. \A e \in Entities :
            Len(rows'[p][e]) = Len(rows[p][e]) + (IF e = e0 THEN 1 ELSE 0)
      BY <1>4, <1>1, <3>1 DEF OneMore
    <3>3. map' = map /\ e0 \in Entities
      BY <1>4, <2>4, <3>1 DEF Moves, Maps
    <3>4. ASSUME NEW x \in Lost(worker', map', rows', p), x # <<e0, Len(rows[p][e0]) + 1>>
          PROVE  x \in Lost(worker, map, rows, p)
      <4>1. /\ x \in Entities \X Nat /\ x[1] \in Entities /\ x[2] \in Nat
            /\ x[2] \in 1..Len(rows'[p][x[1]]) /\ x[2] # map[p][x[1]]
        BY <1>4, <3>3 DEF Lost
      <4>2. x[2] \in 1..Len(rows[p][x[1]])
        <5>1. CASE x[1] = e0
          <6>1. x[2] # Len(rows[p][e0]) + 1
            BY <1>4, <3>4, <4>1, <5>1
          <6>2. Len(rows'[p][e0]) = Len(rows[p][e0]) + 1 /\ Len(rows[p][e0]) \in Nat
            BY <1>4, <2>6, <3>2, <3>3
          <6> QED
            BY <1>4, <4>1, <5>1, <6>1, <6>2
        <5>2. CASE x[1] # e0
          <6>1. Len(rows'[p][x[1]]) = Len(rows[p][x[1]]) + 0 /\ Len(rows[p][x[1]]) \in Nat
            BY <1>4, <2>6, <3>2, <4>1, <5>2
          <6> QED
            BY <1>4, <4>1, <6>1
        <5> QED
          BY <1>4, <5>1, <5>2
      <4> QED
        BY <1>4, <2>2, <3>1, <4>1, <4>2 DEF Lost
    <3>5. CASE OnRow(new)
      <4>1. Ent(new) = e0 /\ new.row = Len(rows[p][e0]) + 1
        BY <1>4, <2>5, <3>1, <3>5
      <4>2. <<e0, Len(rows[p][e0]) + 1>> \notin Lost(worker', map', rows', p)
        BY <1>4, <2>3, <3>5, <4>1 DEF Lost
      <4>3. Lost(worker', map', rows', p) \subseteq Lost(worker, map, rows, p)
        BY <1>4, <3>4, <4>2
      <4>4. Struck \/ (UNCHANGED faults /\ (Doomed(worker', p) => Doomed(worker, p)))
        BY <1>4, <2>2, <2>3 DEF Pays
      <4> QED
        BY <2>1, <4>3, <4>4, StillPaid
    <3>6. CASE ~OnRow(new)
      <4>1. ~Doomed(worker', p) /\ Struck
        BY <1>4, <2>3, <3>1, <3>6
      <4>2. Lost(worker', map', rows', p)
              \subseteq Lost(worker, map, rows, p) \cup {<<e0, Len(rows[p][e0]) + 1>>}
        BY <1>4, <3>4
      <4> QED
        BY <2>1, <4>1, <4>2, PaidForOne
    <3> QED
      BY <1>4, <3>5, <3>6
  <2> QED
    BY <1>4, <2>7, <2>8
<1>5. Page(w) \notin raced => Paid(worker', map', rows', faults', Page(w))
  BY <1>4
<1> QED
  BY <1>1, <1>3, <1>5, CostsPrime DEF Costs

\* Runs that get or lose no row.
LEMMA CostsKept ==
    ASSUME Base, Costs(worker, map, rows, raced, faults), UNCHANGED <<source, rows, map>>,
           raced \subseteq raced', Struck \/ UNCHANGED faults,
           \A v \in Workers : \/ worker'[v] = worker[v]
                              \/ ~OnRow(worker[v]) /\ ~OnRow(worker'[v])
    PROVE  Costs(worker, map, rows, raced, faults)'
<1>1. ASSUME NEW p \in Slugs \ raced' PROVE Paid(worker', map', rows', faults', p)
  BY <1>1, PageKept DEF Costs
<1> QED
  BY <1>1, CostsPrime DEF Costs

\* A run that dies, or is over.
LEMMA LeaveKeepsCosts ==
    ASSUME Base, Tree(worker, job, unsaid, map, rows, raced), Costs(worker, map, rows, raced, faults),
           UNCHANGED source, NEW w \in Workers, Leaves(w)
    PROVE  Costs(worker, map, rows, raced, faults)'
<1>1. /\ worker[w].pc # "idle" /\ worker'[w].pc = "idle"
      /\ \A v \in Workers : v # w => worker'[v] = worker[v]
      /\ UNCHANGED <<rows, map, raced>>
  BY LeaveKeepsBase DEF LeaveFrame, NoRun
<1>2. Struck \/ (UNCHANGED faults /\ worker[w].pc = "ack")
  BY DEF Leaves, Ack, Crash, Strike, Struck
<1>3. ~OnRow(worker'[w])
  BY <1>1 DEF OnRow
<1>4. CASE ~OnRow(worker[w])
  BY <1>1, <1>2, <1>3, <1>4, CostsKept
<1>5. CASE OnRow(worker[w])
  <2>1. Struck
    BY <1>2, <1>5 DEF OnRow
  <2>2. ASSUME NEW p \in Slugs \ raced, p # Page(w)
        PROVE  Paid(worker', map', rows', faults', p)
    <3>1. worker[w].job.page # p
      BY <2>2 DEF Page
    <3>2. \A v \in Workers : \/ worker'[v] = worker[v]
                             \/ /\ ~(OnRow(worker[v]) /\ worker[v].job.page = p)
                                /\ ~(OnRow(worker'[v]) /\ worker'[v].job.page = p)
      BY <1>1, <1>3, <3>1
    <3> QED
      BY <1>1, <2>1, <2>2, <3>2, PageKept DEF Costs
  <2>3. ASSUME NEW p \in Slugs \ raced, p = Page(w)
        PROVE  Paid(worker', map', rows', faults', p)
    <3>1. \A e, n : Hand(worker, p, e, n) <=>
                      OnRow(worker[w]) /\ Ent(worker[w]) = e /\ worker[w].row = n
      <4>1. worker[w].job.page = Page(w) /\ Page(w) \notin raced
        BY <2>3 DEF Page
      <4>2. \A v \in Workers : v # w => worker[v] = worker[v]
        OBVIOUS
      <4>3. \A e, n : Hand(worker, Page(w), e, n) <=>
                        OnRow(worker[w]) /\ Ent(worker[w]) = e /\ worker[w].row = n
        BY <1>1, <4>1, <4>2, OwnPage
      <4> QED
        BY <2>3, <4>3
    <3>2. ~Doomed(worker', p)
      BY <1>1, <1>3, <2>3, OwnPage
    <3> DEFINE x == <<Ent(worker[w]), worker[w].row>>
    <3>3. ASSUME NEW y \in Lost(worker', map', rows', p), y # x
          PROVE  y \in Lost(worker, map, rows, p)
      <4>1. /\ y \in Entities \X Nat /\ y[2] \in 1..Len(rows[p][y[1]])
            /\ y[2] # map[p][y[1]]
        BY <1>1, <3>3 DEF Lost
      <4>2. y[1] # Ent(worker[w]) \/ y[2] # worker[w].row
        BY <3>3, <4>1
      <4> QED
        BY <3>1, <4>1, <4>2 DEF Lost
    <3> HIDE DEF x
    <3>4. Lost(worker', map', rows', p) \subseteq Lost(worker, map, rows, p) \cup {x}
      BY <3>3
    <3> QED
      BY <2>1, <2>3, <3>2, <3>4, PaidForOne DEF Costs
  <2> QED
    BY <1>1, <2>2, <2>3, CostsPrime DEF Costs
<1> QED
  BY <1>4, <1>5

LEMMA ApiStrikes ==
    ASSUME ApiMove
    PROVE  Struck \/ UNCHANGED faults
<1>1. ASSUME NEW j, NEW p, NEW m, handleStartImport(j, m, p) PROVE UNCHANGED faults
  BY <1>1 DEF handleStartImport
<1>2. ASSUME NEW j, NEW p, handleStartImportFails(j, p) PROVE Struck
  BY <1>2 DEF handleStartImportFails, Strike, Struck
<1>3. ASSUME NEW j, Request(j) PROVE Struck \/ UNCHANGED faults
  BY <1>3 DEF Request, PublishImport, MarkUnqueued, Strike, Struck
<1>4. ASSUME NEW j, PublishImportFails(j) \/ ApiDies(j) PROVE Struck
  BY <1>4 DEF PublishImportFails, ApiDies, Strike, Struck
<1>5. ASSUME NEW w, NEW j, MarkRunningFails(w, j) \/ LoadJobFails(w, j) PROVE Struck
  BY <1>5 DEF MarkRunningFails, LoadJobFails, Strike, Struck
<1> QED
  <2>1. CASE \E j \in Jobs, p \in Slugs : \E m \in Modes[j] : handleStartImport(j, m, p)
    BY <1>1, <2>1
  <2>2. CASE \E j \in Jobs, p \in Slugs : handleStartImportFails(j, p)
    BY <1>2, <2>2
  <2>3. CASE \E j \in Jobs : Request(j) \/ PublishImportFails(j) \/ ApiDies(j)
    BY <1>3, <1>4, <2>3
  <2>4. CASE \E w \in Workers, j \in Jobs : MarkRunningFails(w, j) \/ LoadJobFails(w, j)
    BY <1>5, <2>4
  <2> QED
    BY <2>1, <2>2, <2>3, <2>4 DEF ApiMove

LEMMA NextKeepsCosts ==
    Base /\ Whole(worker, map, rows) /\ Tree(worker, job, unsaid, map, rows, raced)
      /\ Costs(worker, map, rows, raced, faults) /\ [Next]_vars
      => Costs(worker, map, rows, raced, faults)'
<1> SUFFICES ASSUME Base, Whole(worker, map, rows), Tree(worker, job, unsaid, map, rows, raced),
                    Costs(worker, map, rows, raced, faults), [Next]_vars
             PROVE  Costs(worker, map, rows, raced, faults)'
  OBVIOUS
<1>1. CASE UNCHANGED vars
  BY <1>1, CostsKept DEF vars, dbVars
<1>2. ASSUME Next PROVE Step /\ UNCHANGED source
  BY <1>2 DEF Next
<1>3. CASE Next /\ ApiMove
  <2>1. UNCHANGED <<worker, rows, map, raced, source>>
    BY <1>2, <1>3, ApiMoveKeepsBase DEF ApiFrame
  <2> QED
    BY <1>3, <2>1, ApiStrikes, CostsKept
<1>4. ASSUME Next, NEW w \in Workers, NEW j \in Jobs, processImport(w, j)
      PROVE  Costs(worker, map, rows, raced, faults)'
  <2>1. BeginFrame(w, j) /\ UNCHANGED <<source, faults>>
    BY <1>2, <1>4, BeginKeepsBase DEF processImport
  <2>2. ~OnRow(worker[w]) /\ ~OnRow(worker'[w])
    BY <2>1 DEF BeginFrame, OnRow
  <2> QED
    BY <2>1, <2>2, CostsKept DEF BeginFrame
<1>5. ASSUME Next, NEW w \in Workers, Leaves(w)
      PROVE  Costs(worker, map, rows, raced, faults)'
  BY <1>2, <1>5, LeaveKeepsCosts
<1>6. ASSUME Next, NEW w \in Workers, Finishes(w)
      PROVE  Costs(worker, map, rows, raced, faults)'
  <2>1. FinishFrame(w) /\ UNCHANGED source
    BY <1>2, <1>6, FinishKeepsBase
  <2>2. Struck \/ UNCHANGED faults
    BY <1>6 DEF Finishes, finalize, finalizeFails, Strike, Struck
  <2>3. ~OnRow(worker[w]) /\ ~OnRow(worker'[w])
    BY <2>1, Typed DEF FinishFrame, RunType, OnRow
  <2> QED
    BY <2>1, <2>2, <2>3, CostsKept DEF FinishFrame
<1>7. ASSUME Next, NEW w \in Workers, RunMove(w)
      PROVE  Costs(worker, map, rows, raced, faults)'
  BY <1>2, <1>7, RunMoves, RunPays, MoveKeepsCosts
<1> QED
  BY <1>1, <1>2, <1>3, <1>4, <1>5, <1>6, <1>7, StepKinds

\* On a page where runs did not overlap and none was in mode "update", a row
\* that external_id_map does not name was paid for by a fault: the importer
\* creates no row twice by itself, however often a job is run again.
THEOREM OrphansArePaid == Spec => []OrphansCostFaults
<1> DEFINE Inv == /\ Base /\ Whole(worker, map, rows)
                  /\ Tree(worker, job, unsaid, map, rows, raced)
                  /\ Costs(worker, map, rows, raced, faults)
<1>1. Init => Inv
  BY BaseInit, WholeInit, TreeInit, CostsInit
<1>2. Inv /\ [Next]_vars => Inv'
  BY NextKeepsBase, NextKeepsWhole, NextKeepsTree, NextKeepsCosts
<1>3. Inv => OrphansCostFaults
  <2> SUFFICES ASSUME Inv, NEW p \in owned \ raced PROVE Cardinality(Orphans(p)) <= faults
    BY DEF OrphansCostFaults
  <2>1. p \in Slugs \ raced
    BY Typed
  <2>2. \A e, n : InHand(p, e, n) <=> Hand(worker, p, e, n)
    BY DEF InHand, Hand, AtWork, OnRow, Page, Entity, Item, Ent, At
  <2>3. \A e \in Entities : DOMAIN rows[p][e] = 1..Len(rows[p][e])
    BY <2>1, Typed DEF Table
  <2>4. Orphans(p) = Lost(worker, map, rows, p)
    <3>1. ASSUME NEW x \in Orphans(p) PROVE x \in Lost(worker, map, rows, p)
      <4>1. PICK e \in Entities :
              x \in {e} \X {n \in DOMAIN rows[p][e] : n # map[p][e] /\ ~InHand(p, e, n)}
        BY <3>1 DEF Orphans
      <4>2. /\ x = <<e, x[2]>> /\ x[1] = e /\ x[2] \in 1..Len(rows[p][e]) /\ x[2] \in Nat
            /\ x[2] # map[p][e] /\ ~InHand(p, e, x[2])
        BY <2>3, <4>1
      <4> QED
        BY <2>2, <4>1, <4>2 DEF Lost
    <3>2. ASSUME NEW x \in Lost(worker, map, rows, p) PROVE x \in Orphans(p)
      <4>1. /\ x \in Entities \X Nat /\ x[2] \in 1..Len(rows[p][x[1]]) /\ x[2] # map[p][x[1]]
            /\ ~InHand(p, x[1], x[2])
        BY <2>2 DEF Lost
      <4>2. PICK e \in Entities, n \in Nat : x = <<e, n>>
        BY <4>1
      <4>3. n \in DOMAIN rows[p][e] /\ n # map[p][e] /\ ~InHand(p, e, n)
        BY <2>3, <4>1, <4>2
      <4> QED
        BY <4>2, <4>3 DEF Orphans
    <3> QED
      BY <3>1, <3>2
  <2>5. IsFiniteSet(Orphans(p)) /\ Cardinality(Orphans(p)) + Due(worker, p) <= faults
    BY <2>1, <2>4 DEF Costs, Paid
  <2>6. Cardinality(Orphans(p)) \in Nat /\ Due(worker, p) \in {0, 1} /\ faults \in Nat
    BY <2>5, FS_CardinalityType, ImporterConstants, Typed DEF Due
  <2> QED
    BY <2>5, <2>6
<1> QED
  BY <1>1, <1>2, <1>3, PTL DEF Spec
=============================================================================
