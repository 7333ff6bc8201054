----------------------------- MODULE PagesProofs -----------------------------
(***************************************************************************)
(* Theorems about Pages, for any pages, domains, bodies of requests and    *)
(* requests served at a time.                                              *)
(***************************************************************************)
EXTENDS Pages, TLAPS

-----------------------------------------------------------------------------
(* The inductive invariant of the management.                              *)

\* What a request is known to hold at each of its steps.
Phase(r) ==
    /\ req[r].pc = "idle" => req[r] = NoRequest
    /\ req[r].pc # "idle" => req[r].page \in Pages
    /\ req[r].pc \in {"update", "password", "detach", "domain"} => req[r].body \in Patches
    /\ req[r].pc \in {"detach", "domain"} => req[r].body.domain # Keep
    /\ req[r].pc = "attached" => req[r].record # None

\* Requests on the same page have marked it.
Alone ==
    \A p \in Pages : p \notin overlapped =>
        \A r, u \in Requests : req[r].page = p /\ req[u].page = p => r = u

\* A record of Dokploy belongs to one page, in the table and in every copy.
Mentions(i, p) ==
    \/ pages[p].dok = i
    \/ \E r \in Requests : req[r].page = p /\ (req[r].copy.dok = i \/ req[r].record = i)
Owners ==
    \A i \in 1..MaxRecords : \A p \in Pages : Mentions(i, p) =>
        i <= created /\ \A q \in Pages : Mentions(i, q) => q = p

\* The copy of a request that is alone on its page is as good as the row.
CopyOK(r, p) ==
    /\ req[r].copy.domain = pages[p].domain /\ req[r].copy.dok = pages[p].dok
    /\ req[r].pc = "update" => req[r].copy.private = pages[p].private
    /\ req[r].pc = "verified" /\ req[r].result => p \in checked

\* The record a page names, or is about to name, is right, except between the
\* deletion of the old record and the storing of the new domain.
RecordOK(p) ==
    /\ (pages[p].dok # None /\ \A r \in Requests : req[r].page = p => req[r].pc # "domain")
         => records[pages[p].dok] = pages[p].domain
    /\ \A r \in Requests : (req[r].page = p /\ req[r].pc = "attached")
         => records[req[r].record] = pages[p].domain

PageOK(p) ==
    p \notin overlapped /\ Live(p) =>
        /\ pages[p].private = asked[p]
        /\ pages[p].verified => p \in checked
        /\ \A r \in Requests : req[r].page = p => CopyOK(r, p)
        /\ faults = 0 /\ p \notin refused => RecordOK(p)

Management ==
    /\ \A r \in Requests : Phase(r)
    /\ Alone /\ Owners
    /\ \A p \in Pages : PageOK(p)

Inv == RowsOK /\ Management

-----------------------------------------------------------------------------
(* Rows and requests.                                                      *)

\* The type of a request in progress.
ReqRec ==
    [pc : {"idle", "update", "password", "detach", "domain",
           "lookup", "verified", "attach", "attached"},
     by : Tokens \cup {"operator", None}, page : Pages \cup {None}, copy : RowType,
     body : Patches \cup {None}, result : BOOLEAN, record : 1..MaxRecords \cup {None}]

LEMMA NoRequestKinds ==
    /\ NoPage \in RowType /\ NoPage.dok = None /\ NoPage.verified = FALSE /\ NoPage.domain = None
    /\ NoRequest \in ReqRec /\ NoRequest.pc = "idle" /\ NoRequest.page = None
    /\ NoRequest.record = None
  BY DEF NoPage, RowType, NoRequest, ReqRec

LEMMA RequestStep ==
    ASSUME RowsOK, NEW r \in Requests, NEW q \in ReqRec, req' = [req EXCEPT ![r] = q]
    PROVE  /\ req' \in [Requests -> ReqRec] /\ req'[r] = q
           /\ \A u \in Requests \ {r} : req'[u] = req[u]
  BY DEF RowsOK, ReqRec

\* A request goes on to its next step.
LEMMA GotoStep ==
    ASSUME RowsOK, NEW r \in Requests,
           NEW pc \in {"update", "password", "detach", "domain", "lookup", "verified", "attach", "attached"},
           Goto(r, pc)
    PROVE  \E q \in ReqRec :
             /\ req' = [req EXCEPT ![r] = q]
             /\ q.pc = pc /\ q.page = req[r].page /\ q.copy = req[r].copy /\ q.body = req[r].body
             /\ q.result = req[r].result /\ q.record = req[r].record
<1> DEFINE q == [req[r] EXCEPT !.pc = pc]
<1>1. req[r] \in ReqRec /\ req \in [Requests -> ReqRec]
  BY DEF RowsOK, ReqRec
<1>2. /\ q \in ReqRec /\ q.pc = pc /\ q.page = req[r].page /\ q.copy = req[r].copy
      /\ q.body = req[r].body /\ q.result = req[r].result /\ q.record = req[r].record
  BY <1>1 DEF ReqRec
<1>3. req' = [req EXCEPT ![r] = q]
  BY <1>1 DEF Goto
<1> QED
  BY <1>2, <1>3

\* UPDATE of one row of status_pages.
LEMMA RowUpdate ==
    ASSUME RowsOK, NEW p \in Pages, NEW row \in RowType, Update(p, row)
    PROVE  /\ pages' \in [Pages -> RowType]
           /\ \A x \in Pages : x # p => pages'[x] = pages[x]
           /\ Live(p) => pages'[p] = row
           /\ ~Live(p) => pages'[p] = pages[p]
<1>1. CASE Live(p)
  BY <1>1 DEF RowsOK, Update
<1>2. CASE ~Live(p)
  BY <1>2 DEF RowsOK, Update
<1> QED
  BY <1>1, <1>2

-----------------------------------------------------------------------------
(* Frames: what a step leaves alone.                                       *)

LEMMA PageFrame ==
    ASSUME RowsOK, \A r \in Requests : Phase(r),
           NEW p \in Pages, PageOK(p), pages'[p] = pages[p], asked'[p] = asked[p],
           p \notin overlapped' => p \notin overlapped, p \in checked => p \in checked',
           p \notin refused' => p \notin refused, faults' = 0 => faults = 0,
           \A r \in Requests : req'[r].page = p \/ req[r].page = p => req'[r] = req[r],
           \A i \in 1..MaxRecords : Mentions(i, p) => records'[i] = records[i]
    PROVE  PageOK(p)'
<1> SUFFICES ASSUME p \notin overlapped', Live(p)'
             PROVE  /\ pages'[p].private = asked'[p]
                    /\ pages'[p].verified => p \in checked'
                    /\ \A r \in Requests : req'[r].page = p => CopyOK(r, p)'
                    /\ faults' = 0 /\ p \notin refused' => RecordOK(p)'
  BY DEF PageOK
<1>1. Live(p)
  BY DEF Live
<1>2. /\ pages[p].private = asked[p]
      /\ pages[p].verified => p \in checked
      /\ \A r \in Requests : req[r].page = p => CopyOK(r, p)
      /\ faults = 0 /\ p \notin refused => RecordOK(p)
  BY <1>1 DEF PageOK
<1>3. ASSUME NEW r \in Requests, req'[r].page = p PROVE CopyOK(r, p)'
  BY <1>2, <1>3 DEF CopyOK
<1>4. ASSUME RecordOK(p) PROVE RecordOK(p)'
  <2>1. pages[p].dok # None => records'[pages[p].dok] = records[pages[p].dok]
    <3>1. pages[p].dok \in 1..MaxRecords \cup {None}
      BY DEF RowsOK, RowType
    <3> QED
      BY <3>1 DEF Mentions
  <2>2. ASSUME NEW r \in Requests, req[r].page = p, req[r].pc = "attached"
        PROVE  records'[req[r].record] = records[req[r].record]
    <3>1. req[r].record \in 1..MaxRecords
      BY <2>2 DEF Phase, RowsOK
    <3> QED
      BY <2>2, <3>1 DEF Mentions
  <2> QED
    BY <1>4, <2>1, <2>2 DEF RecordOK
<1> QED
  BY <1>2, <1>3, <1>4

LEMMA OwnersKept ==
    ASSUME RowsOK, Owners, created' \in Nat, created' >= created,
           \A i \in 1..MaxRecords : \A p \in Pages : Mentions(i, p)' => Mentions(i, p)
    PROVE  Owners'
  BY DEF Owners, RowsOK

\* What the management keeps is untouched.
LEMMA ManagementUntouched ==
    ASSUME RowsOK, Management, pages' = pages, req' = req, records' = records, created' = created,
           UNCHANGED past, faults' = faults
    PROVE  Management'
<1>1. \A p \in Pages : PageOK(p)'
  <2> SUFFICES ASSUME NEW p \in Pages PROVE PageOK(p)'
    OBVIOUS
  <2>1. PageOK(p) /\ \A r \in Requests : Phase(r)
    BY DEF Management
  <2>2. asked' = asked /\ checked' = checked /\ overlapped' = overlapped /\ refused' = refused
    BY DEF past
  <2> QED
    BY <2>1, <2>2, PageFrame
<1>2. Owners'
  BY OwnersKept DEF Management, Mentions, RowsOK
<1>3. Alone'
  BY DEF Management, Alone, past
<1>4. \A r \in Requests : Phase(r)'
  BY DEF Management, Phase
<1> QED
  BY <1>1, <1>2, <1>3, <1>4 DEF Management

-----------------------------------------------------------------------------
(* One step of request r on page p.                                        *)

\* PageOK for a page only request r can be on.
MineOK(r, p) ==
    /\ pages[p].private = asked[p]
    /\ pages[p].verified => p \in checked
    /\ req[r].page = p => CopyOK(r, p)
    /\ faults = 0 /\ p \notin refused =>
         /\ pages[p].dok # None /\ ~(req[r].page = p /\ req[r].pc = "domain")
              => records[pages[p].dok] = pages[p].domain
         /\ req[r].page = p /\ req[r].pc = "attached" => records[req[r].record] = pages[p].domain

LEMMA MineHolds ==
    ASSUME Management, NEW r \in Requests, NEW p \in Pages, req[r].page = p,
           p \notin overlapped, Live(p)
    PROVE  MineOK(r, p)
<1>1. \A u \in Requests : req[u].page = p => u = r
  BY DEF Management, Alone
<1>2. PageOK(p)
  BY DEF Management
<1> QED
  BY <1>1, <1>2 DEF PageOK, MineOK, RecordOK

LEMMA RequestSteps ==
    ASSUME RowsOK, Management, NEW r \in Requests, NEW p \in Pages, req[r].page = p,
           NEW q \in ReqRec, req' = [req EXCEPT ![r] = q], q = NoRequest \/ q.page = p,
           \A x \in Pages : x # p => pages'[x] = pages[x] /\ asked'[x] = asked[x]
                                     /\ (x \in checked => x \in checked'),
           overlapped' = overlapped, refused \subseteq refused', faults' = 0 => faults = 0,
           \A i \in 1..MaxRecords : \A x \in Pages : x # p /\ Mentions(i, x) => records'[i] = records[i],
           p \notin overlapped /\ Live(p)' => MineOK(r, p)',
           Phase(r)', Owners'
    PROVE  Management'
<1>1. /\ req'[r] = q /\ \A u \in Requests \ {r} : req'[u] = req[u]
  BY RequestStep
<1>2. q.page \in {p, None}
  BY NoRequestKinds
<1>3. \A u \in Requests : Phase(u)'
  BY <1>1 DEF Management, Phase
<1>4. Alone'
  <2> SUFFICES ASSUME NEW x \in Pages, x \notin overlapped',
                      NEW u \in Requests, NEW v \in Requests, req'[u].page = x, req'[v].page = x
               PROVE  u = v
    BY DEF Alone
  <2>1. req[u].page = x /\ req[v].page = x
    BY <1>1, <1>2, PageConstants
  <2> QED
    BY <2>1 DEF Management, Alone
<1>5. ASSUME NEW x \in Pages, x # p PROVE PageOK(x)'
  <2>1. \A u \in Requests : req'[u].page = x \/ req[u].page = x => req'[u] = req[u]
    BY <1>1, <1>2, <1>5, PageConstants
  <2>2. PageOK(x) /\ \A u \in Requests : Phase(u)
    BY DEF Management
  <2> QED
    BY <1>5, <2>1, <2>2, PageFrame
<1>6. PageOK(p)'
  <2> SUFFICES ASSUME p \notin overlapped', Live(p)'
               PROVE  /\ pages'[p].private = asked'[p]
                      /\ pages'[p].verified => p \in checked'
                      /\ \A u \in Requests : req'[u].page = p => CopyOK(u, p)'
                      /\ faults' = 0 /\ p \notin refused' => RecordOK(p)'
    BY DEF PageOK
  <2>1. MineOK(r, p)'
    OBVIOUS
  <2>2. \A u \in Requests : req'[u].page = p => u = r
    <3> SUFFICES ASSUME NEW u \in Requests, req'[u].page = p, u # r PROVE FALSE
      OBVIOUS
    <3>1. req[u].page = p
      BY <1>1
    <3> QED
      BY <3>1 DEF Management, Alone
  <2> QED
    BY <2>1, <2>2 DEF MineOK, RecordOK
<1> QED
  BY <1>3, <1>4, <1>5, <1>6 DEF Management

LEMMA TypeFrame ==
    ASSUME RowsOK, pages' \in [Pages -> RowType], req' \in [Requests -> ReqRec],
           tokens' = tokens, UNCHANGED gate, UNCHANGED <<cname, plan, now>>,
           records' \in [1..MaxRecords -> Domains \cup {None}], created' \in 0..MaxRecords,
           asked' \in [Pages -> BOOLEAN], checked' \subseteq Pages, overlapped' \subseteq Pages,
           refused' \subseteq Pages, inputs' \in 0..MaxInputs, faults' \in 0..MaxFaults
    PROVE  RowsOK'
  BY DEF RowsOK, gate, ReqRec

\* What a request in progress works on.
LEMMA RequestFacts ==
    ASSUME Inv, NEW r \in Requests, req[r].pc # "idle"
    PROVE  /\ RowsOK /\ Management
           /\ req[r] \in ReqRec /\ req[r].page \in Pages
           /\ pages \in [Pages -> RowType] /\ req \in [Requests -> ReqRec]
           /\ req[r].pc \in {"update", "password", "detach", "domain"} =>
                /\ req[r].body \in Patches
                /\ req[r].body.private \in BOOLEAN \cup {Keep}
                /\ req[r].body.password \in Passwords \cup {None, Keep}
                /\ req[r].body.domain \in Domains \cup {None, Keep}
<1>1. /\ RowsOK /\ Management
      /\ req[r] \in ReqRec /\ pages \in [Pages -> RowType] /\ req \in [Requests -> ReqRec]
  BY DEF Inv, RowsOK, ReqRec
<1>2. Phase(r)
  BY <1>1 DEF Management
<1>3. req[r].pc \in {"update", "password", "detach", "domain"} => req[r].body \in Patches
  BY <1>2 DEF Phase
<1>4. ASSUME NEW b \in Patches
      PROVE  /\ b.private \in BOOLEAN \cup {Keep}
             /\ b.password \in Passwords \cup {None, Keep}
             /\ b.domain \in Domains \cup {None, Keep}
  BY PageConstants
<1> QED
  BY <1>1, <1>2, <1>3, <1>4 DEF Phase

\* A request ends without having changed anything.
LEMMA EndsQuietly ==
    ASSUME Inv, NEW r \in Requests, req[r].pc # "idle", End(r), pages' = pages, tokens' = tokens,
           UNCHANGED gate, UNCHANGED <<cname, plan, now>>, UNCHANGED past,
           records' = records, created' = created, inputs' = inputs,
           faults' \in 0..MaxFaults,
           faults' = 0 => faults = 0 /\ req[r].pc # "domain"
    PROVE  Inv'
<1>0. /\ RowsOK /\ Management /\ req[r] \in ReqRec
  BY RequestFacts
<1>1. PICK p \in Pages : p = req[r].page
  BY RequestFacts
<1>2. req' = [req EXCEPT ![r] = NoRequest] /\ NoRequest \in ReqRec /\ NoRequest.page # p
  BY NoRequestKinds, PageConstants DEF End
<1>3. req' \in [Requests -> ReqRec] /\ req'[r] = NoRequest
  BY <1>0, <1>2, RequestStep
<1>4. RowsOK'
  BY <1>0, <1>3, TypeFrame DEF RowsOK, past
<1>5. Owners'
  <2>1. \A i \in 1..MaxRecords : \A x \in Pages : Mentions(i, x)' => Mentions(i, x)
    <3>1. /\ req'[r].page = None /\ None \notin Pages
          /\ \A u \in Requests \ {r} : req'[u] = req[u]
      BY <1>0, <1>2, <1>3, RequestStep, NoRequestKinds, PageConstants
    <3> QED
      BY <3>1 DEF Mentions
  <2> QED
    BY <1>0, <2>1, OwnersKept DEF Management, RowsOK
<1>6. Phase(r)'
  BY <1>3, NoRequestKinds DEF Phase
<1>7. ASSUME p \notin overlapped, Live(p)' PROVE MineOK(r, p)'
  <2>1. MineOK(r, p)
    BY <1>0, <1>1, <1>7, MineHolds DEF Live
  <2> QED
    BY <1>1, <1>2, <1>3, <2>1 DEF MineOK, past
<1>8. Management'
  BY <1>0, <1>1, <1>2, <1>5, <1>6, <1>7, RequestSteps DEF past
<1> QED
  BY <1>4, <1>8 DEF Inv

\* UpdateStatusPage: the visibility of the body, or of the copy, which is the row's
\* as long as nobody else is at work on the page.
LEMMA Updates ==
    ASSUME Inv, NEW r \in Requests, UpdateStatusPage(r)
    PROVE  Inv'
<1>0. /\ RowsOK /\ Management /\ req[r] \in ReqRec /\ req[r].pc = "update"
      /\ UNCHANGED <<tokens, gate, outside, checked, overlapped, refused, inputs, faults>>
      /\ req[r].body \in Patches /\ req[r].body.private \in BOOLEAN \cup {Keep}
  BY RequestFacts DEF UpdateStatusPage
<1>1. PICK p \in Pages : p = req[r].page
  BY <1>0, RequestFacts
<1>2. PICK v \in BOOLEAN : v = VisibilityOf(req[r].copy, req[r].body)
  BY <1>0 DEF VisibilityOf, ReqRec, RowType
<1>3. v = IF req[r].body.private = Keep THEN req[r].copy.private ELSE req[r].body.private
  BY <1>2 DEF VisibilityOf
<1> DEFINE row == [pages[p] EXCEPT !.private = v]
<1>4. row \in RowType /\ row.private = v /\ row.verified = pages[p].verified
      /\ row.domain = pages[p].domain /\ row.dok = pages[p].dok /\ row.life = pages[p].life
  <2>1. pages[p] \in RowType
    BY <1>0 DEF RowsOK
  <2>2. CASE v = TRUE
    BY <2>1, <2>2 DEF RowType
  <2>3. CASE v = FALSE
    BY <2>1, <2>3 DEF RowType
  <2> QED
    BY <2>2, <2>3
<1>5. /\ Update(p, row)
      /\ asked' = IF Live(p) /\ req[r].body.private # Keep THEN [asked EXCEPT ![p] = v] ELSE asked
      /\ IF Live(p) THEN Goto(r, "password") ELSE End(r)
  BY <1>1, <1>2 DEF UpdateStatusPage
<1> HIDE DEF row
<1>6. /\ pages' \in [Pages -> RowType]
      /\ \A x \in Pages : x # p => pages'[x] = pages[x]
      /\ Live(p) => pages'[p] = row
      /\ ~Live(p) => pages'[p] = pages[p]
  BY <1>0, <1>4, <1>5, RowUpdate
<1>7. CASE ~Live(p)
  <2>1. End(r) /\ asked' = asked
    BY <1>5, <1>7
  <2>2. pages' = pages
    BY <1>0, <1>6, <1>7 DEF RowsOK
  <2> QED
    BY <1>0, <2>1, <2>2, EndsQuietly DEF outside, past, RowsOK
<1>8. CASE Live(p)
  <2>1. PICK q \in ReqRec :
          /\ req' = [req EXCEPT ![r] = q]
          /\ q.pc = "password" /\ q.page = p /\ q.copy = req[r].copy /\ q.body = req[r].body
          /\ q.record = req[r].record
    BY <1>0, <1>1, <1>5, <1>8, GotoStep
  <2>2. /\ req' \in [Requests -> ReqRec] /\ req'[r] = q
        /\ \A u \in Requests \ {r} : req'[u] = req[u]
    BY <1>0, <2>1, RequestStep
  <2>3. /\ asked' \in [Pages -> BOOLEAN] /\ \A x \in Pages : x # p => asked'[x] = asked[x]
        /\ asked'[p] = IF req[r].body.private # Keep THEN v ELSE asked[p]
    BY <1>0, <1>5, <1>8 DEF RowsOK
  <2>4. RowsOK'
    BY <1>0, <1>6, <2>2, <2>3, TypeFrame DEF RowsOK, outside
  <2>5. Owners'
    <3>1. \A i \in 1..MaxRecords : \A x \in Pages : Mentions(i, x)' => Mentions(i, x)
      BY <1>1, <1>4, <1>6, <1>8, <2>1, <2>2 DEF Mentions
    <3> QED
      BY <1>0, <3>1, OwnersKept DEF Management, RowsOK, outside
  <2>6. Phase(r)'
    BY <1>0, <2>1, <2>2 DEF Phase
  <2>7. ASSUME p \notin overlapped PROVE MineOK(r, p)'
    <3>1. MineOK(r, p)
      BY <1>0, <1>1, <1>8, <2>7, MineHolds
    <3>2. v = asked'[p]
      BY <1>0, <1>1, <1>3, <2>3, <3>1 DEF MineOK, CopyOK
    <3>3. CopyOK(r, p)'
      BY <1>0, <1>1, <1>4, <1>6, <1>8, <2>1, <2>2, <3>1 DEF MineOK, CopyOK
    <3> QED
      BY <1>0, <1>1, <1>4, <1>6, <1>8, <2>1, <2>2, <3>1, <3>2, <3>3 DEF MineOK, outside
  <2>8. Management'
    BY <1>0, <1>1, <1>6, <2>1, <2>3, <2>5, <2>6, <2>7, RequestSteps DEF outside
  <2> QED
    BY <2>4, <2>8 DEF Inv
<1> QED
  BY <1>7, <1>8

\* Any step of a request that leaves the visibility alone.
LEMMA StepKeeps ==
    ASSUME Inv, NEW r \in Requests, req[r].pc # "idle", NEW p \in Pages, p = req[r].page,
           NEW q \in ReqRec, req' = [req EXCEPT ![r] = q], q = NoRequest \/ q.page = p,
           pages' \in [Pages -> RowType], \A x \in Pages : x # p => pages'[x] = pages[x],
           tokens' = tokens, UNCHANGED gate, UNCHANGED <<cname, plan, now>>,
           asked' = asked, overlapped' = overlapped, inputs' = inputs,
           records' \in [1..MaxRecords -> Domains \cup {None}], created' \in 0..MaxRecords,
           checked' \subseteq Pages, \A x \in Pages : x # p /\ x \in checked => x \in checked',
           refused \subseteq refused', refused' \subseteq Pages,
           faults' \in 0..MaxFaults, faults' = 0 => faults = 0,
           \A i \in 1..MaxRecords : \A x \in Pages : x # p /\ Mentions(i, x) => records'[i] = records[i],
           p \notin overlapped /\ Live(p)' => MineOK(r, p)',
           Phase(r)', Owners'
    PROVE  Inv'
<1>0. RowsOK /\ Management
  BY DEF Inv
<1>1. req' \in [Requests -> ReqRec]
  BY <1>0, RequestStep
<1>2. RowsOK'
  BY <1>0, <1>1, TypeFrame DEF RowsOK
<1>3. Management'
  BY <1>0, RequestSteps
<1> QED
  BY <1>2, <1>3 DEF Inv

\* What such a step says of the page comes from nowhere else.
LEMMA OwnersStep ==
    ASSUME Inv, NEW r \in Requests, NEW p \in Pages, p = req[r].page,
           NEW q \in ReqRec, req' = [req EXCEPT ![r] = q], q = NoRequest \/ q.page = p,
           \A x \in Pages : x # p => pages'[x] = pages[x],
           created' = created,
           pages'[p].dok \in {None, pages[p].dok, req[r].record},
           q.page = p => q.copy.dok = req[r].copy.dok /\ q.record \in {None, req[r].record}
    PROVE  Owners'
<1>0. RowsOK /\ Owners
  BY DEF Inv, Management
<1>1. req'[r] = q /\ \A u \in Requests \ {r} : req'[u] = req[u]
  BY <1>0, RequestStep
<1>2. ASSUME NEW i \in 1..MaxRecords, NEW x \in Pages, Mentions(i, x)' PROVE Mentions(i, x)
  <2>0. i # None /\ NoRequest.page # x
    BY NoRequestKinds, PageConstants
  <2>1. CASE x # p
    <3>1. req'[r].page # x
      BY <1>1, <2>0, <2>1
    <3> QED
      BY <1>1, <1>2, <2>1, <3>1 DEF Mentions
  <2>2. CASE x = p
    BY <1>1, <1>2, <2>0, <2>2 DEF Mentions
  <2> QED
    BY <2>1, <2>2
<1>3. created' \in Nat /\ created' >= created
  BY <1>0 DEF RowsOK
<1> QED
  BY <1>0, <1>2, <1>3, OwnersKept

LEMMA PasswordIsSet ==
    ASSUME Inv, NEW r \in Requests, SetPassword(r)
    PROVE  Inv'
<1>0. /\ RowsOK /\ Management /\ req[r] \in ReqRec /\ req[r].pc = "password" /\ req[r].pc # "idle"
      /\ UNCHANGED <<tokens, gate, outside, past, inputs, faults>>
      /\ req[r].body \in Patches
      /\ req[r].body.password \in Passwords \cup {None, Keep}
      /\ pages \in [Pages -> RowType]
  BY RequestFacts DEF SetPassword
<1>1. PICK p \in Pages : p = req[r].page
  BY <1>0, RequestFacts
<1>2. /\ pages' \in [Pages -> RowType]
      /\ \A x \in Pages : x # p => pages'[x] = pages[x]
      /\ pages'[p].private = pages[p].private /\ pages'[p].verified = pages[p].verified
      /\ pages'[p].domain = pages[p].domain /\ pages'[p].dok = pages[p].dok
      /\ pages'[p].life = pages[p].life
  <2>1. CASE req[r].body.password = Keep
    BY <1>0, <2>1 DEF SetPassword
  <2>2. CASE req[r].body.password # Keep
    <3> DEFINE row == [pages[p] EXCEPT !.password = req[r].body.password]
    <3>1. pages[p] \in RowType /\ req[r].body.password \in Passwords \cup {None}
      BY <1>0, <2>2
    <3>2. /\ row \in RowType /\ row.private = pages[p].private /\ row.verified = pages[p].verified
          /\ row.domain = pages[p].domain /\ row.dok = pages[p].dok /\ row.life = pages[p].life
      BY <3>1 DEF RowType
    <3>3. Update(p, row)
      BY <1>1, <2>2 DEF SetPassword, SetStatusPagePassword
    <3> HIDE DEF row
    <3> QED
      BY <1>0, <3>2, <3>3, RowUpdate
  <2> QED
    BY <2>1, <2>2
<1>3. PICK q \in ReqRec :
        /\ req' = [req EXCEPT ![r] = q]
        /\ \/ q = NoRequest
           \/ /\ q.pc = "detach" /\ q.page = p /\ q.copy = req[r].copy /\ q.body = req[r].body
              /\ q.record = req[r].record /\ req[r].body.domain # Keep
  <2>1. CASE req[r].body.domain = Keep
    BY <2>1, NoRequestKinds DEF SetPassword, End
  <2>2. CASE req[r].body.domain # Keep
    <3>1. Goto(r, "detach")
      BY <2>2 DEF SetPassword
    <3> QED
      BY <1>0, <1>1, <2>2, <3>1, GotoStep
  <2> QED
    BY <2>1, <2>2
<1>4. req'[r] = q
  BY <1>0, <1>3, RequestStep
<1>5. Owners'
  BY <1>0, <1>1, <1>2, <1>3, OwnersStep, NoRequestKinds, PageConstants DEF outside
<1>6. Phase(r)'
  BY <1>0, <1>3, <1>4, NoRequestKinds, PageConstants DEF Phase
<1>7. ASSUME p \notin overlapped, Live(p)' PROVE MineOK(r, p)'
  <2>1. Live(p)
    BY <1>2, <1>7 DEF Live
  <2>2. MineOK(r, p)
    BY <1>0, <1>1, <1>7, <2>1, MineHolds
  <2>3. req'[r].page = p => CopyOK(r, p)' /\ req'[r].pc = "detach"
    BY <1>1, <1>2, <1>3, <1>4, <2>2, NoRequestKinds, PageConstants DEF MineOK, CopyOK
  <2> QED
    BY <1>0, <1>1, <1>2, <2>2, <2>3 DEF MineOK, outside, past
<1> QED
  BY <1>0, <1>1, <1>2, <1>3, <1>5, <1>6, <1>7, StepKeeps DEF RowsOK, outside, past

\* The old record is deleted: it is a record of this page and of no other.
LEMMA DomainIsDetached ==
    ASSUME Inv, NEW r \in Requests, DeleteDomain(r)
    PROVE  Inv'
<1>0. /\ RowsOK /\ Management /\ req[r] \in ReqRec /\ req[r].pc = "detach" /\ req[r].pc # "idle"
      /\ UNCHANGED <<pages, tokens, created, cname, plan, now, gate, past, inputs>>
      /\ req[r].body \in Patches /\ pages \in [Pages -> RowType] /\ Goto(r, "domain")
      /\ Phase(r) /\ Owners
  BY RequestFacts DEF DeleteDomain, Management
<1>1. PICK p \in Pages : p = req[r].page
  BY <1>0, RequestFacts
<1>2. PICK q \in ReqRec :
        /\ req' = [req EXCEPT ![r] = q]
        /\ q.pc = "domain" /\ q.page = p /\ q.copy = req[r].copy /\ q.body = req[r].body
        /\ q.record = req[r].record
  BY <1>0, <1>1, GotoStep
<1>3. req'[r] = q
  BY <1>0, <1>2, RequestStep
<1>4. /\ records' \in [1..MaxRecords -> Domains \cup {None}]
      /\ \A i \in 1..MaxRecords : i # req[r].copy.dok => records'[i] = records[i]
      /\ faults' \in 0..MaxFaults /\ (faults' = 0 => faults = 0)
  <2>1. req[r].copy.dok \in 1..MaxRecords \cup {None}
    BY <1>0 DEF ReqRec, RowType
  <2>2. CASE UNCHANGED <<records, faults>>
    BY <1>0, <2>2 DEF RowsOK
  <2>3. CASE records' = [records EXCEPT ![req[r].copy.dok] = None] /\ UNCHANGED faults /\ req[r].copy.dok # None
    BY <1>0, <2>1, <2>3 DEF RowsOK
  <2>4. CASE faults < MaxFaults /\ faults' = faults + 1 /\ UNCHANGED records
    BY <1>0, <2>4, PageConstants DEF RowsOK
  <2> QED
    BY <2>2, <2>3, <2>4 DEF DeleteDomain
<1>5. ASSUME NEW i \in 1..MaxRecords, NEW x \in Pages, x # p, Mentions(i, x)
      PROVE  records'[i] = records[i]
  <2>1. i # req[r].copy.dok
    <3> SUFFICES ASSUME i = req[r].copy.dok PROVE FALSE
      OBVIOUS
    <3>1. Mentions(i, p)
      BY <1>1 DEF Mentions
    <3> QED
      BY <1>0, <1>5, <3>1 DEF Owners
  <2> QED
    BY <1>4, <2>1
<1>6. Owners'
  BY <1>0, <1>1, <1>2, OwnersStep
<1>7. Phase(r)'
  BY <1>0, <1>2, <1>3 DEF Phase
<1>8. ASSUME p \notin overlapped, Live(p)' PROVE MineOK(r, p)'
  <2>1. MineOK(r, p)
    BY <1>0, <1>1, <1>8, MineHolds DEF Live
  <2>2. CopyOK(r, p)'
    BY <1>0, <1>1, <1>2, <1>3, <2>1 DEF MineOK, CopyOK
  <2> QED
    BY <1>0, <1>2, <1>3, <2>1, <2>2 DEF MineOK, past
<1> QED
  BY ZenonT(60), <1>0, <1>1, <1>2, <1>4, <1>5, <1>6, <1>7, <1>8, StepKeeps DEF RowsOK, past

LEMMA DomainIsStored ==
    ASSUME Inv, NEW r \in Requests, StoreDomain(r)
    PROVE  Inv'
<1>0. /\ RowsOK /\ Management /\ req[r] \in ReqRec /\ req[r].pc = "domain" /\ req[r].pc # "idle"
      /\ UNCHANGED <<tokens, gate, outside, asked, overlapped, inputs, faults>>
      /\ req[r].body \in Patches /\ pages \in [Pages -> RowType] /\ End(r)
      /\ req[r].body.domain \in Domains \cup {None, Keep} /\ Phase(r)
  BY RequestFacts DEF StoreDomain, Management
<1>1. PICK p \in Pages : p = req[r].page
  BY <1>0, RequestFacts
<1>2. PICK d \in Domains \cup {None} : d = req[r].body.domain
  BY <1>0 DEF Phase
<1>3. req' = [req EXCEPT ![r] = NoRequest] /\ NoRequest \in ReqRec /\ NoRequest.page # p
  BY <1>0, NoRequestKinds, PageConstants DEF End
<1>4. req'[r] = NoRequest
  BY <1>0, <1>3, RequestStep
<1>5. /\ pages' \in [Pages -> RowType] /\ \A x \in Pages : x # p => pages'[x] = pages[x]
      /\ pages'[p].life = pages[p].life /\ pages'[p].private = pages[p].private
      /\ pages'[p].dok \in {None, pages[p].dok}
      /\ checked' \subseteq Pages /\ refused' \subseteq Pages
      /\ (\A x \in Pages : x # p /\ x \in checked => x \in checked') /\ refused \subseteq refused'
      /\ Live(p) => \/ p \in refused' /\ pages'[p] = pages[p] /\ checked' = checked
                    \/ pages'[p].verified = FALSE /\ pages'[p].dok = None
  <2>1. CASE Live(p) /\ DomainTaken(p, d)
    BY <1>0, <1>1, <1>2, <2>1 DEF StoreDomain, RowsOK
  <2>2. CASE ~(Live(p) /\ DomainTaken(p, d))
    <3> DEFINE row == [pages[p] EXCEPT !.domain = d, !.verified = FALSE, !.dok = None]
    <3>1. /\ row \in RowType /\ row.private = pages[p].private /\ row.verified = FALSE
          /\ row.dok = None /\ row.life = pages[p].life
      <4>1. pages[p] \in RowType
        BY <1>0
      <4> QED
        BY <4>1 DEF RowType
    <3>2. /\ Update(p, row) /\ refused' = refused
          /\ checked' = IF Live(p) THEN checked \ {p} ELSE checked
      BY <1>1, <1>2, <2>2 DEF StoreDomain, SetCustomDomain
    <3> HIDE DEF row
    <3>3. /\ pages' \in [Pages -> RowType]
          /\ \A x \in Pages : x # p => pages'[x] = pages[x]
          /\ Live(p) => pages'[p] = row
          /\ ~Live(p) => pages'[p] = pages[p]
      BY <1>0, <3>1, <3>2, RowUpdate
    <3> QED
      BY <1>0, <3>1, <3>2, <3>3 DEF RowsOK
  <2> QED
    BY <2>1, <2>2
<1>6. Owners'
  BY <1>0, <1>1, <1>3, <1>5, OwnersStep DEF outside
<1>7. Phase(r)'
  BY <1>4, NoRequestKinds DEF Phase
<1>8. ASSUME p \notin overlapped, Live(p)' PROVE MineOK(r, p)'
  <2>1. Live(p)
    BY <1>5, <1>8 DEF Live
  <2>2. MineOK(r, p)
    BY <1>0, <1>1, <1>8, <2>1, MineHolds
  <2> QED
    BY <1>0, <1>3, <1>4, <1>5, <2>1, <2>2 DEF MineOK, outside
<1> QED
  BY <1>0, <1>1, <1>3, <1>5, <1>6, <1>7, <1>8, StepKeeps DEF RowsOK, outside

LEMMA CnameIsLookedUp ==
    ASSUME Inv, NEW r \in Requests, cnameMatchesTarget(r)
    PROVE  Inv'
<1>0. /\ RowsOK /\ Management /\ req[r] \in ReqRec /\ req[r].pc = "lookup" /\ req[r].pc # "idle"
      /\ UNCHANGED <<pages, tokens, gate, outside, asked, overlapped, refused, inputs>>
      /\ pages \in [Pages -> RowType] /\ req \in [Requests -> ReqRec]
  BY RequestFacts DEF cnameMatchesTarget
<1>1. PICK p \in Pages : p = req[r].page
  BY <1>0, RequestFacts
<1>2. PICK v \in {req[r].copy.domain \in cname, FALSE} :
         /\ v \/ req[r].copy.domain \notin cname \/ faults < MaxFaults
         /\ faults' = IF v = (req[r].copy.domain \in cname) THEN faults ELSE faults + 1
         /\ req' = [req EXCEPT ![r].pc = "verified", ![r].result = v]
         /\ checked' = IF v /\ pages[p].domain = req[r].copy.domain THEN checked \cup {p} ELSE checked
  BY <1>1 DEF cnameMatchesTarget
<1> DEFINE q == [req[r] EXCEPT !.pc = "verified", !.result = v]
<1>3. v = TRUE \/ v = FALSE
  <2>1. v = (req[r].copy.domain \in cname) \/ v = FALSE
    BY <1>2
  <2>2. CASE v = (req[r].copy.domain \in cname) /\ req[r].copy.domain \in cname
    BY <2>2
  <2>3. CASE v = (req[r].copy.domain \in cname) /\ req[r].copy.domain \notin cname
    BY <2>3
  <2> QED
    BY <2>1, <2>2, <2>3
<1>4. /\ q \in ReqRec /\ q.pc = "verified" /\ q.page = p /\ q.copy = req[r].copy
      /\ q.record = req[r].record /\ q.result = v
  <2>1. CASE v = TRUE
    BY <1>0, <1>1, <2>1 DEF ReqRec
  <2>2. CASE v = FALSE
    BY <1>0, <1>1, <2>2 DEF ReqRec
  <2> QED
    BY <1>3, <2>1, <2>2
<1>5. req' = [req EXCEPT ![r] = q]
  BY <1>0, <1>2
<1> HIDE DEF q
<1>6. req'[r] = q
  BY <1>0, <1>4, <1>5, RequestStep
<1>7. faults' \in 0..MaxFaults /\ (faults' = 0 => faults = 0)
  <2>1. CASE v = (req[r].copy.domain \in cname)
    BY <1>0, <1>2, <2>1 DEF RowsOK
  <2>2. CASE v # (req[r].copy.domain \in cname)
    <3>1. faults' = faults + 1
      BY <1>2, <2>2
    <3>2. faults < MaxFaults
      <4>1. v \/ req[r].copy.domain \notin cname \/ faults < MaxFaults
        BY <1>2
      <4>2. v = FALSE
        BY <1>2, <2>2
      <4>3. CASE req[r].copy.domain \notin cname
        <5>1. (req[r].copy.domain \in cname) = FALSE
          BY <4>3
        <5> QED
          BY <2>2, <4>2, <5>1
      <4> QED
        BY <4>1, <4>2, <4>3
    <3> QED
      BY <1>0, <3>1, <3>2, PageConstants DEF RowsOK
  <2> QED
    BY <2>1, <2>2
<1>8. Owners'
  BY <1>0, <1>1, <1>4, <1>5, OwnersStep DEF outside
<1>9. Phase(r)'
  BY <1>4, <1>6 DEF Phase
<1>10. checked \subseteq checked' /\ checked' \subseteq Pages
       /\ (v /\ pages[p].domain = req[r].copy.domain => p \in checked')
  BY <1>0, <1>2 DEF RowsOK
<1>11. ASSUME p \notin overlapped, Live(p)' PROVE MineOK(r, p)'
  <2>1. MineOK(r, p)
    BY <1>0, <1>1, <1>11, MineHolds DEF Live
  <2>2. CopyOK(r, p)'
    BY <1>0, <1>1, <1>4, <1>6, <1>10, <2>1 DEF MineOK, CopyOK
  <2> QED
    BY <1>0, <1>1, <1>4, <1>6, <1>7, <1>10, <2>1, <2>2 DEF MineOK, outside
<1> QED
  BY <1>0, <1>1, <1>4, <1>5, <1>7, <1>8, <1>9, <1>10, <1>11, StepKeeps DEF RowsOK, outside

LEMMA VerifiedIsStored ==
    ASSUME Inv, NEW r \in Requests, StoreVerified(r)
    PROVE  Inv'
<1>0. /\ RowsOK /\ Management /\ req[r] \in ReqRec /\ req[r].pc = "verified" /\ req[r].pc # "idle"
      /\ UNCHANGED <<tokens, gate, outside, asked, checked, overlapped, refused, inputs, faults>>
      /\ pages \in [Pages -> RowType] /\ req \in [Requests -> ReqRec]
  BY RequestFacts DEF StoreVerified
<1>1. PICK p \in Pages : p = req[r].page
  BY <1>0, RequestFacts
<1>2. PICK v \in BOOLEAN : v = req[r].result
  BY <1>0 DEF ReqRec
<1>3. /\ pages' \in [Pages -> RowType] /\ \A x \in Pages : x # p => pages'[x] = pages[x]
      /\ pages'[p].life = pages[p].life /\ pages'[p].private = pages[p].private
      /\ pages'[p].dok = pages[p].dok /\ pages'[p].domain = pages[p].domain
      /\ Live(p) /\ pages'[p].verified => v \/ pages[p].verified
  <2>1. CASE v = req[r].copy.verified
    BY <1>0, <1>1, <1>2, <2>1 DEF StoreVerified
  <2>2. CASE v # req[r].copy.verified
    <3> DEFINE row == [pages[p] EXCEPT !.verified = v]
    <3>1. pages[p] \in RowType
      BY <1>0
    <3>2. /\ row \in RowType /\ row.life = pages[p].life /\ row.private = pages[p].private
          /\ row.dok = pages[p].dok /\ row.domain = pages[p].domain /\ row.verified = v
      <4>1. CASE v = TRUE
        BY <3>1, <4>1 DEF RowType
      <4>2. CASE v = FALSE
        BY <3>1, <4>2 DEF RowType
      <4> QED
        BY <4>1, <4>2
    <3>3. Update(p, row)
      BY <1>1, <1>2, <2>2 DEF StoreVerified, SetDomainVerified
    <3> HIDE DEF row
    <3>4. /\ pages' \in [Pages -> RowType]
          /\ \A x \in Pages : x # p => pages'[x] = pages[x]
          /\ Live(p) => pages'[p] = row
          /\ ~Live(p) => pages'[p] = pages[p]
      BY <1>0, <3>2, <3>3, RowUpdate
    <3>5. CASE Live(p)
      BY <3>2, <3>4, <3>5
    <3>6. CASE ~Live(p)
      BY <3>4, <3>6
    <3> QED
      BY <3>5, <3>6
  <2> QED
    BY <2>1, <2>2
<1>4. PICK q \in ReqRec :
        /\ req' = [req EXCEPT ![r] = q]
        /\ \/ q = NoRequest
           \/ /\ q.pc = "attach" /\ q.page = p /\ q.copy = req[r].copy
              /\ q.record = req[r].record
  <2>1. CASE v /\ req[r].copy.dok = None
    <3>1. Goto(r, "attach")
      BY <1>2, <2>1 DEF StoreVerified
    <3> QED
      BY <1>0, <1>1, <3>1, GotoStep
  <2>2. CASE ~(v /\ req[r].copy.dok = None)
    <3>1. End(r)
      BY <1>2, <2>2 DEF StoreVerified
    <3> QED
      BY <3>1, NoRequestKinds DEF End
  <2> QED
    BY <2>1, <2>2
<1>5. req'[r] = q
  BY <1>0, <1>4, RequestStep
<1>6. Owners'
  BY <1>0, <1>1, <1>3, <1>4, OwnersStep, NoRequestKinds, PageConstants DEF outside
<1>7. Phase(r)'
  BY <1>0, <1>1, <1>4, <1>5, NoRequestKinds DEF Phase
<1>8. ASSUME p \notin overlapped, Live(p)' PROVE MineOK(r, p)'
  <2>1. Live(p)
    BY <1>3, <1>8 DEF Live
  <2>2. MineOK(r, p)
    BY <1>0, <1>1, <1>8, <2>1, MineHolds
  <2>3. pages'[p].verified => p \in checked'
    <3>1. CASE v = TRUE
      BY <1>0, <1>1, <1>2, <2>2, <3>1 DEF MineOK, CopyOK
    <3>2. CASE v = FALSE
      BY <1>0, <1>3, <2>1, <2>2, <3>2 DEF MineOK
    <3> QED
      BY <3>1, <3>2
  <2>4. req'[r].page = p => CopyOK(r, p)' /\ req'[r].pc = "attach"
    BY <1>1, <1>3, <1>4, <1>5, <2>2, NoRequestKinds, PageConstants DEF MineOK, CopyOK
  <2> QED
    BY <1>0, <1>1, <1>3, <2>2, <2>3, <2>4 DEF MineOK, outside
<1> QED
  BY <1>0, <1>1, <1>3, <1>4, <1>6, <1>7, <1>8, StepKeeps DEF RowsOK, outside

\* The record stored is the one created for the domain the page still has.
LEMMA RecordIsStored ==
    ASSUME Inv, NEW r \in Requests, StoreRecord(r)
    PROVE  Inv'
<1>0. /\ RowsOK /\ Management /\ req[r] \in ReqRec /\ req[r].pc = "attached" /\ req[r].pc # "idle"
      /\ UNCHANGED <<tokens, gate, outside, past, inputs, faults>>
      /\ pages \in [Pages -> RowType] /\ req \in [Requests -> ReqRec] /\ End(r)
  BY RequestFacts DEF StoreRecord
<1>1. PICK p \in Pages : p = req[r].page
  BY <1>0, RequestFacts
<1>2. PICK i \in 1..MaxRecords \cup {None} : i = req[r].record
  BY <1>0 DEF ReqRec
<1> DEFINE row == [pages[p] EXCEPT !.dok = i]
<1>3. /\ row \in RowType /\ row.life = pages[p].life /\ row.private = pages[p].private
      /\ row.domain = pages[p].domain /\ row.verified = pages[p].verified /\ row.dok = i
  <2>1. pages[p] \in RowType
    BY <1>0
  <2> QED
    BY <2>1 DEF RowType
<1>4. Update(p, row)
  BY <1>1, <1>2 DEF StoreRecord, SetDokployDomainID
<1> HIDE DEF row
<1>5. /\ pages' \in [Pages -> RowType]
      /\ \A x \in Pages : x # p => pages'[x] = pages[x]
      /\ Live(p) => pages'[p] = row
      /\ ~Live(p) => pages'[p] = pages[p]
  BY <1>0, <1>3, <1>4, RowUpdate
<1>6. req' = [req EXCEPT ![r] = NoRequest] /\ NoRequest \in ReqRec /\ NoRequest.page # p
  BY <1>0, NoRequestKinds, PageConstants DEF End
<1>7. req'[r] = NoRequest
  BY <1>0, <1>6, RequestStep
<1>8. pages'[p].dok \in {pages[p].dok, req[r].record}
  BY <1>2, <1>3, <1>5
<1>9. Owners'
  BY <1>0, <1>1, <1>5, <1>6, <1>8, OwnersStep DEF outside
<1>10. Phase(r)'
  BY <1>7, NoRequestKinds DEF Phase
<1>11. ASSUME p \notin overlapped, Live(p)' PROVE MineOK(r, p)'
  <2>1. Live(p)
    BY <1>5, <1>11 DEF Live
  <2>2. MineOK(r, p)
    BY <1>0, <1>1, <1>11, <2>1, MineHolds
  <2>3. faults = 0 /\ p \notin refused => records[i] = pages[p].domain
    BY <1>0, <1>1, <1>2, <2>2 DEF MineOK
  <2> QED
    BY <1>0, <1>3, <1>5, <1>6, <1>7, <2>1, <2>2, <2>3 DEF MineOK, outside, past
<1> QED
  BY <1>0, <1>1, <1>5, <1>6, <1>9, <1>10, <1>11, StepKeeps DEF RowsOK, outside, past

LEMMA FailureIsQuiet ==
    ASSUME Inv, NEW r \in Requests, RequestFails(r)
    PROVE  Inv'
<1>1. faults' \in 0..MaxFaults /\ faults' # 0
  BY PageConstants DEF RequestFails, Inv, RowsOK
<1> QED
  BY <1>1, EndsQuietly DEF RequestFails, outside

\* A new record is nobody's yet.
LEMMA FreshRecord ==
    ASSUME RowsOK, Owners, created < MaxRecords,
           created' = created + 1,
           NEW d \in Domains \cup {None}, records' = [records EXCEPT ![created + 1] = d]
    PROVE  /\ created + 1 \in 1..MaxRecords /\ created' \in 0..MaxRecords
           /\ records' \in [1..MaxRecords -> Domains \cup {None}] /\ records'[created + 1] = d
           /\ \A i \in 1..MaxRecords : \A x \in Pages : Mentions(i, x) =>
                i <= created /\ i # created + 1 /\ records'[i] = records[i]
<1>1. /\ created \in 0..MaxRecords /\ MaxRecords \in Nat
      /\ records \in [1..MaxRecords -> Domains \cup {None}]
  BY PageConstants DEF RowsOK
<1>2. created + 1 \in 1..MaxRecords /\ created' \in 0..MaxRecords
  BY <1>1
<1>3. \A i \in 1..MaxRecords : i <= created => i # created + 1
  BY <1>1
<1> QED
  BY <1>1, <1>2, <1>3 DEF Owners

\* CreateDomain: the record is for the domain of the copy, which is the row's when
\* the request is alone on its page.
LEMMA RecordIsCreated ==
    ASSUME Inv, NEW r \in Requests, CreateDomain(r)
    PROVE  Inv'
<1>0. /\ RowsOK /\ Management /\ req[r] \in ReqRec /\ req[r].pc = "attach" /\ req[r].pc # "idle"
      /\ UNCHANGED <<pages, tokens, cname, plan, now, gate, past, inputs>>
      /\ pages \in [Pages -> RowType] /\ req \in [Requests -> ReqRec] /\ Owners
      /\ created < MaxRecords /\ created \in 0..MaxRecords /\ MaxRecords \in Nat
  BY RequestFacts, PageConstants DEF CreateDomain, Management, RowsOK
<1>1. PICK p \in Pages : p = req[r].page
  BY <1>0, RequestFacts
<1>2. PICK d \in Domains \cup {None} : d = req[r].copy.domain
  BY <1>0 DEF ReqRec, RowType
<1>3. ASSUME faults < MaxFaults, faults' = faults + 1 PROVE faults' \in 0..MaxFaults /\ faults' # 0
  BY <1>0, <1>3, PageConstants DEF RowsOK
<1>4. CASE /\ created' = created + 1 /\ records' = [records EXCEPT ![created + 1] = d]
           /\ req' = [req EXCEPT ![r].pc = "attached", ![r].record = created + 1]
           /\ UNCHANGED faults
  <2>1. PICK n \in 1..MaxRecords : n = created + 1
    BY <1>0
  <2> DEFINE q == [req[r] EXCEPT !.pc = "attached", !.record = n]
  <2>2. /\ q \in ReqRec /\ q.pc = "attached" /\ q.page = p /\ q.copy = req[r].copy /\ q.record = n
    BY <1>0, <1>1 DEF ReqRec
  <2>3. req' = [req EXCEPT ![r] = q]
    BY <1>0, <1>4, <2>1
  <2> HIDE DEF q
  <2>4. req'[r] = q /\ \A u \in Requests \ {r} : req'[u] = req[u]
    BY <1>0, <2>2, <2>3, RequestStep
  <2>5. /\ created' \in 0..MaxRecords /\ records' \in [1..MaxRecords -> Domains \cup {None}]
        /\ records'[n] = d
        /\ \A i \in 1..MaxRecords : \A x \in Pages : Mentions(i, x) =>
             i <= created /\ i # n /\ records'[i] = records[i]
    BY <1>0, <1>4, <2>1, FreshRecord
  <2>6. \A i \in 1..MaxRecords : \A x \in Pages : Mentions(i, x)' =>
          Mentions(i, x) \/ (i = n /\ x = p)
    <3> SUFFICES ASSUME NEW i \in 1..MaxRecords, NEW x \in Pages, Mentions(i, x)', ~Mentions(i, x)
                 PROVE  i = n /\ x = p
      OBVIOUS
    <3> QED
      BY <1>0, <1>1, <2>2, <2>4 DEF Mentions
  <2>7. Owners'
    <3> SUFFICES ASSUME NEW i \in 1..MaxRecords, NEW x \in Pages, Mentions(i, x)'
                 PROVE  i <= created' /\ \A y \in Pages : Mentions(i, y)' => y = x
      BY DEF Owners
    <3>1. i <= created'
      BY <1>0, <1>4, <2>1, <2>5, <2>6
    <3>2. ASSUME NEW y \in Pages, Mentions(i, y)' PROVE y = x
      <4>1. CASE i = n
        BY <2>5, <2>6, <3>2, <4>1
      <4>2. CASE i # n
        BY <1>0, <2>6, <3>2, <4>2 DEF Owners
      <4> QED
        BY <4>1, <4>2
    <3> QED
      BY <3>1, <3>2
  <2>8. Phase(r)'
    <3>1. None # n
      BY PageConstants
    <3> QED
      BY <2>2, <2>4, <3>1 DEF Phase
  <2>9. ASSUME p \notin overlapped, Live(p)' PROVE MineOK(r, p)'
    <3>1. MineOK(r, p)
      BY <1>0, <1>1, <2>9, MineHolds DEF Live
    <3>2. CopyOK(r, p)'
      BY <1>0, <1>1, <2>2, <2>4, <3>1 DEF MineOK, CopyOK
    <3>3. pages[p].dok # None => records'[pages[p].dok] = records[pages[p].dok]
      <4>1. pages[p].dok \in 1..MaxRecords \cup {None}
        BY <1>0 DEF RowType
      <4> QED
        BY <2>5, <4>1 DEF Mentions
    <3>4. records'[n] = pages[p].domain
      BY <1>1, <1>2, <2>5, <3>1 DEF MineOK, CopyOK
    <3> QED
      BY <1>0, <1>1, <1>4, <2>2, <2>4, <3>1, <3>2, <3>3, <3>4 DEF MineOK, past
  <2> QED
    BY <1>0, <1>1, <1>4, <2>2, <2>3, <2>5, <2>7, <2>8, <2>9, StepKeeps DEF RowsOK, past
<1>5. CASE /\ created' = created + 1 /\ records' = [records EXCEPT ![created + 1] = d]
           /\ faults < MaxFaults /\ faults' = faults + 1 /\ End(r)
  <2>1. req' = [req EXCEPT ![r] = NoRequest] /\ NoRequest \in ReqRec /\ NoRequest.page # p
    BY <1>5, NoRequestKinds, PageConstants DEF End
  <2>2. req'[r] = NoRequest /\ \A u \in Requests \ {r} : req'[u] = req[u]
    BY <1>0, <2>1, RequestStep
  <2>3. /\ created' \in 0..MaxRecords /\ records' \in [1..MaxRecords -> Domains \cup {None}]
        /\ \A i \in 1..MaxRecords : \A x \in Pages : Mentions(i, x) => records'[i] = records[i]
    BY <1>0, <1>5, FreshRecord
  <2>4. Owners'
    <3>1. ASSUME NEW i \in 1..MaxRecords, NEW x \in Pages, Mentions(i, x)' PROVE Mentions(i, x)
      <4>1. req'[r].page # x
        BY <2>2, NoRequestKinds, PageConstants
      <4> QED
        BY <1>0, <2>2, <3>1, <4>1 DEF Mentions
    <3>2. created' \in Nat /\ created' >= created
      BY <1>0, <1>5
    <3> QED
      BY <1>0, <3>1, <3>2, OwnersKept
  <2>5. Phase(r)'
    BY <2>2, NoRequestKinds DEF Phase
  <2>6. ASSUME p \notin overlapped, Live(p)' PROVE MineOK(r, p)'
    <3>1. MineOK(r, p)
      BY <1>0, <1>1, <2>6, MineHolds DEF Live
    <3> QED
      BY <1>0, <1>3, <1>5, <2>1, <2>2, <3>1 DEF MineOK, past
  <2> QED
    BY <1>0, <1>1, <1>3, <1>5, <2>1, <2>3, <2>4, <2>5, <2>6, StepKeeps DEF RowsOK, past
<1>6. CASE /\ faults < MaxFaults /\ faults' = faults + 1 /\ End(r) /\ UNCHANGED <<created, records>>
  BY <1>0, <1>3, <1>6, EndsQuietly
<1> QED
  BY <1>2, <1>4, <1>5, <1>6 DEF CreateDomain

\* A request starts: its copy is the row, and a page that is already served is marked.
LEMMA RequestBegins ==
    ASSUME Inv, NEW r \in Requests, NEW by \in Tokens \cup {"operator"}, NEW p \in Pages,
           NEW pc \in {"update", "lookup"}, NEW body \in Patches \cup {None},
           pc = "update" => body \in Patches,
           Begin(r, by, p, pc, body)
    PROVE  Inv'
<1>0. /\ RowsOK /\ Management /\ req[r].pc = "idle" /\ Live(p)
      /\ UNCHANGED <<pages, tokens, gate, outside, asked, checked, refused, faults>>
      /\ pages \in [Pages -> RowType] /\ req \in [Requests -> ReqRec] /\ Owners
      /\ inputs' \in 0..MaxInputs
      /\ overlapped' = IF \E q \in Requests : req[q].page = p THEN overlapped \cup {p} ELSE overlapped
      /\ \A u \in Requests : Phase(u)
  BY SMTT(30), PageConstants DEF Inv, Management, Begin, Input, RowsOK, ReqRec
<1> DEFINE q == [pc |-> pc, by |-> by, page |-> p, copy |-> pages[p],
                 body |-> body, result |-> FALSE, record |-> None]
<1>1. /\ q \in ReqRec /\ q.pc = pc /\ q.page = p /\ q.copy = pages[p] /\ q.body = body
      /\ q.result = FALSE /\ q.record = None
  BY <1>0 DEF ReqRec
<1>2. req' = [req EXCEPT ![r] = q]
  BY DEF Begin
<1> HIDE DEF q
<1>3. /\ req'[r] = q /\ req' \in [Requests -> ReqRec] /\ \A u \in Requests \ {r} : req'[u] = req[u]
  BY <1>0, <1>1, <1>2, RequestStep
<1>4. /\ overlapped \subseteq overlapped' /\ overlapped' \subseteq Pages
      /\ p \notin overlapped' => \A u \in Requests : req[u].page # p
  BY <1>0 DEF RowsOK
<1>5. RowsOK'
  BY <1>0, <1>3, <1>4, TypeFrame DEF RowsOK, outside
<1>6. Owners'
  <2>1. ASSUME NEW i \in 1..MaxRecords, NEW x \in Pages, Mentions(i, x)' PROVE Mentions(i, x)
    <3>1. i # None
      BY PageConstants
    <3> QED
      BY <1>0, <1>1, <1>3, <2>1, <3>1 DEF Mentions
  <2> QED
    BY <1>0, <2>1, OwnersKept DEF RowsOK, outside
<1>7. \A u \in Requests : Phase(u)'
  BY <1>0, <1>1, <1>3 DEF Phase
<1>8. Alone'
  <2> SUFFICES ASSUME NEW x \in Pages, x \notin overlapped',
                      NEW u \in Requests, NEW v \in Requests, req'[u].page = x, req'[v].page = x
               PROVE  u = v
    BY DEF Alone
  <2>1. CASE x = p
    BY <1>3, <1>4, <2>1
  <2>2. CASE x # p
    BY <1>0, <1>1, <1>3, <1>4, <2>2 DEF Management, Alone
  <2> QED
    BY <2>1, <2>2
<1>9. req[r].page = None
  BY <1>0, NoRequestKinds DEF Phase
<1>10. ASSUME NEW x \in Pages, x # p PROVE PageOK(x)'
  <2>1. \A u \in Requests : req'[u].page = x \/ req[u].page = x => req'[u] = req[u]
    BY <1>1, <1>3, <1>9, <1>10, PageConstants
  <2>2. PageOK(x)
    BY <1>0 DEF Management
  <2> QED
    BY <1>0, <1>4, <1>10, <2>1, <2>2, PageFrame DEF outside
<1>11. PageOK(p)'
  <2> SUFFICES ASSUME p \notin overlapped'
               PROVE  /\ pages'[p].private = asked'[p]
                      /\ pages'[p].verified => p \in checked'
                      /\ \A u \in Requests : req'[u].page = p => CopyOK(u, p)'
                      /\ faults' = 0 /\ p \notin refused' => RecordOK(p)'
    BY DEF PageOK
  <2>1. p \notin overlapped /\ \A u \in Requests : req'[u].page = p => u = r
    BY <1>3, <1>4
  <2>2. /\ pages[p].private = asked[p] /\ (pages[p].verified => p \in checked)
        /\ (faults = 0 /\ p \notin refused => RecordOK(p))
    BY <1>0, <2>1 DEF Management, PageOK
  <2>3. ASSUME NEW u \in Requests, req'[u].page = p PROVE CopyOK(u, p)'
    BY <1>0, <1>1, <1>3, <2>1, <2>3 DEF CopyOK
  <2>4. ASSUME RecordOK(p) PROVE RecordOK(p)'
    BY <1>0, <1>1, <1>3, <1>4, <2>1, <2>4 DEF RecordOK, outside
  <2> QED
    BY <1>0, <2>2, <2>3, <2>4
<1>12. Management'
  BY <1>6, <1>7, <1>8, <1>10, <1>11 DEF Management
<1> QED
  BY <1>5, <1>12 DEF Inv

-----------------------------------------------------------------------------
(* A request is never on a page that has yet to be created.                *)

Served == \A r \in Requests : \A p \in Pages : req[r].page = p => pages[p].life # "none"

\* No step of a request brings a page back or moves to another page.
LEMMA LifeKept ==
    ASSUME RowsOK, NEW p \in Pages, NEW row, row.life = pages[p].life, Update(p, row)
    PROVE  \A x \in Pages : pages'[x].life = pages[x].life
<1>1. CASE Live(p)
  BY <1>1 DEF RowsOK, Update
<1>2. CASE ~Live(p)
  BY <1>2 DEF Update
<1> QED
  BY <1>1, <1>2

LEMMA RowsLive ==
    ASSUME RowsOK, NEW p \in Pages, NEW v
    PROVE  /\ [pages[p] EXCEPT !.private = v].life = pages[p].life
           /\ [pages[p] EXCEPT !.password = v].life = pages[p].life
           /\ [pages[p] EXCEPT !.verified = v].life = pages[p].life
           /\ [pages[p] EXCEPT !.dok = v].life = pages[p].life
           /\ [pages[p] EXCEPT !.domain = v, !.verified = FALSE, !.dok = None].life = pages[p].life
<1>1. pages[p] \in RowType
  BY DEF RowsOK
<1> QED
  BY <1>1 DEF RowType

LEMMA ServeKeepsLife ==
    ASSUME Inv, NEW r \in Requests, Serve(r) \/ RequestFails(r)
    PROVE  \A x \in Pages : pages'[x].life = pages[x].life
<1>0. RowsOK /\ req[r].pc # "idle"
  BY DEF Inv, Serve, UpdateStatusPage, SetPassword, DeleteDomain, StoreDomain, cnameMatchesTarget,
         StoreVerified, CreateDomain, StoreRecord, RequestFails
<1>1. PICK p \in Pages : p = req[r].page
  BY <1>0, RequestFacts
<1>2. CASE UpdateStatusPage(r)
  <2>1. Update(p, [pages[p] EXCEPT !.private = VisibilityOf(req[r].copy, req[r].body)])
    BY <1>1, <1>2 DEF UpdateStatusPage
  <2> QED
    BY <1>0, <2>1, RowsLive, LifeKept
<1>3. CASE SetPassword(r)
  <2>1. \/ UNCHANGED pages
        \/ Update(p, [pages[p] EXCEPT !.password = req[r].body.password])
    BY <1>1, <1>3 DEF SetPassword, SetStatusPagePassword
  <2> QED
    BY <1>0, <2>1, RowsLive, LifeKept
<1>4. CASE StoreDomain(r)
  <2>1. \/ UNCHANGED pages
        \/ Update(p, [pages[p] EXCEPT !.domain = req[r].body.domain, !.verified = FALSE, !.dok = None])
    BY <1>1, <1>4 DEF StoreDomain, SetCustomDomain
  <2> QED
    BY <1>0, <2>1, RowsLive, LifeKept
<1>5. CASE StoreVerified(r)
  <2>1. \/ UNCHANGED pages
        \/ Update(p, [pages[p] EXCEPT !.verified = req[r].result])
    BY <1>1, <1>5 DEF StoreVerified, SetDomainVerified
  <2> QED
    BY <1>0, <2>1, RowsLive, LifeKept
<1>6. CASE StoreRecord(r)
  <2>1. Update(p, [pages[p] EXCEPT !.dok = req[r].record])
    BY <1>1, <1>6 DEF StoreRecord, SetDokployDomainID
  <2> QED
    BY <1>0, <2>1, RowsLive, LifeKept
<1>7. CASE DeleteDomain(r) \/ cnameMatchesTarget(r) \/ CreateDomain(r) \/ RequestFails(r)
  BY <1>7 DEF DeleteDomain, cnameMatchesTarget, CreateDomain, RequestFails
<1> QED
  BY <1>2, <1>3, <1>4, <1>5, <1>6, <1>7 DEF Serve

LEMMA ServeKeepsPage ==
    ASSUME Inv, NEW r \in Requests, Serve(r) \/ RequestFails(r), NEW u \in Requests
    PROVE  req'[u].page \in {req[u].page, None}
<1>1. RowsOK /\ req \in [Requests -> ReqRec] /\ req[r] \in ReqRec
  BY DEF Inv, RowsOK, ReqRec
<1>2. CASE End(r)
  <2>1. req' = [req EXCEPT ![r] = NoRequest]
    BY <1>2 DEF End
  <2> QED
    BY <1>1, <2>1, NoRequestKinds, RequestStep
<1>3. ASSUME NEW pc, Goto(r, pc) PROVE req'[u].page = req[u].page
  BY <1>1, <1>3 DEF Goto, ReqRec
<1>4. CASE cnameMatchesTarget(r)
  <2>1. PICK v : req' = [req EXCEPT ![r].pc = "verified", ![r].result = v]
    BY <1>4 DEF cnameMatchesTarget
  <2> QED
    BY <1>1, <2>1 DEF ReqRec
<1>5. CASE req' = [req EXCEPT ![r].pc = "attached", ![r].record = created + 1]
  BY <1>1, <1>5 DEF ReqRec
<1>6. CASE UpdateStatusPage(r) \/ SetPassword(r) \/ DeleteDomain(r) \/ StoreDomain(r)
  BY <1>2, <1>3, <1>6 DEF UpdateStatusPage, SetPassword, DeleteDomain, StoreDomain
<1>7. CASE StoreVerified(r) \/ StoreRecord(r) \/ RequestFails(r)
  BY <1>2, <1>3, <1>7 DEF StoreVerified, StoreRecord, RequestFails
<1>8. CASE CreateDomain(r)
  BY <1>2, <1>5, <1>8 DEF CreateDomain
<1> QED
  BY <1>4, <1>6, <1>7, <1>8 DEF Serve

\* The steps of a request.
LEMMA ServeStep ==
    ASSUME Inv, Served, NEW r \in Requests, Serve(r) \/ RequestFails(r)
    PROVE  Inv' /\ Served'
<1>1. Inv'
  BY Updates, PasswordIsSet, DomainIsDetached, DomainIsStored, CnameIsLookedUp, VerifiedIsStored,
     RecordIsCreated, RecordIsStored, FailureIsQuiet DEF Serve
<1>2. ASSUME NEW u \in Requests, NEW p \in Pages, req'[u].page = p PROVE pages'[p].life # "none"
  <2>1. req[u].page = p
    BY <1>2, ServeKeepsPage, PageConstants
  <2> QED
    BY <2>1, ServeKeepsLife DEF Served
<1> QED
  BY <1>1, <1>2 DEF Served

\* The start of a request.
LEMMA BeginStep ==
    ASSUME Inv, Served, NEW r \in Requests, NEW p \in Pages, NEW by \in Tokens \cup {"operator"},
           \/ \E body \in Patches : handlePatchPage(r, by, p, body)
           \/ handleVerifyDomain(r, by, p)
    PROVE  Inv' /\ Served'
<1>1. PICK pc \in {"update", "lookup"}, body \in Patches \cup {None} :
        (pc = "update" => body \in Patches) /\ Begin(r, by, p, pc, body)
  BY DEF handlePatchPage, handleVerifyDomain
<1>2. Inv'
  BY <1>1, RequestBegins
<1>3. /\ pages' = pages /\ Live(p) /\ \A u \in Requests \ {r} : req'[u] = req[u]
      /\ req'[r].page = p
  BY <1>1 DEF Begin, Inv, RowsOK
<1>4. Served'
  BY <1>3 DEF Served, Live
<1> QED
  BY <1>2, <1>4

\* One more request or outside event, within the bound.
LEMMA InputCounts ==
    ASSUME RowsOK, Input
    PROVE  inputs' \in 0..MaxInputs
  BY PageConstants DEF RowsOK, Input

\* POST: the page is new, and nobody works on it.
LEMMA PageIsCreated ==
    ASSUME Inv, Served, NEW p \in Pages, NEW private \in BOOLEAN, handleCreatePage(p, private)
    PROVE  Inv' /\ Served'
<1>a. /\ RowsOK /\ Management
      /\ pages \in [Pages -> RowType] /\ req \in [Requests -> ReqRec] /\ Owners
      /\ \A u \in Requests : Phase(u)
  BY DEF Inv, Management, RowsOK, ReqRec
<1>b. Input /\ pages[p].life = "none" /\ asked' = [asked EXCEPT ![p] = private]
      /\ UNCHANGED <<tokens, req, gate, outside, checked, overlapped, refused, faults>>
  BY DEF handleCreatePage
<1>c. inputs' \in 0..MaxInputs
  BY <1>a, <1>b, InputCounts
<1>0. /\ RowsOK /\ Management /\ pages[p].life = "none"
      /\ UNCHANGED <<tokens, req, gate, outside, checked, overlapped, refused, faults>>
      /\ pages \in [Pages -> RowType] /\ req \in [Requests -> ReqRec] /\ Owners
      /\ inputs' \in 0..MaxInputs /\ asked' = [asked EXCEPT ![p] = private]
      /\ \A u \in Requests : Phase(u)
  BY <1>a, <1>b, <1>c
<1> DEFINE row == [NoPage EXCEPT !.life = "live", !.private = private]
<1>1. /\ row \in RowType /\ row.life = "live" /\ row.private = private /\ row.dok = None
      /\ row.verified = FALSE
  <2>1. CASE private = TRUE
    BY <2>1, NoRequestKinds DEF RowType, NoPage
  <2>2. CASE private = FALSE
    BY <2>2, NoRequestKinds DEF RowType, NoPage
  <2> QED
    BY <2>1, <2>2
<1>2. pages' = [pages EXCEPT ![p] = row]
  BY DEF handleCreatePage, CreateStatusPage
<1> HIDE DEF row
<1>3. /\ pages' \in [Pages -> RowType] /\ pages'[p] = row
      /\ \A x \in Pages : x # p => pages'[x] = pages[x]
  BY <1>0, <1>1, <1>2
<1>4. /\ asked' \in [Pages -> BOOLEAN] /\ asked'[p] = private
      /\ \A x \in Pages : x # p => asked'[x] = asked[x]
  BY <1>0 DEF RowsOK
<1>5. RowsOK'
  BY <1>0, <1>3, <1>4, TypeFrame DEF RowsOK, outside
<1>6. \A u \in Requests : req[u].page # p
  BY <1>0 DEF Served
<1>7. Owners'
  <2>1. ASSUME NEW i \in 1..MaxRecords, NEW x \in Pages, Mentions(i, x)' PROVE Mentions(i, x)
    <3>1. i # None
      BY PageConstants
    <3> QED
      BY <1>0, <1>1, <1>3, <2>1, <3>1 DEF Mentions
  <2> QED
    BY <1>0, <2>1, OwnersKept DEF RowsOK, outside
<1>8. ASSUME NEW x \in Pages PROVE PageOK(x)'
  <2>1. CASE x # p
    <3>1. PageOK(x)
      BY <1>0 DEF Management
    <3> QED
      BY <1>0, <1>3, <1>4, <2>1, <3>1, PageFrame DEF outside
  <2>2. CASE x = p
    BY <1>0, <1>1, <1>3, <1>4, <1>6, <2>2 DEF PageOK, RecordOK
  <2> QED
    BY <2>1, <2>2
<1>9. Alone' /\ \A u \in Requests : Phase(u)'
  BY <1>0 DEF Management, Alone, Phase
<1>10. Management'
  BY <1>7, <1>8, <1>9 DEF Management
<1>12. Served'
  BY <1>0, <1>1, <1>3 DEF Served
<1> QED
  BY <1>5, <1>10, <1>12 DEF Inv

\* DELETE: the row stays and is found no more.
LEMMA PageIsDeleted ==
    ASSUME Inv, Served, NEW p \in Pages, handleDeletePage(p)
    PROVE  Inv' /\ Served'
<1>0. /\ RowsOK /\ Management
      /\ UNCHANGED <<tokens, req, gate, outside, past, faults>>
      /\ pages \in [Pages -> RowType] /\ req \in [Requests -> ReqRec] /\ Owners
      /\ inputs' \in 0..MaxInputs /\ \A u \in Requests : Phase(u)
  <2>1. RowsOK /\ Management /\ Input /\ UNCHANGED <<tokens, req, gate, outside, past, faults>>
    BY DEF Inv, handleDeletePage
  <2> QED
    BY <2>1, InputCounts DEF Management, RowsOK, ReqRec
<1> DEFINE row == [pages[p] EXCEPT !.life = "deleted"]
<1>1. /\ row \in RowType /\ row.life = "deleted" /\ row.dok = pages[p].dok
  <2>1. pages[p] \in RowType
    BY <1>0
  <2> QED
    BY <2>1 DEF RowType
<1>2. pages' = [pages EXCEPT ![p] = row]
  BY <1>0 DEF handleDeletePage, SoftDeleteStatusPage
<1> HIDE DEF row
<1>3. /\ pages' \in [Pages -> RowType] /\ pages'[p] = row
      /\ \A x \in Pages : x # p => pages'[x] = pages[x]
  BY <1>0, <1>1, <1>2
<1>4. RowsOK'
  BY <1>0, <1>3, TypeFrame DEF RowsOK, outside, past
<1>5. Owners'
  <2>1. ASSUME NEW i \in 1..MaxRecords, NEW x \in Pages, Mentions(i, x)' PROVE Mentions(i, x)
    BY <1>0, <1>1, <1>3, <2>1 DEF Mentions
  <2> QED
    BY <1>0, <2>1, OwnersKept DEF RowsOK, outside
<1>6. ASSUME NEW x \in Pages PROVE PageOK(x)'
  <2>1. CASE x # p
    <3>1. PageOK(x)
      BY <1>0 DEF Management
    <3> QED
      BY <1>0, <1>3, <2>1, <3>1, PageFrame DEF outside, past
  <2>2. CASE x = p
    BY <1>1, <1>3, <2>2 DEF PageOK, Live
  <2> QED
    BY <2>1, <2>2
<1>7. Alone' /\ \A u \in Requests : Phase(u)'
  BY <1>0 DEF Management, Alone, Phase, past
<1>8. Management'
  BY <1>5, <1>6, <1>7 DEF Management
<1>10. Served'
  BY <1>0, <1>1, <1>3 DEF Served
<1> QED
  BY <1>4, <1>8, <1>10 DEF Inv

-----------------------------------------------------------------------------
(* Tokens, plan, DNS and time.                                             *)

\* A step that leaves the management alone.
LEMMA ManagementRests ==
    ASSUME Inv, Served, RowsOK', pages' = pages, req' = req, records' = records,
           created' = created, UNCHANGED past, faults' = faults
    PROVE  Inv' /\ Served'
<1>1. Management'
  BY ManagementUntouched DEF Inv
<1> QED
  BY <1>1 DEF Inv, Served

LEMMA TokensStep ==
    ASSUME Inv, Served,
           \/ \E t \in Tokens, p \in Pages, s \in SUBSET {"read", "write"} : handleCreateToken(t, p, s)
           \/ \E t \in Tokens : handleDeleteToken(t)
    PROVE  Inv' /\ Served'
<1>0. RowsOK
  BY DEF Inv
<1> DEFINE TokenRow == [page : Pages, scopes : (SUBSET {"read", "write"}) \ {{}}]
<1>1. /\ tokens' \in [Tokens -> {None} \cup TokenRow]
      /\ Input /\ UNCHANGED <<pages, req, gate, outside, past, faults>>
  <2>1. CASE \E t \in Tokens, p \in Pages, s \in SUBSET {"read", "write"} : handleCreateToken(t, p, s)
    <3>1. PICK t \in Tokens, p \in Pages, s \in SUBSET {"read", "write"} : handleCreateToken(t, p, s)
      BY <2>1
    <3>2. PICK z \in (SUBSET {"read", "write"}) \ {{}} : z = IF s = {} THEN {"read", "write"} ELSE s
      <4>1. CASE s = {}
        BY <4>1
      <4>2. CASE s # {}
        BY <4>2
      <4> QED
        BY <4>1, <4>2
    <3>3. tokens' = [tokens EXCEPT ![t] = [page |-> p, scopes |-> z]]
      BY <3>1, <3>2 DEF handleCreateToken, CreateAPIToken
    <3>4. [page |-> p, scopes |-> z] \in TokenRow
      OBVIOUS
    <3>5. tokens \in [Tokens -> {None} \cup TokenRow]
      BY <1>0 DEF RowsOK
    <3> HIDE DEF TokenRow
    <3>6. tokens' \in [Tokens -> {None} \cup TokenRow]
      BY <3>3, <3>4, <3>5
    <3> QED
      BY <3>1, <3>6 DEF handleCreateToken
  <2>2. CASE \E t \in Tokens : handleDeleteToken(t)
    <3>1. PICK t \in Tokens : handleDeleteToken(t)
      BY <2>2
    <3>2. tokens' = [tokens EXCEPT ![t] = None]
      BY <3>1 DEF handleDeleteToken, DeleteAPIToken
    <3>3. tokens \in [Tokens -> {None} \cup TokenRow]
      BY <1>0 DEF RowsOK
    <3> HIDE DEF TokenRow
    <3>4. tokens' \in [Tokens -> {None} \cup TokenRow]
      BY <3>2, <3>3
    <3> QED
      BY <3>1, <3>4 DEF handleDeleteToken
  <2> QED
    BY <2>1, <2>2
<1>2. inputs' \in 0..MaxInputs
  BY <1>0, <1>1, InputCounts
<1>3. RowsOK'
  BY <1>0, <1>1, <1>2 DEF RowsOK, gate, outside, past
<1> QED
  BY <1>1, <1>3, ManagementRests DEF outside

LEMMA OutsideStep ==
    ASSUME Inv, Served, (\E d \in Domains : DnsChanges(d)) \/ SetAccountPlan
    PROVE  Inv' /\ Served'
<1>0. RowsOK
  BY DEF Inv
<1>1. /\ cname' \subseteq Domains /\ plan' \in {"free", "premium"}
      /\ Input /\ UNCHANGED <<pages, tokens, req, gate, records, created, now, past, faults>>
  BY <1>0 DEF DnsChanges, SetAccountPlan, RowsOK
<1>2. inputs' \in 0..MaxInputs
  BY <1>0, <1>1, InputCounts
<1>3. RowsOK'
  BY <1>0, <1>1, <1>2 DEF RowsOK, gate, past
<1> QED
  BY <1>1, <1>3, ManagementRests

LEMMA TickStep ==
    ASSUME Inv, Served, Tick
    PROVE  Inv' /\ Served'
<1>a. now \in Nat
  BY DEF Inv, RowsOK
<1>0. /\ RowsOK /\ now' = now + 1 /\ now \in Nat
      /\ UNCHANGED <<pages, tokens, req, gate, records, created, cname, plan, past, inputs, faults>>
  BY <1>a DEF Inv, Tick
<1>1. now' \in 0..Horizon
  BY PageConstants DEF Inv, Tick, RowsOK
<1>2. RowsOK'
  BY <1>0, <1>1 DEF RowsOK, gate, past
<1> QED
  BY <1>0, <1>2, ManagementRests

-----------------------------------------------------------------------------
(* The gate.                                                               *)

LEMMA ListStep ==
    ASSUME Inv, Served, NEW p \in Pages, NEW e \in Emails,
           handleAddAllowedEmail(p, e) \/ handleDeleteAllowedEmail(p, e)
    PROVE  Inv' /\ Served'
<1>0. RowsOK
  BY DEF Inv
<1>1. /\ allowed' \subseteq Pages \X Emails
      /\ Input /\ UNCHANGED <<pages, tokens, req, links, passes, seen, outside, past, faults>>
  BY <1>0 DEF handleAddAllowedEmail, handleDeleteAllowedEmail, AddAllowedEmail,
              DeleteAllowedEmail, RowsOK
<1>2. inputs' \in 0..MaxInputs
  BY <1>0, <1>1, InputCounts
<1>3. RowsOK'
  BY <1>0, <1>1, <1>2 DEF RowsOK, outside, past
<1> QED
  BY <1>1, <1>3, ManagementRests DEF outside

LEMMA LinkStep ==
    ASSUME Inv, Served, NEW p \in Pages, NEW e \in Emails, handleRequestAccessLink(p, e)
    PROVE  Inv' /\ Served'
<1>0. RowsOK
  BY DEF Inv
<1>1. /\ links' = links \cup {[page |-> p, email |-> e, expires |-> now + AccessLinkTTL]}
      /\ Input /\ UNCHANGED <<pages, tokens, req, allowed, passes, seen, outside, past, faults>>
  BY DEF handleRequestAccessLink
<1>2. now + AccessLinkTTL \in 0..Horizon + AccessLinkTTL
  BY <1>0, PageConstants DEF RowsOK
<1>3. links' \subseteq [page : Pages, email : Emails, expires : 0..Horizon + AccessLinkTTL]
  BY <1>0, <1>1, <1>2 DEF RowsOK
<1>4. inputs' \in 0..MaxInputs
  BY <1>0, <1>1, InputCounts
<1>5. RowsOK'
  BY <1>0, <1>1, <1>3, <1>4 DEF RowsOK, outside, past
<1> QED
  BY <1>1, <1>5, ManagementRests DEF outside

\* writeAccessGrant: one more pass.
LEMMA GrantStep ==
    ASSUME Inv, Served, NEW p \in Pages, NEW c \in Credentials, writeAccessGrant(p, c), Input,
           UNCHANGED <<pages, tokens, req, allowed, links, seen, outside, past, faults>>
    PROVE  Inv' /\ Served'
<1>0. RowsOK /\ now \in 0..Horizon /\ Horizon \in Nat /\ PageAccessTTL \in Nat
  BY PageConstants DEF Inv, RowsOK
<1>1. now + PageAccessTTL \in 0..Horizon + PageAccessTTL
  BY <1>0
<1>2. passes' \subseteq [page : Pages, cred : Credentials, expires : 0..Horizon + PageAccessTTL]
  BY <1>0, <1>1 DEF RowsOK, writeAccessGrant
<1>3. inputs' \in 0..MaxInputs
  BY <1>0, InputCounts
<1>4. RowsOK'
  BY <1>0, <1>2, <1>3 DEF RowsOK, outside, past
<1> QED
  BY <1>4, ManagementRests DEF outside

LEMMA ViewStep ==
    ASSUME Inv, Served, NEW p \in Pages, NEW pass \in passes, loadPublicPage(p, pass)
    PROVE  Inv' /\ Served'
<1>1. UNCHANGED <<pages, tokens, req, allowed, links, passes, outside, past, inputs, faults>>
  BY DEF loadPublicPage
<1>2. RowsOK'
  BY <1>1 DEF Inv, RowsOK, outside, past
<1> QED
  BY <1>1, <1>2, ManagementRests DEF outside

-----------------------------------------------------------------------------
(* The invariant of the management holds.                                  *)

LEMMA InvInit ==
    ASSUME Init
    PROVE  Inv /\ Served
<1>1. \A r \in Requests : req[r] = NoRequest
  BY DEF Init
<1>2. \A p \in Pages : pages[p] = NoPage /\ pages[p].life = "none" /\ pages[p].dok = None
  BY NoRequestKinds DEF Init, NoPage
<1>3. RowsOK
  BY NoRequestKinds, PageConstants DEF Init, RowsOK, ReqRec
<1>4. Owners
  <2>1. ASSUME NEW i \in 1..MaxRecords, NEW x \in Pages, Mentions(i, x) PROVE FALSE
    <3>1. i # None /\ None # x
      BY PageConstants
    <3> QED
      BY <1>1, <1>2, <2>1, <3>1, NoRequestKinds DEF Mentions
  <2> QED
    BY <2>1 DEF Owners
<1>5. \A r \in Requests : Phase(r)
  BY <1>1, NoRequestKinds DEF Phase
<1>6. Alone /\ Served
  BY <1>1, NoRequestKinds, PageConstants DEF Alone, Served
<1>7. \A p \in Pages : PageOK(p)
  BY <1>2 DEF PageOK, Live
<1>8. Management
  BY <1>4, <1>5, <1>6, <1>7 DEF Management
<1> QED
  BY <1>3, <1>6, <1>8 DEF Inv

LEMMA InvStep ==
    ASSUME Inv, Served, [Next]_vars
    PROVE  Inv' /\ Served'
<1>1. ASSUME NEW p \in Pages, NEW w \in Passwords, handlePageAccess(p, w) PROVE Inv' /\ Served'
  BY <1>1, GrantStep DEF handlePageAccess, Credentials
<1>2. ASSUME NEW p \in Pages, NEW l \in links, handleVerifyAccessLink(p, l) PROVE Inv' /\ Served'
  <2>1. l.email \in Credentials
    BY DEF Inv, RowsOK, Credentials
  <2> QED
    BY <1>2, <2>1, GrantStep DEF handleVerifyAccessLink
<1>3. CASE UNCHANGED vars
  <2>1. RowsOK'
    BY <1>3 DEF Inv, RowsOK, vars
  <2> QED
    BY <1>3, <2>1, ManagementRests DEF vars, past
<1>4. CASE \E p \in Pages :
         \/ \E private \in BOOLEAN : handleCreatePage(p, private)
         \/ handleDeletePage(p)
         \/ \E t \in Tokens, s \in SUBSET {"read", "write"} : handleCreateToken(t, p, s)
         \/ \E e \in Emails : \/ handleAddAllowedEmail(p, e) \/ handleDeleteAllowedEmail(p, e)
                              \/ handleRequestAccessLink(p, e)
         \/ \E w \in Passwords : handlePageAccess(p, w)
         \/ \E l \in links : handleVerifyAccessLink(p, l)
         \/ \E pass \in passes : loadPublicPage(p, pass)
  BY <1>1, <1>2, <1>4, PageIsCreated, PageIsDeleted, TokensStep, ListStep, LinkStep, ViewStep
<1> QED
  BY <1>3, <1>4, BeginStep, ServeStep, TokensStep, OutsideStep, TickStep DEF Next, Step

LEMMA InvHolds == Spec => [](Inv /\ Served)
<1>1. Init => Inv /\ Served
  BY InvInit
<1>2. Inv /\ Served /\ [Next]_vars => (Inv /\ Served)'
  BY InvStep
<1> QED
  BY <1>1, <1>2, PTL DEF Spec

-----------------------------------------------------------------------------
(* The inductive invariant of the gate.                                    *)

\* A pass expires PageAccessTTL after its credential last was good, at the latest.
PassOK(pass) ==
    /\ earned[pass.cred][pass.page] # 0
    /\ pass.expires + 1 <= earned[pass.cred][pass.page] + PageAccessTTL

\* What is good now is on record as such.
Recorded(c, p) ==
    /\ earned[c][p] <= now + 1
    /\ Good(p, c) => earned[c][p] = now + 1

Gate ==
    /\ earned \in [Credentials -> [Pages -> 0..Horizon + 1]]
    /\ seen \subseteq Nat
    /\ \A c \in Credentials : \A p \in Pages : Recorded(c, p)
    /\ \A pass \in passes : PassOK(pass)
    /\ SeenIsEarned

LEMMA GateInit ==
    ASSUME Init
    PROVE  Gate
<1>1. \A p \in Pages : ~Live(p)
  BY NoRequestKinds DEF Init, Live, NoPage
<1>2. \A c \in Credentials : \A p \in Pages : Recorded(c, p)
  BY <1>1 DEF Recorded, Good, Init
<1>3. earned \in [Credentials -> [Pages -> 0..Horizon + 1]]
  <2>1. 0 \in 0..Horizon + 1
    BY PageConstants
  <2> QED
    BY <2>1 DEF Init
<1> QED
  BY <1>2, <1>3 DEF Init, Gate, SeenIsEarned

\* The history only grows, whatever the step.
LEMMA HistoryGrows ==
    ASSUME Inv, Inv', Gate, Observe, (now' = now \/ now' = now + 1)
    PROVE  /\ earned' \in [Credentials -> [Pages -> 0..Horizon + 1]]
           /\ \A c \in Credentials : \A p \in Pages :
                Recorded(c, p)' /\ earned'[c][p] >= earned[c][p]
<1>0. /\ now \in 0..Horizon /\ now' \in 0..Horizon /\ Horizon \in Nat
      /\ earned \in [Credentials -> [Pages -> 0..Horizon + 1]]
  BY PageConstants DEF Inv, RowsOK, Gate
<1>1. ASSUME NEW c \in Credentials, NEW p \in Pages
      PROVE  /\ earned'[c][p] \in 0..Horizon + 1
             /\ Recorded(c, p)' /\ earned'[c][p] >= earned[c][p]
  <2>1. earned'[c][p] = IF Good(p, c)' THEN now' + 1 ELSE earned[c][p]
    BY DEF Observe
  <2>2. earned[c][p] \in 0..Horizon + 1 /\ earned[c][p] <= now + 1
    BY <1>0 DEF Gate, Recorded
  <2>3. PICK h \in 0..Horizon + 1 : h = earned[c][p]
    BY <2>2
  <2>4. PICK m \in 0..Horizon : m = now'
    BY <1>0
  <2>5. m = now \/ m = now + 1
    BY <2>4
  <2>6. h <= m + 1 /\ m + 1 <= m + 1 /\ m + 1 >= h /\ h >= h
    BY <1>0, <2>2, <2>3, <2>5
  <2>7. m + 1 \in 0..Horizon + 1
    BY <1>0
  <2>8. CASE Good(p, c)'
    <3>1. earned'[c][p] = m + 1 /\ now' = m /\ earned[c][p] = h
      BY <2>1, <2>8, <2>3, <2>4
    <3> QED
      BY <2>6, <2>7, <3>1 DEF Recorded
  <2>9. CASE ~Good(p, c)'
    <3>1. earned'[c][p] = h /\ now' = m /\ earned[c][p] = h
      BY <2>1, <2>9, <2>3, <2>4
    <3> QED
      BY <2>6, <2>9, <3>1 DEF Recorded
  <2> QED
    BY <2>8, <2>9
<1>2. earned' \in [Credentials -> [Pages -> 0..Horizon + 1]]
  BY <1>1 DEF Observe
<1> QED
  BY <1>1, <1>2

\* A pass given before keeps its ground.
LEMMA PassKept ==
    ASSUME Inv, Gate, NEW pass \in passes,
           earned' \in [Credentials -> [Pages -> 0..Horizon + 1]],
           \A c \in Credentials : \A p \in Pages : earned'[c][p] >= earned[c][p]
    PROVE  PassOK(pass)'
<1>1. /\ pass.cred \in Credentials /\ pass.page \in Pages
      /\ pass.expires \in 0..Horizon + PageAccessTTL
  BY DEF Inv, RowsOK
<1>2. PICK c \in Credentials, p \in Pages : c = pass.cred /\ p = pass.page
  BY <1>1
<1>3. /\ earned[c][p] \in Nat /\ earned'[c][p] \in Nat /\ earned'[c][p] >= earned[c][p]
      /\ pass.expires \in Nat /\ PageAccessTTL \in Nat
  BY <1>1, PageConstants DEF Gate
<1>4. earned[c][p] # 0 /\ pass.expires + 1 <= earned[c][p] + PageAccessTTL
  BY <1>2 DEF Gate, PassOK
<1>5. earned'[c][p] # 0 /\ pass.expires + 1 <= earned'[c][p] + PageAccessTTL
  BY <1>3, <1>4
<1> QED
  BY <1>2, <1>5 DEF PassOK

\* What may happen to passes and views: a grant to a credential that is good, by
\* what handlePageAccess or handleVerifyAccessLink has checked, or a view.
Granted(p, c) == Good(p, c) /\ writeAccessGrant(p, c) /\ seen' = seen

LEMMA GateSteps ==
    ASSUME Inv, Step
    PROVE  /\ (now' = now \/ now' = now + 1)
           /\ \/ UNCHANGED <<passes, seen>>
              \/ \E p \in Pages, c \in Credentials : Granted(p, c)
              \/ \E p \in Pages : \E pass \in passes : loadPublicPage(p, pass)
<1> DEFINE Quiet == (now' = now \/ now' = now + 1) /\ UNCHANGED <<passes, seen>>
<1>1. ASSUME NEW p \in Pages, NEW w \in Passwords, handlePageAccess(p, w)
      PROVE  now' = now /\ w \in Credentials /\ Granted(p, w)
  BY <1>1 DEF handlePageAccess, Granted, Good, Credentials, outside
<1>2. ASSUME NEW p \in Pages, NEW l \in links, handleVerifyAccessLink(p, l)
      PROVE  now' = now /\ l.email \in Credentials /\ Granted(p, l.email)
  <2>1. l.email \in Emails
    BY DEF Inv, RowsOK
  <2> QED
    BY <1>2, <2>1 DEF handleVerifyAccessLink, IsEmailAllowed, Valid, Granted, Good, Credentials, outside
<1>3. ASSUME NEW p \in Pages, NEW pass \in passes, loadPublicPage(p, pass) PROVE now' = now
  BY <1>3 DEF loadPublicPage, outside
<1>4. ASSUME NEW r \in Requests, Serve(r) \/ RequestFails(r) PROVE Quiet
  BY <1>4 DEF Serve, UpdateStatusPage, SetPassword, DeleteDomain, StoreDomain, cnameMatchesTarget,
              StoreVerified, CreateDomain, StoreRecord, RequestFails, gate, outside
<1>5. ASSUME NEW r \in Requests, NEW p \in Pages, NEW by \in Tokens \cup {"operator"},
             \/ \E body \in Patches : handlePatchPage(r, by, p, body)
             \/ handleVerifyDomain(r, by, p)
      PROVE  Quiet
  BY <1>5 DEF handlePatchPage, handleVerifyDomain, Begin, gate, outside
<1>6. ASSUME NEW p \in Pages,
             \/ \E private \in BOOLEAN : handleCreatePage(p, private)
             \/ handleDeletePage(p)
             \/ \E t \in Tokens, s \in SUBSET {"read", "write"} : handleCreateToken(t, p, s)
             \/ \E e \in Emails : \/ handleAddAllowedEmail(p, e) \/ handleDeleteAllowedEmail(p, e)
                                  \/ handleRequestAccessLink(p, e)
      PROVE  Quiet
  BY <1>6 DEF handleCreatePage, handleDeletePage, handleCreateToken, handleAddAllowedEmail,
              handleDeleteAllowedEmail, handleRequestAccessLink, gate, outside
<1>7. ASSUME \/ \E t \in Tokens : handleDeleteToken(t)
             \/ \E d \in Domains : DnsChanges(d)
             \/ SetAccountPlan \/ Tick
      PROVE  Quiet
  BY <1>7 DEF handleDeleteToken, DnsChanges, SetAccountPlan, Tick, gate, outside
<1>8. CASE \E p \in Pages : \/ \E w \in Passwords : handlePageAccess(p, w)
                            \/ \E l \in links : handleVerifyAccessLink(p, l)
                            \/ \E pass \in passes : loadPublicPage(p, pass)
  BY <1>1, <1>2, <1>3, <1>8
<1> HIDE DEF Quiet
<1>9. Quiet \/ \E p \in Pages : \/ \E w \in Passwords : handlePageAccess(p, w)
                                \/ \E l \in links : handleVerifyAccessLink(p, l)
                                \/ \E pass \in passes : loadPublicPage(p, pass)
  BY <1>4, <1>5, <1>6, <1>7 DEF Step
<1> QED
  BY <1>8, <1>9 DEF Quiet

\* A grant: the pass expires PageAccessTTL after now, when the credential was good.
LEMMA GrantIsEarned ==
    ASSUME Inv, Gate, NEW p \in Pages, NEW c \in Credentials, Granted(p, c),
           earned' \in [Credentials -> [Pages -> 0..Horizon + 1]],
           \A d \in Credentials : \A x \in Pages : earned'[d][x] >= earned[d][x]
    PROVE  \A pass \in passes' : PassOK(pass)'
<1>0. /\ earned[c][p] = now + 1 /\ earned'[c][p] >= earned[c][p]
      /\ earned'[c][p] \in Nat /\ now \in Nat /\ PageAccessTTL \in Nat
  BY PageConstants DEF Inv, RowsOK, Gate, Recorded, Granted
<1>1. earned'[c][p] # 0 /\ now + PageAccessTTL + 1 <= earned'[c][p] + PageAccessTTL
  BY <1>0
<1>2. ASSUME NEW pass, pass = [page |-> p, cred |-> c, expires |-> now + PageAccessTTL]
      PROVE  PassOK(pass)'
  <2>1. pass.page = p /\ pass.cred = c /\ pass.expires = now + PageAccessTTL
    BY <1>2
  <2> QED
    BY <1>1, <2>1 DEF PassOK
<1>3. passes' = passes \cup {[page |-> p, cred |-> c, expires |-> now + PageAccessTTL]}
  BY DEF Granted, writeAccessGrant
<1>4. ASSUME NEW pass \in passes' PROVE PassOK(pass)'
  <2>1. CASE pass \in passes
    BY <2>1, PassKept
  <2>2. CASE pass = [page |-> p, cred |-> c, expires |-> now + PageAccessTTL]
    BY <1>2, <2>2
  <2> QED
    BY <1>3, <1>4, <2>1, <2>2
<1> QED
  BY <1>4

\* loadPublicPage: a pass that is still valid was given at most PageAccessTTL ago.
LEMMA ViewIsEarned ==
    ASSUME Inv, Gate, NEW p \in Pages, NEW pass \in passes, loadPublicPage(p, pass)
    PROVE  seen' \subseteq Nat /\ SeenIsEarned' /\ passes' = passes
<1>0. /\ now \in 0..Horizon /\ Horizon \in Nat /\ PageAccessTTL \in Nat
      /\ now <= pass.expires /\ pass.page = p /\ passes' = passes
  BY PageConstants DEF Inv, RowsOK, loadPublicPage, hasPageAccess, Valid
<1>1. /\ pass.cred \in Credentials /\ pass.expires \in 0..Horizon + PageAccessTTL
      /\ earned[pass.cred][p] \in 0..Horizon + 1
  <2>1. pass.cred \in Credentials /\ pass.expires \in 0..Horizon + PageAccessTTL
    BY DEF Inv, RowsOK
  <2> QED
    BY <2>1 DEF Gate
<1>2. PICK n \in Nat : n = earned[pass.cred][p]
  BY <1>0, <1>1
<1>3. /\ n # 0 /\ pass.expires + 1 <= n + PageAccessTTL /\ n <= now + 1
  BY <1>0, <1>1, <1>2 DEF Gate, PassOK, Recorded
<1>4. seen' = seen \cup {now + 1 - n}
  BY <1>2, <1>3 DEF loadPublicPage
<1>5. now + 1 - n \in Nat /\ now + 1 - n <= PageAccessTTL
  BY <1>0, <1>1, <1>3
<1> QED
  BY <1>0, <1>4, <1>5 DEF Gate, SeenIsEarned

LEMMA GateStep ==
    ASSUME Inv, Inv', Gate, [Next]_vars
    PROVE  Gate'
<1>1. CASE UNCHANGED vars
  BY <1>1 DEF vars, Gate, PassOK, Recorded, Good, Live, SeenIsEarned
<1>2. CASE Step /\ Observe
  <2>1. /\ (now' = now \/ now' = now + 1)
        /\ \/ UNCHANGED <<passes, seen>>
           \/ \E p \in Pages, c \in Credentials : Granted(p, c)
           \/ \E p \in Pages : \E pass \in passes : loadPublicPage(p, pass)
    BY <1>2, GateSteps
  <2>2. /\ earned' \in [Credentials -> [Pages -> 0..Horizon + 1]]
        /\ \A c \in Credentials : \A p \in Pages :
             Recorded(c, p)' /\ earned'[c][p] >= earned[c][p]
    BY <1>2, <2>1, HistoryGrows
  <2>3. CASE UNCHANGED <<passes, seen>>
    BY <2>2, <2>3, PassKept DEF Gate, SeenIsEarned
  <2>4. CASE \E p \in Pages, c \in Credentials : Granted(p, c)
    <3>1. \A pass \in passes' : PassOK(pass)'
      BY <2>2, <2>4, GrantIsEarned
    <3> QED
      BY <2>2, <2>4, <3>1 DEF Gate, Granted, SeenIsEarned
  <2>5. CASE \E p \in Pages : \E pass \in passes : loadPublicPage(p, pass)
    BY <2>2, <2>5, ViewIsEarned, PassKept DEF Gate
  <2> QED
    BY <2>1, <2>3, <2>4, <2>5
<1> QED
  BY <1>1, <1>2 DEF Next

LEMMA GateHolds == Spec => [](Inv /\ Gate)
<1>1. Init => Gate
  BY GateInit
<1>2. Inv /\ Inv' /\ Gate /\ [Next]_vars => Gate'
  BY GateStep
<1> QED
  BY <1>1, <1>2, InvHolds, PTL DEF Spec

-----------------------------------------------------------------------------
(* The theorems.                                                           *)

(***************************************************************************)
(* Type correctness of pages, requests, tokens, records and passes.        *)
(***************************************************************************)
THEOREM TypeCorrect == Spec => []TypeOK
<1>1. Inv /\ Gate => TypeOK
  BY DEF Inv, Gate, TypeOK
<1> QED
  BY <1>1, GateHolds, PTL

(***************************************************************************)
(* A page that only one request at a time works on is as private as it was *)
(* last asked to be, whatever copies the PATCH handlers write back.        *)
(***************************************************************************)
THEOREM PrivacyHolds == Spec => []PrivacySticks
<1>1. Inv => PrivacySticks
  BY DEF Inv, Management, PageOK, PrivacySticks
<1> QED
  BY <1>1, InvHolds, PTL

(***************************************************************************)
(* The mark "verified" on such a page stands for a CNAME that was seen     *)
(* since its domain was set: a change of domain drops the old check.       *)
(***************************************************************************)
THEOREM VerificationHolds == Spec => []VerifiedIsChecked
<1>1. Inv => VerifiedIsChecked
  BY DEF Inv, Management, PageOK, VerifiedIsChecked
<1> QED
  BY <1>1, InvHolds, PTL

(***************************************************************************)
(* Without failures and refused changes, the record such a page names      *)
(* exists at Dokploy and serves its domain: no request deletes or names    *)
(* the record of another page.                                             *)
(***************************************************************************)
THEOREM AttachmentHolds == Spec => []AttachmentMatches
<1>1. ASSUME Inv PROVE AttachmentMatches
  <2> SUFFICES ASSUME faults = 0, NEW p \in Pages \ (overlapped \cup refused),
                      Live(p), pages[p].dok # None, \A r \in Requests : req[r].page # p
               PROVE  records[pages[p].dok] = pages[p].domain
    BY DEF AttachmentMatches
  <2>1. RecordOK(p)
    BY <1>1 DEF Inv, Management, PageOK
  <2> QED
    BY <2>1 DEF RecordOK
<1> QED
  BY <1>1, InvHolds, PTL

(***************************************************************************)
(* Whoever sees a private page had a credential that was good for this     *)
(* very page at most PageAccessTTL before, by the page's password or by    *)
(* its list and a live link.  The history that says so is kept apart from  *)
(* the handlers, so the theorem rests on what they check.                  *)
(***************************************************************************)
THEOREM AccessIsEarned == Spec => []SeenIsEarned
<1>1. Gate => SeenIsEarned
  BY DEF Gate
<1> QED
  BY <1>1, GateHolds, PTL
=============================================================================
