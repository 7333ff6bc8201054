-------------------------------- MODULE Pages --------------------------------
(***************************************************************************)
(* Status pages: their management (api/pages.go), the custom domain with   *)
(* its DNS check and its record at Dokploy (api/page_domain.go,            *)
(* dokploy/client.go), API tokens (api/tokens.go, api/middleware.go) and   *)
(* the gate of a private page (api/page_access.go, api/public.go).         *)
(*                                                                         *)
(* A management request reads the page once and works on its copy through  *)
(* several queries and calls; every one of them is a step.  The gate's     *)
(* handlers decide on one read and are single steps.  Names, themes and    *)
(* mail settings are payload and are left out; Dokploy, DNS and the        *)
(* account's plan belong to others and change on their own.                *)
(***************************************************************************)
EXTENDS Naturals, FiniteSets

CONSTANTS
    None,
    Keep,          \* a field the request does not mention
    Pages, Domains, Passwords, Emails,
    Tokens,        \* API tokens
    Requests,      \* management requests served at a time
    Patches,       \* bodies of PATCH: [private, password, domain], a value or Keep
    MaxRecords,    \* bound on the records ever created at Dokploy
    PageAccessTTL, AccessLinkTTL,
    Horizon,       \* bound on the clock
    MaxInputs,     \* bound on requests and outside events together
    MaxFaults      \* bound on failed calls

ASSUME PageConstants ==
    /\ None \notin Pages /\ None \notin Domains /\ None \notin Passwords
    /\ Keep \notin Domains /\ Keep \notin Passwords /\ Keep # None /\ Keep \notin BOOLEAN
    /\ Patches \subseteq [private : BOOLEAN \cup {Keep}, password : Passwords \cup {None, Keep},
                           domain : Domains \cup {None, Keep}]
    /\ MaxRecords \in Nat /\ None \notin 1..MaxRecords
    /\ PageAccessTTL \in Nat /\ AccessLinkTTL \in Nat /\ Horizon \in Nat
    /\ MaxInputs \in Nat /\ MaxFaults \in Nat

VARIABLES
    pages,       \* page -> row
    tokens,      \* API token -> its row, None when it does not exist
    records,     \* Dokploy: record -> host, None when it does not exist
    created,     \* records created so far
    cname,       \* domains whose CNAME points to us
    plan,        \* the account's plan
    allowed,     \* <<page, e-mail>> on the access lists
    links,       \* magic links sent: [page, email, expires]
    passes,      \* page-access tokens given: [page, email or password, expires]
    req,         \* management requests in progress
    now,         \* the clock
    asked,       \* history: page -> the visibility last asked for
    checked,     \* history: pages whose present domain was seen to point to us
    overlapped,  \* history: pages on which two requests were under way at once
    refused,     \* history: pages whose change of domain ended in 409
    earned,      \* history: credential and page -> when it last was good there, plus one
    seen,        \* history: age of the credential at each view of a private page
    inputs, faults

vars == <<pages, tokens, records, created, cname, plan, allowed, links, passes, req, now,
          asked, checked, overlapped, refused, earned, seen, inputs, faults>>

gate == <<allowed, links, passes, seen>>
outside == <<records, created, cname, plan, now>>
past == <<asked, checked, overlapped, refused>>

\* The row of a page.
RowType ==
    [life : {"none", "live", "deleted"}, private : BOOLEAN, password : Passwords \cup {None},
     domain : Domains \cup {None}, verified : BOOLEAN, dok : 1..MaxRecords \cup {None}]

NoPage == [life |-> "none", private |-> FALSE, password |-> None, domain |-> None,
           verified |-> FALSE, dok |-> None]

\* GetStatusPageByID finds only what is not deleted.
Live(p) == pages[p].life = "live"

\* A management request: who asks, the page and the copy read of it, the body of a
\* PATCH, the outcome of the DNS check and the record created at Dokploy.
NoRequest == [pc |-> "idle", by |-> None, page |-> None, copy |-> NoPage, body |-> None,
              result |-> FALSE, record |-> None]

\* What opens a private page: an address on its list or its password.
Credentials == Emails \cup Passwords

Init ==
    /\ pages = [p \in Pages |-> NoPage]
    /\ tokens = [t \in Tokens |-> None]
    /\ records = [i \in 1..MaxRecords |-> None] /\ created = 0
    /\ cname \in SUBSET Domains /\ plan = "premium"
    /\ allowed = {} /\ links = {} /\ passes = {}
    /\ req = [r \in Requests |-> NoRequest]
    /\ now = 0
    /\ asked = [p \in Pages |-> FALSE]
    /\ checked = {} /\ overlapped = {} /\ refused = {}
    /\ earned = [c \in Credentials |-> [p \in Pages |-> 0]] /\ seen = {}
    /\ inputs = 0 /\ faults = 0

Input == inputs < MaxInputs /\ inputs' = inputs + 1

-----------------------------------------------------------------------------
(* Queries.  Every UPDATE says "AND deleted_at IS NULL". *)

CreateStatusPage(p, private) ==
    pages' = [pages EXCEPT ![p] = [NoPage EXCEPT !.life = "live", !.private = private]]

SoftDeleteStatusPage(p) == pages' = [pages EXCEPT ![p].life = "deleted"]

CreateAPIToken(t, p, scopes) == tokens' = [tokens EXCEPT ![t] = [page |-> p, scopes |-> scopes]]

DeleteAPIToken(t) == tokens' = [tokens EXCEPT ![t] = None]

GetAPITokenByHash(t) == {tokens[t]} \ {None}

AddAllowedEmail(p, e) == allowed' = allowed \cup {<<p, e>>}

DeleteAllowedEmail(p, e) == allowed' = allowed \ {<<p, e>>}

Update(p, row) == pages' = IF Live(p) THEN [pages EXCEPT ![p] = row] ELSE pages

\* Mutant: a body without visibility makes the page public.
VisibilityDefaults(copy, body) == IF body.private = Keep THEN FALSE ELSE body.private

\* The visibility written by UpdateStatusPage: the body's, or the copy's.
VisibilityOf(copy, body) == IF body.private = Keep THEN copy.private ELSE body.private

\* The unique index on the domains of pages that are not deleted.
DomainTaken(p, d) == d # None /\ \E q \in Pages \ {p} : Live(q) /\ pages[q].domain = d

\* Mutant: a new domain keeps the check of the old one.
SetCustomDomainKeeps(p, d) == Update(p, [pages[p] EXCEPT !.domain = d, !.dok = None])

\* Mutant: a new domain keeps the record of the old one.
SetCustomDomainKeepsRecord(p, d) == Update(p, [pages[p] EXCEPT !.domain = d, !.verified = FALSE])

SetCustomDomain(p, d) ==
    Update(p, [pages[p] EXCEPT !.domain = d, !.verified = FALSE, !.dok = None])

SetDomainVerified(p, v) == Update(p, [pages[p] EXCEPT !.verified = v])

SetDokployDomainID(p, i) == Update(p, [pages[p] EXCEPT !.dok = i])

SetStatusPagePassword(p, w) == Update(p, [pages[p] EXCEPT !.password = w])

\* What an enabling field of the body needs; switching off is always allowed.
gatePagePremiumFeatures(body) ==
    (body.private = TRUE \/ body.password \in Passwords \/ body.domain \in Domains)
        => plan = "premium"

-----------------------------------------------------------------------------
(* Who asks: the operator of the account, or an API token. *)

CanWrite(token) == "write" \in token.scopes

\* requireAuth and authorizePage: a token acts on its own page, a mutation needs write.
Authorized(by, p) ==
    \/ by = "operator"
    \/ by \in Tokens /\ \E token \in GetAPITokenByHash(by) :
                           token.page = p /\ CanWrite(token)

handleCreateToken(t, p, scopes) ==
    /\ Input /\ Live(p) /\ tokens[t] = None
    /\ CreateAPIToken(t, p, IF scopes = {} THEN {"read", "write"} ELSE scopes)
    /\ UNCHANGED <<pages, req, gate, outside, past, faults>>

handleDeleteToken(t) ==
    /\ Input /\ tokens[t] # None /\ Live(tokens[t].page)
    /\ DeleteAPIToken(t)
    /\ UNCHANGED <<pages, req, gate, outside, past, faults>>

-----------------------------------------------------------------------------
(* Creation and deletion are one transaction each. *)

handleCreatePage(p, private) ==
    /\ Input /\ pages[p].life = "none"
    /\ CreateStatusPage(p, private)
    /\ asked' = [asked EXCEPT ![p] = private]
    /\ UNCHANGED <<tokens, req, gate, outside, checked, overlapped, refused, faults>>

\* The record at Dokploy, the list and the tokens stay.
handleDeletePage(p) ==
    /\ Input /\ Live(p)
    /\ SoftDeleteStatusPage(p)
    /\ UNCHANGED <<tokens, req, gate, outside, past, faults>>

-----------------------------------------------------------------------------
(* PATCH and the verification of the domain, query by query. *)

Begin(r, by, p, pc, body) ==
    /\ Input /\ req[r].pc = "idle"
    /\ Live(p) /\ Authorized(by, p)
    /\ req' = [req EXCEPT ![r] = [pc |-> pc, by |-> by, page |-> p, copy |-> pages[p],
                                  body |-> body, result |-> FALSE, record |-> None]]
    /\ overlapped' = IF \E q \in Requests : req[q].page = p THEN overlapped \cup {p}
                     ELSE overlapped
    /\ UNCHANGED <<pages, tokens, gate, outside, asked, checked, refused, faults>>

Goto(r, pc) == req' = [req EXCEPT ![r].pc = pc]
End(r) == req' = [req EXCEPT ![r] = NoRequest]

handlePatchPage(r, by, p, body) ==
    /\ gatePagePremiumFeatures(body)
    /\ Begin(r, by, p, "update", body)

\* The whole row is written from the copy; ErrNotFound ends the request.
UpdateStatusPage(r) ==
    /\ req[r].pc = "update"
    /\ LET p == req[r].page
           v == VisibilityOf(req[r].copy, req[r].body)
       IN /\ Update(p, [pages[p] EXCEPT !.private = v])
          /\ asked' = IF Live(p) /\ req[r].body.private # Keep
                      THEN [asked EXCEPT ![p] = v] ELSE asked
          /\ IF Live(p) THEN Goto(r, "password") ELSE End(r)
    /\ UNCHANGED <<tokens, gate, outside, checked, overlapped, refused, inputs, faults>>

SetPassword(r) ==
    /\ req[r].pc = "password"
    /\ IF req[r].body.password = Keep THEN UNCHANGED pages
       ELSE SetStatusPagePassword(req[r].page, req[r].body.password)
    /\ IF req[r].body.domain = Keep THEN End(r) ELSE Goto(r, "detach")
    /\ UNCHANGED <<tokens, gate, outside, past, inputs, faults>>

\* DeleteDomain of the record the copy names, before the new domain is stored.
\* It is best-effort: a failure is logged.
DeleteDomain(r) ==
    /\ req[r].pc = "detach"
    /\ IF req[r].copy.dok = None THEN UNCHANGED <<records, faults>>
       ELSE \/ records' = [records EXCEPT ![req[r].copy.dok] = None] /\ UNCHANGED faults
            \/ faults < MaxFaults /\ faults' = faults + 1 /\ UNCHANGED records
    /\ Goto(r, "domain")
    /\ UNCHANGED <<pages, tokens, created, cname, plan, now, gate, past, inputs>>

StoreDomain(r) ==
    /\ req[r].pc = "domain"
    /\ LET p == req[r].page
           d == req[r].body.domain
       IN IF Live(p) /\ DomainTaken(p, d)
          THEN refused' = refused \cup {p} /\ UNCHANGED <<pages, checked>>
          ELSE /\ SetCustomDomain(p, d)
               /\ checked' = IF Live(p) THEN checked \ {p} ELSE checked
               /\ UNCHANGED refused
    /\ End(r)
    /\ UNCHANGED <<tokens, gate, outside, asked, overlapped, inputs, faults>>

handleVerifyDomain(r, by, p) ==
    /\ pages[p].domain # None
    /\ Begin(r, by, p, "lookup", None)

\* A resolver that fails counts as a CNAME that does not match.
cnameMatchesTarget(r) ==
    /\ req[r].pc = "lookup"
    /\ \E v \in {req[r].copy.domain \in cname, FALSE} :
         /\ v \/ req[r].copy.domain \notin cname \/ faults < MaxFaults
         /\ faults' = IF v = (req[r].copy.domain \in cname) THEN faults ELSE faults + 1
         /\ req' = [req EXCEPT ![r].pc = "verified", ![r].result = v]
         /\ checked' = IF v /\ pages[req[r].page].domain = req[r].copy.domain
                       THEN checked \cup {req[r].page} ELSE checked
    /\ UNCHANGED <<pages, tokens, gate, outside, asked, overlapped, refused, inputs>>

\* The result is stored when it differs from the copy; the first success goes on
\* to Dokploy.
StoreVerified(r) ==
    /\ req[r].pc = "verified"
    /\ LET p == req[r].page
           v == req[r].result
       IN /\ IF v = req[r].copy.verified THEN UNCHANGED pages ELSE SetDomainVerified(p, v)
          /\ IF v /\ req[r].copy.dok = None THEN Goto(r, "attach") ELSE End(r)
    /\ UNCHANGED <<tokens, gate, outside, asked, checked, overlapped, refused, inputs, faults>>

\* CreateDomain.  On a failure the record may exist all the same.
CreateDomain(r) ==
    /\ req[r].pc = "attach"
    /\ created < MaxRecords
    /\ \/ /\ created' = created + 1
          /\ records' = [records EXCEPT ![created + 1] = req[r].copy.domain]
          /\ \/ req' = [req EXCEPT ![r].pc = "attached", ![r].record = created + 1]
                /\ UNCHANGED faults
             \/ faults < MaxFaults /\ faults' = faults + 1 /\ End(r)
       \/ faults < MaxFaults /\ faults' = faults + 1 /\ End(r) /\ UNCHANGED <<created, records>>
    /\ UNCHANGED <<pages, tokens, cname, plan, now, gate, past, inputs>>

StoreRecord(r) ==
    /\ req[r].pc = "attached"
    /\ SetDokployDomainID(req[r].page, req[r].record)
    /\ End(r)
    /\ UNCHANGED <<tokens, gate, outside, past, inputs, faults>>

\* A query fails or the operator's client goes away: the rest is not done.
RequestFails(r) ==
    /\ req[r].pc # "idle"
    /\ faults < MaxFaults /\ faults' = faults + 1
    /\ End(r)
    /\ UNCHANGED <<pages, tokens, gate, outside, past, inputs>>

-----------------------------------------------------------------------------
(* The gate of a private page. *)

\* IsEmailAllowed: addresses are compared without case, so one value per address.
IsEmailAllowed(p, e) == <<p, e>> \in allowed

handleAddAllowedEmail(p, e) ==
    /\ Input /\ Live(p) /\ plan = "premium" /\ ~IsEmailAllowed(p, e)
    /\ AddAllowedEmail(p, e)
    /\ UNCHANGED <<pages, tokens, req, links, passes, seen, outside, past, faults>>

handleDeleteAllowedEmail(p, e) ==
    /\ Input /\ Live(p) /\ IsEmailAllowed(p, e)
    /\ DeleteAllowedEmail(p, e)
    /\ UNCHANGED <<pages, tokens, req, links, passes, seen, outside, past, faults>>

writeAccessGrant(p, c) ==
    passes' = passes \cup {[page |-> p, cred |-> c, expires |-> now + PageAccessTTL]}

\* handlePageAccess with the right password.
handlePageAccess(p, w) ==
    /\ Input /\ Live(p) /\ pages[p].private /\ pages[p].password = w
    /\ writeAccessGrant(p, w)
    /\ UNCHANGED <<pages, tokens, req, allowed, links, seen, outside, past, faults>>

\* The link goes out only to an address on the list; the answer is 202 in any case.
handleRequestAccessLink(p, e) ==
    /\ Input /\ Live(p) /\ pages[p].private /\ IsEmailAllowed(p, e)
    /\ links' = links \cup {[page |-> p, email |-> e, expires |-> now + AccessLinkTTL]}
    /\ UNCHANGED <<pages, tokens, req, allowed, passes, seen, outside, past, faults>>

\* ParseAccessLinkToken and ParsePageAccessToken: expired only after the last second.
Valid(token) == now <= token.expires

\* Mutant: the list is not read again, so a removed address gets a pass.
handleVerifyAnyLink(p, l) ==
    /\ Input /\ Live(p) /\ Valid(l) /\ l.page = p
    /\ writeAccessGrant(p, l.email)
    /\ UNCHANGED <<pages, tokens, req, allowed, links, seen, outside, past, faults>>

\* The page in the path is the link's, and the list is read again.
handleVerifyAccessLink(p, l) ==
    /\ Input /\ Live(p) /\ Valid(l) /\ l.page = p
    /\ IsEmailAllowed(p, l.email)
    /\ writeAccessGrant(p, l.email)
    /\ UNCHANGED <<pages, tokens, req, allowed, links, seen, outside, past, faults>>

hasPageAccess(p, pass) == Valid(pass) /\ pass.page = p

\* loadPublicPage on a private page; the history keeps how old the credential is.
loadPublicPage(p, pass) ==
    /\ Live(p) /\ pages[p].private
    /\ hasPageAccess(p, pass)
    /\ LET age == IF earned[pass.cred][p] = 0 THEN Horizon + PageAccessTTL + 1
                  ELSE now + 1 - earned[pass.cred][p]
       IN age \notin seen /\ seen' = seen \cup {age}
    /\ UNCHANGED <<pages, tokens, req, allowed, links, passes, outside, past, inputs, faults>>

-----------------------------------------------------------------------------
(* Others: the owner of a zone, billing, time. *)

DnsChanges(d) ==
    /\ Input
    /\ cname' = IF d \in cname THEN cname \ {d} ELSE cname \cup {d}
    /\ UNCHANGED <<pages, tokens, req, gate, records, created, plan, now, past, faults>>

SetAccountPlan ==
    /\ Input
    /\ plan' = IF plan = "free" THEN "premium" ELSE "free"
    /\ UNCHANGED <<pages, tokens, req, gate, records, created, cname, now, past, faults>>

Tick ==
    /\ now < Horizon /\ now' = now + 1
    /\ UNCHANGED <<pages, tokens, req, gate, records, created, cname, plan, past, inputs, faults>>

-----------------------------------------------------------------------------

Serve(r) ==
    \/ UpdateStatusPage(r) \/ SetPassword(r) \/ DeleteDomain(r) \/ StoreDomain(r)
    \/ cnameMatchesTarget(r) \/ StoreVerified(r) \/ CreateDomain(r) \/ StoreRecord(r)

Step ==
    \/ \E r \in Requests, p \in Pages, by \in Tokens \cup {"operator"} :
         \/ \E body \in Patches : handlePatchPage(r, by, p, body)
         \/ handleVerifyDomain(r, by, p)
    \/ \E r \in Requests : Serve(r) \/ RequestFails(r)
    \/ \E p \in Pages :
         \/ \E private \in BOOLEAN : handleCreatePage(p, private)
         \/ handleDeletePage(p)
         \/ \E t \in Tokens, s \in SUBSET {"read", "write"} : handleCreateToken(t, p, s)
         \/ \E e \in Emails : \/ handleAddAllowedEmail(p, e) \/ handleDeleteAllowedEmail(p, e)
                              \/ handleRequestAccessLink(p, e)
         \/ \E w \in Passwords : handlePageAccess(p, w)
         \/ \E l \in links : handleVerifyAccessLink(p, l)
         \/ \E pass \in passes : loadPublicPage(p, pass)
    \/ \E t \in Tokens : handleDeleteToken(t)
    \/ \E d \in Domains : DnsChanges(d)
    \/ SetAccountPlan \/ Tick

\* A credential is good for a page when it is the password of the private page, or
\* an address on its list that has a link to this page which has not expired.
Good(p, c) ==
    /\ Live(p)
    /\ \/ c \in Passwords /\ pages[p].private /\ pages[p].password = c
       \/ /\ <<p, c>> \in allowed
          /\ \E l \in links : l.page = p /\ l.email = c /\ now <= l.expires

\* The history watches rows, lists and links from outside: no handler writes it.
Observe ==
    earned' = [c \in Credentials |-> [p \in Pages |->
                 IF Good(p, c)' THEN now' + 1 ELSE earned[c][p]]]

Next == Step /\ Observe

Spec == Init /\ [][Next]_vars

-----------------------------------------------------------------------------
(* Properties. *)

\* The type of rows, requests, lists, links and passes.
RowsOK ==
    /\ pages \in [Pages -> RowType]
    /\ tokens \in [Tokens -> {None} \cup [page : Pages, scopes : (SUBSET {"read", "write"}) \ {{}}]]
    /\ records \in [1..MaxRecords -> Domains \cup {None}] /\ created \in 0..MaxRecords
    /\ cname \subseteq Domains /\ plan \in {"free", "premium"}
    /\ allowed \subseteq Pages \X Emails
    /\ links \subseteq [page : Pages, email : Emails, expires : 0..Horizon + AccessLinkTTL]
    /\ passes \subseteq [page : Pages, cred : Credentials, expires : 0..Horizon + PageAccessTTL]
    /\ req \in [Requests ->
         [pc : {"idle", "update", "password", "detach", "domain",
                "lookup", "verified", "attach", "attached"},
          by : Tokens \cup {"operator", None}, page : Pages \cup {None}, copy : RowType,
          body : Patches \cup {None}, result : BOOLEAN, record : 1..MaxRecords \cup {None}]]
    /\ now \in 0..Horizon /\ inputs \in 0..MaxInputs /\ faults \in 0..MaxFaults
    /\ asked \in [Pages -> BOOLEAN]
    /\ checked \subseteq Pages /\ overlapped \subseteq Pages /\ refused \subseteq Pages

\* The type of the state, with the history of the gate.
TypeOK == RowsOK /\ earned \in [Credentials -> [Pages -> 0..Horizon + 1]] /\ seen \subseteq Nat

(***************************************************************************)
(* A page is as private as it was last asked to be, unless two requests on *)
(* it overlapped: UpdateStatusPage writes the visibility of a copy.        *)
(***************************************************************************)
PrivacySticks ==
    \A p \in Pages \ overlapped : Live(p) => pages[p].private = asked[p]

(***************************************************************************)
(* A verified domain is one whose CNAME was seen to point to us since it   *)
(* was set, unless two requests overlapped: handleVerifyDomain checks the  *)
(* domain of its copy and marks whatever domain the page has by then.      *)
(***************************************************************************)
VerifiedIsChecked ==
    \A p \in Pages \ overlapped : Live(p) /\ pages[p].verified => p \in checked

(***************************************************************************)
(* The record a page names exists at Dokploy and serves the page's domain, *)
(* unless two requests overlapped, a call failed, or a change of domain    *)
(* was refused after the old record had been deleted (handlePatchPage).    *)
(***************************************************************************)
AttachmentMatches ==
    faults = 0 => \A p \in Pages \ (overlapped \cup refused) :
        (Live(p) /\ pages[p].dok # None /\ \A r \in Requests : req[r].page # p)
            => records[pages[p].dok] = pages[p].domain

(***************************************************************************)
(* A private page is shown only to someone whose credential was good for   *)
(* this very page at most PageAccessTTL earlier: the password it had then, *)
(* or an address that was on its list and had a live link to it, whatever  *)
(* happened to list, password, links and page since                        *)
(* (handlePageAccess, handleVerifyAccessLink, loadPublicPage).             *)
(***************************************************************************)
SeenIsEarned == \A age \in seen : age <= PageAccessTTL

=============================================================================
