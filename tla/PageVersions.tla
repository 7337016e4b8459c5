---------------------------- MODULE PageVersions ----------------------------
(***************************************************************************)
(* The versions of one page of the content service: a page is created with *)
(* a draft, an edit appends a draft, publishing promotes one and points    *)
(* the page at it, and GET /pages/:id answers the current version.         *)
(*                                                                         *)
(* On the pool tier a call's writes commit together, but each of its       *)
(* statements sees what had committed when that statement began.  On the   *)
(* silo tier every statement commits by itself.  A version is its number:  *)
(* bodies never change.  Titles and slugs are left out, and so is an edit  *)
(* that changes only these.                                                *)
(***************************************************************************)
EXTENDS Integers, Sequences

CONSTANTS
  PageCalls,   \* requests to the service in flight at once
  MaxVersions, \* versions the page ever gets
  PageTiers    \* the tiers the tenant may have

\* createPage gives a page its first version without a bound.
ASSUME PageAssumption == MaxVersions \in Nat \ {0} /\ PageTiers \subseteq {"pool", "silo"}

VARIABLES
  pageTier,  \* of the tenant
  page,      \* the row of the page exists
  version,   \* state of the rows of page_version: draft or published
  live,      \* published_version_id (0: null)
  pagePc,    \* per call: idle, firstVersion, append, promote, point, findDraft
  pick,      \* per call: the number it appends, the version it publishes or read as live
  chosen,    \* per call: the request named the version to publish
  crossed,   \* history, per call: a publication committed after the call's first SELECT
  repeated,  \* history, per call: it looked for a draft when none was newer than live
  pageTorn   \* history: a call died between the two commits of the silo tier

pageLocals == <<pagePc, pick, chosen, crossed, repeated>>
pageVars == <<pageTier, page, version, live, pageLocals, pageTorn>>

PageInit ==
  /\ pageTier \in PageTiers
  /\ page = FALSE
  /\ version = << >>
  /\ live = 0
  /\ pagePc = [c \in PageCalls |-> "idle"]
  /\ pick = [c \in PageCalls |-> 0]
  /\ chosen = [c \in PageCalls |-> FALSE]
  /\ crossed = [c \in PageCalls |-> FALSE]
  /\ repeated = [c \in PageCalls |-> FALSE]
  /\ pageTorn = FALSE

PageGoto(c, step, v) ==
  /\ pagePc' = [pagePc EXCEPT ![c] = step]
  /\ pick' = [pick EXCEPT ![c] = v]

EndPageCall(c) ==
  /\ PageGoto(c, "idle", 0)
  /\ chosen' = [chosen EXCEPT ![c] = FALSE]
  /\ repeated' = [repeated EXCEPT ![c] = FALSE]

\* A call looks at nothing before the first SELECT of its own.
NotCrossed(c) == crossed' = [crossed EXCEPT ![c] = FALSE]

Drafts == {v \in DOMAIN version : version[v] = "draft"}

\* mutant: ORDER BY version_number.
OldestDraft == IF Drafts = {} THEN 0 ELSE CHOOSE v \in Drafts : \A d \in Drafts : v <= d

\* ORDER BY version_number DESC LIMIT 1; 0 when there is no draft.
LatestDraft == IF Drafts = {} THEN 0 ELSE CHOOSE v \in Drafts : \A d \in Drafts : d <= v

-----------------------------------------------------------------------------
(* createPage *)

CreatePage(c) ==
  /\ pagePc[c] = "idle" /\ ~page
  /\ page' = TRUE
  /\ \/ pageTier = "pool" /\ version' = <<"draft">> /\ UNCHANGED <<pagePc, pick>>
     \/ pageTier = "silo" /\ PageGoto(c, "firstVersion", 1) /\ UNCHANGED version
  /\ NotCrossed(c)
  /\ UNCHANGED <<pageTier, live, chosen, repeated, pageTorn>>

(* updatePage with a body *)

\* The snapshot of INSERT ... SELECT MAX(version_number) + 1.
ReadMax(c) ==
  /\ pagePc[c] = "idle" /\ page /\ Len(version) < MaxVersions
  /\ PageGoto(c, "append", Len(version) + 1)
  /\ NotCrossed(c)
  /\ UNCHANGED <<pageTier, page, version, live, chosen, repeated, pageTorn>>

\* The INSERT of an edit, and of createPage on the silo tier: UNIQUE (tenant_id,
\* page_id, version_number) fails the call when its number is taken.
InsertVersion(c) ==
  /\ pagePc[c] \in {"append", "firstVersion"}
  /\ version' = IF pick[c] \in DOMAIN version THEN version ELSE Append(version, "draft")
  /\ EndPageCall(c)
  /\ UNCHANGED <<pageTier, page, live, crossed, pageTorn>>

(* publishPage *)

\* The version the request names, draft or not, or the latest draft.
FindTarget(c) ==
  /\ pagePc[c] = "idle" /\ page
  /\ \E v \in DOMAIN version, named \in BOOLEAN :
       /\ named \/ v = LatestDraft
       /\ PageGoto(c, "promote", v)
       /\ chosen' = [chosen EXCEPT ![c] = named]
  /\ repeated' = [repeated EXCEPT ![c] = \A d \in Drafts : d < live]
  /\ NotCrossed(c)
  /\ UNCHANGED <<pageTier, page, version, live, pageTorn>>

\* Whoever is between two statements may answer what was so before this one.
Cross(c) == crossed' = [d \in PageCalls |-> crossed[d] \/ (d # c /\ pagePc[d] # "idle")]

\* pool: COMMIT of both UPDATEs; silo: the first of them.
Promote(c) ==
  /\ pagePc[c] = "promote"
  /\ version' = [version EXCEPT ![pick[c]] = "published"]
  /\ \/ pageTier = "pool" /\ live' = pick[c] /\ EndPageCall(c) /\ Cross(c)
     \/ /\ pageTier = "silo" /\ PageGoto(c, "point", pick[c])
        /\ UNCHANGED <<live, chosen, repeated, crossed>>
  /\ UNCHANGED <<pageTier, page, pageTorn>>

Point(c) ==
  /\ pagePc[c] = "point"
  /\ live' = pick[c]
  /\ EndPageCall(c)
  /\ Cross(c)
  /\ UNCHANGED <<pageTier, page, version, pageTorn>>

(* getPage *)

\* SELECT ... FROM page, published_version_id with it.
ReadPage(c) ==
  /\ pagePc[c] = "idle" /\ page
  /\ PageGoto(c, "findDraft", live)
  /\ NotCrossed(c)
  /\ UNCHANGED <<pageTier, page, version, live, chosen, repeated, pageTorn>>

\* mutant: the published version is not fallen back on.
DraftOnly(c) == LatestDraft

\* currentVersion of the answer: the latest draft if there is any, else the
\* published version of the row that was read, else none (0).
CurrentVersion(c) == IF LatestDraft # 0 THEN LatestDraft ELSE pick[c]

\* The second SELECT; CurrentVersion is answered and nothing is written.
AnswerPage(c) ==
  /\ pagePc[c] = "findDraft"
  /\ EndPageCall(c)
  /\ UNCHANGED <<pageTier, page, version, live, crossed, pageTorn>>

(* the environment *)

\* A query throws or the process dies; a transaction leaves nothing behind.
PageCallFails(c) ==
  /\ pagePc[c] # "idle"
  /\ pageTorn' = (pageTorn \/ pagePc[c] \in {"firstVersion", "point"})
  /\ EndPageCall(c)
  /\ UNCHANGED <<pageTier, page, version, live, crossed>>

PageNext == \E c \in PageCalls :
  \/ CreatePage(c) \/ ReadMax(c) \/ InsertVersion(c)
  \/ FindTarget(c) \/ Promote(c) \/ Point(c)
  \/ ReadPage(c) \/ AnswerPage(c) \/ PageCallFails(c)

PageSpec == PageInit /\ [][PageNext]_pageVars

-----------------------------------------------------------------------------
PageTypeOK ==
  /\ pageTier \in PageTiers
  /\ page \in BOOLEAN
  /\ version \in Seq({"draft", "published"}) /\ Len(version) <= MaxVersions
  /\ live \in 0..Len(version)
  /\ pagePc \in [PageCalls ->
       {"idle", "firstVersion", "append", "promote", "point", "findDraft"}]
  /\ pick \in [PageCalls -> 0..MaxVersions]
  /\ chosen \in [PageCalls -> BOOLEAN] /\ crossed \in [PageCalls -> BOOLEAN]
  /\ repeated \in [PageCalls -> BOOLEAN]
  /\ pageTorn \in BOOLEAN

\* A page that is read has a current version, whatever is edited and published
\* meanwhile: none is answered only if a publication committed between the
\* statements of the read or, on the silo tier, a call is between its own two
\* commits or died there.
PageIsNotBlank == \A c \in PageCalls :
  pagePc[c] = "findDraft" /\ CurrentVersion(c) = 0 =>
    \/ crossed[c]
    \/ pageTorn
    \/ \E d \in PageCalls : pagePc[d] \in {"firstVersion", "point"}

\* What is published goes back to an older version only if the request named it,
\* if it asked for the latest draft again when no draft was newer (a retry of what
\* was done), or if another publication committed since it looked.
PublishedGoesBack ==
  [][live' < live => \E c \in PageCalls :
       /\ pagePc[c] \in {"promote", "point"} /\ pagePc'[c] = "idle" /\ pick[c] = live'
       /\ chosen[c] \/ repeated[c] \/ crossed[c]]_pageVars
=============================================================================
