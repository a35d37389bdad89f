---------------------------- MODULE EvidencePipeline ----------------------------
(***************************************************************************)
(* The evidence of one council's applications: the document and refresh    *)
(* stages of its daily run (stage_documents and stage_evidence_refresh of  *)
(* app/pipeline/run_weekly.py, app/pipeline/evidence_refresh.py) beside    *)
(* Intelligence Processing, a job of its own (stage_intelligence_refresh,  *)
(* stage_extraction, app/extraction/intelligence_refresh.py).              *)
(*                                                                         *)
(* One step is one portal call or one commit.  The portal is up or down;   *)
(* a document or a register page may be broken while it is up.  Documents  *)
(* are those of a useful type, in three categories that reasons tell       *)
(* apart.  Applications here have passed the unit gate and share a Site.   *)
(***************************************************************************)
EXTENDS PortalCircuit, FiniteSets, FiniteSetsExt

CONSTANTS
  Apps,          \* application ids
  Docs,          \* documents the portal may list, also ids
  Owner,         \* the application a document is listed under
  Category,      \* its category
  Readable,      \* documents with extractable text
  Parent,        \* the application a proposal cites as its parent, 0 for none
  Legacy,        \* documented before documents_last_checked_at existed
  HasUrl,        \* applications with a summary_url
  RefreshLimit,  \* EVIDENCE_REFRESH_RUN_LIMIT
  Reasons,       \* material-change reasons that occur
  MaxChanges,    \* model bound: material changes
  MaxOutages,    \* model bound: times the portal goes down or something breaks
  MaxCrashes,    \* model bound: killed daily runs
  MaxLlmErrors   \* model bound: failed LLM calls

Categories == {"decision_notice", "s106", "planning_statement"}

ASSUME IdAssumption == Apps \subseteq Nat \ {0} /\ Docs \cap Apps = {}
ASSUME PortalAssumption ==
  /\ Owner \in [Docs -> Apps] /\ Category \in [Docs -> Categories]
  /\ Readable \subseteq Docs /\ Parent \in [Apps -> Apps \cup {0}]
  /\ Legacy \cup HasUrl \subseteq Apps /\ \A a \in Legacy : \E d \in Docs : Owner[d] = a
ASSUME ReasonAssumption ==
  Reasons \subseteq {"decision_granted", "decision_refused", "unit_count_changed"}
ASSUME BoundAssumption ==
  {MaxChanges, MaxOutages, MaxCrashes, MaxLlmErrors} \subseteq Nat /\ RefreshLimit \in Nat \ {0}

VARIABLES
  portal,   \* what it lists, whether it is up, what is broken
  app,      \* the evidence columns of each application
  stored,   \* Document rows
  scheme,   \* SchemeIntelligence: whether it exists, the documents it has read
  daily,    \* the daily run
  intel,    \* Intelligence Processing
  spent,    \* what has been used of the model bounds
  owed,     \* history: documents a pass listed, meant to download and did not
  found,    \* history: documents refreshes stored for the open request of an application
  asked,    \* history: the categories requested since the last cleared request
  handed    \* history: documents stored for the requests that stamped material_evidence_changed_at

vars == <<portal, app, stored, scheme, daily, intel, spent, owed, found, asked, handed>>
history == <<owed, found, asked, handed>>

(***************************************************************************)
(* Reasons, categories and families.                                       *)
(***************************************************************************)
ROUTING(reason) == CASE reason = "decision_granted"   -> {"decision_notice", "s106"}
                     [] reason = "decision_refused"   -> {"decision_notice"}
                     [] reason = "unit_count_changed" -> {"planning_statement"}
target_doc_types_for_reasons(rs) == UNION {ROUTING(r) : r \in rs}

DepthOf(reason) == CASE reason = "decision_granted"   -> Categories
                     [] reason = "decision_refused"   -> {"decision_notice", "s106"}
                     [] reason = "unit_count_changed" -> {"planning_statement"}
refresh_depth_for_reasons(rs) ==
  IF Cardinality({DepthOf(r) : r \in rs}) = 1 THEN UNION {DepthOf(r) : r \in rs} ELSE Categories

resolve_application_family(a) ==
  {a} \cup ({Parent[a]} \cap Apps) \cup {b \in Apps : Parent[b] = a}

Listed(a, wanted) == {d \in portal.listed : Owner[d] = a /\ Category[d] \in wanted}

DocumentsOf(as) == {d \in stored : Owner[d] \in as}
\* The job's session loads application.documents once, and keeps it.
Loaded(as) == UNION {IF a \in DOMAIN intel.docs THEN intel.docs[a] ELSE DocumentsOf({a}) : a \in as}
Keeping(as) == [a \in DOMAIN intel.docs \cup as |-> Loaded({a})]

EvidenceOf(a) ==
  {d \in Loaded(resolve_application_family(a)) \cap Readable :
     Category[d] \in refresh_depth_for_reasons(intel.loaded[a].reasons)}

(***************************************************************************)
(* Eligibility and order.                                                  *)
(***************************************************************************)

DOCUMENT_DISCOVERY_ELIGIBLE(a) == ~app[a].checked /\ ~app[a].legacy

\* stage_documents goes by documents stored already, then by id.
HasDocuments(a) == DocumentsOf({a}) # {}
Sooner(a, b) == \/ HasDocuments(a) /\ ~HasDocuments(b)
                \/ HasDocuments(a) = HasDocuments(b) /\ a < b

\* The refresh goes by the newest request, then by id.
Newer(a, b) == \/ app[a].requested > app[b].requested
               \/ app[a].requested = app[b].requested /\ a < b

\* Mutant of select_refresh_candidates: an attempted request is not selected again.
NeverTried == {a \in Apps : app[a].required /\ app[a].outcome = "none"}

select_refresh_candidates ==
  LET flagged == {a \in Apps : app[a].required}
  IN  {a \in flagged : Cardinality({b \in flagged : Newer(b, a)}) < RefreshLimit}

\* Mutant of INTELLIGENCE_REFRESH_ELIGIBLE: what was refreshed once is done.
NeverRefreshed(a) == scheme[a].exists /\ app[a].changed > 0 /\ app[a].processed = 0

INTELLIGENCE_REFRESH_ELIGIBLE(a) == scheme[a].exists /\ app[a].changed > app[a].processed

EXTRACTION_ELIGIBLE(a) == ~scheme[a].exists /\ app[a].extraction # "no_usable_text"

(***************************************************************************)
(* The initial state: legacy applications have documents already.          *)
(***************************************************************************)
NoPass  == [app |-> 0, rows |-> {}, complete |-> TRUE, fresh |-> {}]
NoRun   == [stage |-> "idle", queue |-> {}, target |-> 0, family |-> {}, outcomes |-> {},
            breaker |-> ClosedCircuit, pass |-> NoPass, known |-> {}, changed |-> {}]
NoJob   == [stage |-> "idle", todo |-> {}, loaded |-> <<>>, docs |-> <<>>, at |-> 0, read |-> {}]
NewApplication(a) ==
  [checked |-> FALSE, legacy |-> a \in Legacy, required |-> FALSE, reasons |-> {}, requested |-> 0,
   outcome |-> "none", changed |-> 0, processed |-> 0, extraction |-> "none"]

Init ==
  /\ stored \in SUBSET {d \in Docs : Owner[d] \in Legacy} /\ \A a \in Legacy : HasDocuments(a)
  /\ \E ds \in SUBSET Docs : portal = [listed |-> stored \cup ds, up |-> TRUE, broken |-> {}]
  /\ app = [a \in Apps |-> NewApplication(a)]
  /\ scheme = [a \in Apps |-> [exists |-> FALSE, read |-> {}]]
  /\ daily = NoRun /\ intel = NoJob
  /\ spent = [changes |-> 0, outages |-> 0, crashes |-> 0, errors |-> 0]
  /\ owed = {} /\ found = [a \in Apps |-> {}] /\ asked = [a \in Apps |-> {}]
  /\ handed = [a \in Apps |-> {}]

(***************************************************************************)
(* The portal.                                                             *)
(***************************************************************************)
Answer(x) == IF ~portal.up THEN "host" ELSE IF x \in portal.broken THEN "error" ELSE "ok"

Publish(d) ==
  /\ d \notin portal.listed
  /\ portal' = [portal EXCEPT !.listed = @ \cup {d}]
  /\ UNCHANGED <<app, stored, scheme, daily, intel, spent, history>>

Breaks ==
  /\ spent.outages < MaxOutages /\ spent' = [spent EXCEPT !.outages = @ + 1]
  /\ \/ portal.up /\ portal' = [portal EXCEPT !.up = FALSE]
     \/ \E x \in (Docs \cup HasUrl) \ portal.broken :
           portal' = [portal EXCEPT !.broken = @ \cup {x}]
  /\ UNCHANGED <<app, stored, scheme, daily, intel, history>>

Heals ==
  /\ \/ ~portal.up /\ portal' = [portal EXCEPT !.up = TRUE]
     \/ \E x \in portal.broken : portal' = [portal EXCEPT !.broken = @ \ {x}]
  /\ UNCHANGED <<app, stored, scheme, daily, intel, spent, history>>

(***************************************************************************)
(* The daily run.  Its scrape is here only for the material changes it     *)
(* finds, one for an application (a model bound); a new run has a new      *)
(* breaker.  known is history: what the portal listed when the run began.  *)
(***************************************************************************)
StartRun ==
  /\ daily.stage = "idle"
  /\ daily' = [NoRun EXCEPT !.stage = "scrape", !.known = portal.listed]
  /\ UNCHANGED <<portal, app, stored, scheme, intel, spent, history>>

_upsert_scraped_application(a, reasons) ==
  /\ daily.stage = "scrape" /\ portal.up /\ a \notin daily.changed
  /\ spent.changes < MaxChanges /\ spent' = [spent EXCEPT !.changes = @ + 1]
  /\ app' = [app EXCEPT ![a].required = TRUE, ![a].reasons = reasons,
                        ![a].requested = spent.changes + 1]
  /\ asked' = [asked EXCEPT ![a] = @ \cup target_doc_types_for_reasons(reasons)]
  /\ daily' = [daily EXCEPT !.changed = @ \cup {a}]
  /\ UNCHANGED <<portal, stored, scheme, intel, owed, found, handed>>

BeginDocuments ==
  /\ daily.stage = "scrape"
  /\ daily' = [daily EXCEPT !.stage = "documents", !.changed = {},
                           !.queue = {a \in Apps : DOCUMENT_DISCOVERY_ELIGIBLE(a)}]
  /\ UNCHANGED <<portal, app, stored, scheme, intel, spent, history>>

Wanted == IF daily.stage = "documents" THEN Categories
          ELSE target_doc_types_for_reasons(app[daily.target].reasons)

\* The register page of an application was listed: its pass over the rows
\* begins.  Rows of documents stored already are passed over.
OpenPass(a) ==
  daily' = [daily EXCEPT !.breaker = record_success(@),
              !.pass = [NoPass EXCEPT !.app = a, !.rows = Listed(a, Wanted) \ stored]]

Continues == ~daily.breaker.open

\* The next application of stage_documents.
stage_documents(a) ==
  /\ daily.stage = "documents" /\ daily.pass = NoPass /\ Continues
  /\ a \in daily.queue /\ \A b \in daily.queue \ {a} : Sooner(a, b)
  /\ LET skip == [daily EXCEPT !.queue = @ \ {a}]
     IN  IF a \notin HasUrl THEN daily' = skip
         ELSE IF Answer(a) = "ok" THEN OpenPass(a)
         ELSE daily' = [skip EXCEPT !.breaker = record_failure(@, Answer(a))]
  /\ UNCHANGED <<portal, app, stored, scheme, intel, spent, history>>

\* One row of discover_and_store_documents_for_application.
DownloadRow(d) ==
  /\ d \in daily.pass.rows /\ ~daily.breaker.open
  /\ LET done == [daily EXCEPT !.pass.rows = @ \ {d}, !.breaker = Record(@, Answer(d))]
     IN  IF Answer(d) = "ok"
         THEN daily' = [done EXCEPT !.pass.fresh = @ \cup {d}] /\ UNCHANGED owed
         ELSE daily' = [done EXCEPT !.pass.complete = FALSE] /\ owed' = owed \cup {d}
  /\ UNCHANGED <<portal, app, stored, scheme, intel, spent, found, asked, handed>>

(***************************************************************************)
(* A family member is settled with an outcome; once the circuit is open    *)
(* the members left are portal_unavailable.                                *)
(***************************************************************************)
Settle(m, outcome, breaker) ==
  LET left == daily.family \ {m}
  IN  daily' = [daily EXCEPT !.pass = NoPass, !.breaker = breaker,
                  !.family = IF breaker.open THEN {} ELSE left,
                  !.outcomes = @ \cup {outcome} \cup
                                 (IF breaker.open /\ left # {} THEN {"portal_unavailable"} ELSE {})]

\* Mutant of Completes: a listing that answered is a pass that completed.
ListingIsEnough == TRUE

Completes == daily.pass.complete

\* The pass ends: its documents and its stamp are committed together.
SavePass ==
  /\ daily.pass # NoPass /\ (daily.pass.rows = {} \/ daily.breaker.open)
  /\ LET a == daily.pass.app IN
       /\ stored' = stored \cup daily.pass.fresh
       /\ app' = IF Completes THEN [app EXCEPT ![a].checked = TRUE, ![a].legacy = FALSE] ELSE app
       /\ owed' = (owed \cup daily.pass.rows) \ stored'
  /\ IF daily.stage = "documents"
     THEN /\ daily' = [daily EXCEPT !.queue = @ \ {daily.pass.app}, !.pass = NoPass]
          /\ UNCHANGED found
     ELSE /\ Settle(daily.pass.app,
                    IF ~Completes THEN "acquisition_incomplete"
                    ELSE IF daily.pass.fresh # {} THEN "new_material_evidence"
                    ELSE "checked_no_new_evidence", daily.breaker)
          /\ found' = [found EXCEPT ![daily.target] = @ \cup daily.pass.fresh]
  /\ UNCHANGED <<portal, scheme, intel, spent, asked, handed>>

BeginRefresh ==
  /\ daily.stage = "documents" /\ daily.pass = NoPass
  /\ daily.queue = {} \/ ~Continues
  /\ daily' = [daily EXCEPT !.stage = "refresh", !.queue = select_refresh_candidates]
  /\ UNCHANGED <<portal, app, stored, scheme, intel, spent, history>>

\* refresh_material_evidence: it begins, checks its family, and answers.
RefreshBegins(a) ==
  /\ daily.stage = "refresh" /\ daily.target = 0 /\ Continues
  /\ a \in daily.queue /\ \A b \in daily.queue \ {a} : Newer(a, b)
  /\ daily' = [daily EXCEPT !.target = a, !.queue = @ \ {a}, !.outcomes = {},
                            !.family = resolve_application_family(a)]
  /\ UNCHANGED <<portal, app, stored, scheme, intel, spent, history>>

\* The member of the family with the lowest id.
_refresh_one_application(m) ==
  /\ daily.target # 0 /\ daily.pass = NoPass
  /\ m \in daily.family /\ \A n \in daily.family \ {m} : m < n
  /\ IF m \notin HasUrl THEN Settle(m, "acquisition_incomplete", daily.breaker)
     ELSE IF Answer(m) = "ok" THEN OpenPass(m)
     ELSE Settle(m, IF is_portal_host_failure(Answer(m)) THEN "portal_unavailable"
                    ELSE "acquisition_incomplete", record_failure(daily.breaker, Answer(m)))
  /\ UNCHANGED <<portal, app, stored, scheme, intel, spent, history>>

CLEARING_OUTCOMES == {"new_material_evidence", "checked_no_new_evidence"}

\* Mutant of _OUTCOME_PRIORITY: new evidence outranks a failure.
EvidenceFirst == <<"new_material_evidence", "portal_unavailable",
                   "acquisition_incomplete", "checked_no_new_evidence">>

_OUTCOME_PRIORITY == <<"portal_unavailable", "acquisition_incomplete",
                       "new_material_evidence", "checked_no_new_evidence">>

Overall == _OUTCOME_PRIORITY[Min({i \in 1..4 : _OUTCOME_PRIORITY[i] \in daily.outcomes})]

RefreshAnswers ==
  /\ daily.target # 0 /\ daily.pass = NoPass /\ daily.family = {}
  /\ LET a == daily.target
         clears == Overall \in CLEARING_OUTCOMES
         new    == Overall = "new_material_evidence"
     IN  /\ app' = [app EXCEPT ![a].outcome = Overall, ![a].required = @ /\ ~clears,
                               ![a].changed = IF new THEN @ + 1 ELSE @]
         /\ handed' = [handed EXCEPT ![a] = IF new THEN @ \cup found[a] ELSE @]
         /\ found' = [found EXCEPT ![a] = IF clears THEN {} ELSE @]
         /\ asked' = [asked EXCEPT ![a] = IF clears THEN {} ELSE @]
  /\ daily' = [daily EXCEPT !.target = 0, !.outcomes = {}]
  /\ UNCHANGED <<portal, stored, scheme, intel, spent, owed>>

EndRun ==
  /\ daily.stage = "refresh" /\ daily.target = 0
  /\ daily.queue = {} \/ ~Continues
  /\ daily' = NoRun
  /\ UNCHANGED <<portal, app, stored, scheme, intel, spent, history>>

\* The run is killed (its timeout, or memory): the session is gone.
Killed ==
  /\ daily.stage # "idle" /\ spent.crashes < MaxCrashes
  /\ daily' = NoRun /\ spent' = [spent EXCEPT !.crashes = @ + 1]
  /\ UNCHANGED <<portal, app, stored, scheme, intel, history>>

(***************************************************************************)
(* Intelligence Processing: one session, its refresh stage and then its    *)
(* extraction stage.  The candidates' columns are loaded by the stage's    *)
(* query; documents when a candidate is processed; the LLM answers later.  *)
(***************************************************************************)
SelectIntelligenceRefresh ==
  /\ intel.stage = "idle"
  /\ \E a \in Apps : INTELLIGENCE_REFRESH_ELIGIBLE(a) \/ EXTRACTION_ELIGIBLE(a)
  /\ LET candidates == {a \in Apps : INTELLIGENCE_REFRESH_ELIGIBLE(a)} IN
       intel' = [NoJob EXCEPT !.stage = "refresh", !.todo = candidates,
                   !.loaded = [a \in candidates |-> [changed |-> app[a].changed, reasons |-> app[a].reasons]]]
  /\ UNCHANGED <<portal, app, stored, scheme, daily, spent, history>>

\* Mutant of LoadedWatermark: the newest stamp rather than the loaded one.
NewestWatermark(a) == app[a].changed

LoadedWatermark(a) == intel.loaded[a].changed

\* refresh_intelligence_for_application: its evidence, and the call.
ReadsEvidence(a) ==
  /\ intel.stage = "refresh" /\ intel.at = 0 /\ a \in intel.todo
  /\ LET kept == [intel EXCEPT !.docs = Keeping(resolve_application_family(a))]
     IN  IF EvidenceOf(a) = {} THEN intel' = [kept EXCEPT !.todo = @ \ {a}]
         ELSE intel' = [kept EXCEPT !.at = a, !.read = EvidenceOf(a)]
  /\ UNCHANGED <<portal, app, stored, scheme, daily, spent, history>>

SelectExtraction ==
  /\ intel.stage = "refresh" /\ intel.todo = {}
  /\ intel' = [intel EXCEPT !.stage = "extract", !.loaded = <<>>,
                 !.todo = {a \in Apps : EXTRACTION_ELIGIBLE(a)}]
  /\ UNCHANGED <<portal, app, stored, scheme, daily, spent, history>>

ReadsText(a) ==
  /\ intel.stage = "extract" /\ intel.at = 0 /\ a \in intel.todo
  /\ LET text == Loaded({a}) \cap Readable
         kept == [intel EXCEPT !.docs = Keeping({a})]
     IN  IF text = {}
         THEN /\ app' = [app EXCEPT ![a].extraction = "no_usable_text"]
              /\ intel' = [kept EXCEPT !.todo = @ \ {a}]
         ELSE intel' = [kept EXCEPT !.at = a, !.read = text] /\ UNCHANGED app
  /\ UNCHANGED <<portal, stored, scheme, daily, spent, history>>

LlmAnswers ==
  /\ intel.at # 0
  /\ LET a == intel.at IN
       /\ scheme' = [scheme EXCEPT ![a] = [exists |-> TRUE, read |-> @.read \cup intel.read]]
       /\ app' = IF intel.stage = "refresh" THEN [app EXCEPT ![a].processed = LoadedWatermark(a)]
                 ELSE [app EXCEPT ![a].extraction = "none"]
       /\ intel' = [intel EXCEPT !.todo = @ \ {a}, !.at = 0, !.read = {}]
  /\ UNCHANGED <<portal, stored, daily, spent, history>>

LlmFails ==
  /\ intel.at # 0 /\ spent.errors < MaxLlmErrors
  /\ spent' = [spent EXCEPT !.errors = @ + 1]
  /\ app' = IF intel.stage = "refresh" THEN app ELSE [app EXCEPT ![intel.at].extraction = "failed"]
  /\ intel' = [intel EXCEPT !.todo = @ \ {intel.at}, !.at = 0, !.read = {}]
  /\ UNCHANGED <<portal, stored, scheme, daily, history>>

EndJob ==
  /\ intel.stage = "extract" /\ intel.todo = {}
  /\ intel' = NoJob
  /\ UNCHANGED <<portal, app, stored, scheme, daily, spent, history>>

(***************************************************************************)
(* The specification.                                                      *)
(***************************************************************************)
RunStep ==
  \/ StartRun \/ BeginDocuments \/ SavePass \/ BeginRefresh \/ RefreshAnswers \/ EndRun
  \/ \E a \in Apps : stage_documents(a) \/ RefreshBegins(a) \/ _refresh_one_application(a)
  \/ \E d \in Docs : DownloadRow(d)

JobStep ==
  \/ SelectIntelligenceRefresh \/ SelectExtraction \/ LlmAnswers \/ EndJob
  \/ \E a \in Apps : ReadsEvidence(a) \/ ReadsText(a)

Next ==
  \/ Breaks \/ Heals \/ RunStep \/ JobStep \/ Killed \/ LlmFails
  \/ \E d \in Docs : Publish(d)
  \/ \E a \in Apps, rs \in (SUBSET Reasons) \ {{}} : _upsert_scraped_application(a, rs)

Spec == Init /\ [][Next]_vars

(***************************************************************************)
(* Both jobs are scheduled daily and a started one goes on; outages end.   *)
(***************************************************************************)
FairSpec == Spec /\ WF_vars(RunStep) /\ WF_vars(JobStep) /\ WF_vars(Heals)
=============================================================================
