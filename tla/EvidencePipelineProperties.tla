----------------------- MODULE EvidencePipelineProperties -----------------------
(***************************************************************************)
(* What the evidence pipeline promises.                                    *)
(***************************************************************************)
EXTENDS EvidencePipeline

Outcomes == CLEARING_OUTCOMES \cup {"portal_unavailable", "acquisition_incomplete"}

Evidence  == [checked : BOOLEAN, legacy : BOOLEAN, required : BOOLEAN,
              reasons : SUBSET Reasons, requested : Nat,
              outcome : Outcomes \cup {"none"}, changed : Nat, processed : Nat,
              extraction : {"none", "no_usable_text", "failed"}]
Passes    == [app : Apps \cup {0}, rows : SUBSET Docs, complete : BOOLEAN, fresh : SUBSET Docs]
DailyRuns == [stage : {"idle", "scrape", "documents", "refresh"}, queue : SUBSET Apps,
              target : Apps \cup {0}, family : SUBSET Apps, outcomes : SUBSET Outcomes,
              breaker : [failures : Nat, open : BOOLEAN], pass : Passes,
              known : SUBSET Docs, changed : SUBSET Apps]
LoadedRow == [changed : Nat, reasons : SUBSET Reasons]
Jobs      == [stage : {"idle", "refresh", "extract"}, todo : SUBSET Apps,
              loaded : {intel.loaded}, docs : {intel.docs},
              at : Apps \cup {0}, read : SUBSET Docs]

\* Every variable keeps its shape: portal, applications, documents, the daily
\* run with its breaker and pass, the job of Intelligence Processing.
EvidenceTypeOK ==
  /\ portal \in [listed : SUBSET Docs, up : BOOLEAN, broken : SUBSET (Docs \cup Apps)]
  /\ app \in [Apps -> Evidence] /\ stored \subseteq Docs /\ owed \subseteq Docs
  /\ scheme \in [Apps -> [exists : BOOLEAN, read : SUBSET Docs]]
  /\ daily \in DailyRuns /\ intel \in Jobs
  /\ DOMAIN intel.loaded \subseteq Apps /\ intel.loaded \in [DOMAIN intel.loaded -> LoadedRow]
  /\ DOMAIN intel.docs \subseteq Apps /\ intel.docs \in [DOMAIN intel.docs -> SUBSET Docs]
  /\ spent \in [changes : Nat, outages : Nat, crashes : Nat, errors : Nat]
  /\ found \in [Apps -> SUBSET Docs] /\ handed \in [Apps -> SUBSET Docs]
  /\ asked \in [Apps -> SUBSET Categories]

Flagged(d) == \E a \in Apps : app[a].required /\ Owner[d] \in resolve_application_family(a)

\* The documents of a category that every reason looks for; those of a category
\* that every reason's reading takes.
InEveryScope(d) == \A r \in Reasons : Category[d] \in ROUTING(r)
Shared == {d \in Docs : \A r \in Reasons : Category[d] \in DepthOf(r)}

\* A document that is tried again: its application stays eligible for routine
\* discovery, or an open request covers it.
StillWanted(d) ==
  DOCUMENT_DISCOVERY_ELIGIBLE(Owner[d]) \/ app[Owner[d]].legacy \/ Flagged(d)

\* A document that a pass listed, meant to download and did not get is tried
\* again, if every reason looks for its category ("the application remains
\* eligible for the very next Daily Discovery run to retry", models.py;
\* discover_and_store_documents_for_application).
SharedIsStillWanted == \A d \in owed : InEveryScope(d) => StillWanted(d)

\* The rule as models.py states it, of every document; it fails once reasons
\* look for different categories, because a targeted check sets the stamp too.
MissingIsStillWanted == \A d \in owed : StillWanted(d)

\* An open circuit in the middle of a pass is the pass's own failure: rows are
\* never left behind by a pass that counts as complete (the comment of the row
\* loop's break in discover_and_store_documents_for_application).
BreakLeavesIncomplete == daily.breaker.open /\ daily.pass # NoPass => ~daily.pass.complete

\* A request is cleared only by a check that reached everything: whatever the
\* registers of the family listed in the wanted categories when the run began is
\* stored, and each member has a register (the flag-clearing rule of
\* refresh_material_evidence, and the outcome priority over a family).
ClearsCompletely ==
  \A a \in Apps : app[a].required /\ ~app'[a].required =>
    LET wanted == target_doc_types_for_reasons(app[a].reasons)
        family == resolve_application_family(a)
    IN  /\ family \subseteq HasUrl
        /\ {d \in daily.known : Owner[d] \in family /\ Category[d] \in wanted} \subseteq stored
ClearedByACompleteCheck == [][ClearsCompletely]_vars

\* Documents found for a request are handed over: when it is cleared, whatever
\* its refreshes stored has advanced material_evidence_changed_at ("DO NOT lose
\* it", _refresh_one_application; the hand-off signal in models.py).
FoundIsHandedOver ==
  [][\A a \in Apps : app[a].required /\ ~app'[a].required /\ found[a] # {} =>
       app'[a].changed > app[a].changed]_vars

\* What was handed over and counts as processed has been read into the live
\* intelligence, if every reason's reading takes its category
\* (intelligence_evidence_processed_at, "successfully incorporated").
SharedIsRead ==
  \A a \in Apps : scheme[a].exists /\ app[a].processed = app[a].changed /\ app[a].changed > 0 =>
    handed[a] \cap Readable \cap Shared \subseteq scheme[a].read

\* The rule as the column's comment states it, of everything handed over; it
\* fails once reasons read to different depths (refresh_depth_for_reasons).
HandoffIsRead ==
  \A a \in Apps : scheme[a].exists /\ app[a].processed = app[a].changed /\ app[a].changed > 0 =>
    handed[a] \cap Readable \subseteq scheme[a].read

\* A request is cleared only when the categories of every change since the last
\* cleared request were looked for ("never lose a refresh requirement just
\* because a refresh attempt failed", evidence_refresh.py).
RequirementIsNotLost ==
  [][\A a \in Apps : app[a].required /\ ~app'[a].required =>
       asked[a] \subseteq target_doc_types_for_reasons(app[a].reasons)]_vars

\* An application recorded as having no usable text has none: what stays out of
\* the extraction backlog is what cannot be extracted (the field comment of
\* extraction_last_outcome in models.py: "a permanently-unextractable Application").
UnextractableHasNoText ==
  \A a \in Apps : app[a].extraction = "no_usable_text" => DocumentsOf({a}) \cap Readable = {}

\* Once outages are over, routine discovery completes for every application it
\* may select (stage_documents, DOCUMENT_DISCOVERY_ELIGIBLE).
DiscoveryCompletes == \A a \in HasUrl : a \notin Legacy => <>app[a].checked

\* Every request is eventually answered by a completed check (select_refresh_
\* candidates retries what stays required).
Answerable(a) == app[a].required /\ resolve_application_family(a) \subseteq HasUrl
RequestsAreAnswered == \A a \in Apps : Answerable(a) ~> ~app[a].required

\* Evidence handed over is eventually processed, when the application has an
\* intelligence row and readable evidence (INTELLIGENCE_REFRESH_ELIGIBLE).
HandoffsAreProcessed ==
  \A a \in Apps : scheme[a].exists /\ handed[a] \cap Readable # {} ~> app[a].processed = app[a].changed
=============================================================================
