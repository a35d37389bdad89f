--------------------------- MODULE RelationshipReview ---------------------------
(***************************************************************************)
(* The allocation-to-Site relationships and their four writers: the        *)
(* forward evidence scan (app/policy/allocation_evidence_scan.py), the     *)
(* controlled batch write (allocation_site_relationships.py), the cleanup  *)
(* of approved targets (relationship_cleanup_plan.py and _runner.py) and   *)
(* the human review of an allocation's own match (site_match_review.py).   *)
(*                                                                         *)
(* A document belongs to one Application, so all its evidence names one    *)
(* Site.  Each writer is a process with its own session; what it reads     *)
(* before a statement may be stale when the statement runs.  Uncommitted   *)
(* inserts are invisible but block another insert of the same pair.        *)
(***************************************************************************)
EXTENDS Integers, FiniteSets

CONSTANTS
  Allocations, Sites, NoSite,
  Docs,          \* document ids
  SiteOf,        \* the Site of a document's Application
  Explicit,      \* allocations a document explicitly places its Site in
  Contextual,    \* allocations it mentions strongly, without saying that
  Against,       \* allocations it says its Site is not part of
  Weight,        \* document-type weight
  Fuzzy,         \* Stage 2A candidate Sites of an allocation
  Matched,       \* matched_site_id at first
  ToReject, ToConfirm,  \* the approved cleanup targets
  Poison,        \* documents whose processing always raises
  Limit,         \* ALLOCATION_EVIDENCE_SCAN_RUN_LIMIT
  BatchWrites,   \* whether operators run the controlled write
  MaxDecisions     \* model bound: human decisions on matches

Pairs            == Allocations \X Sites
RelationStatuses == {"auto_applied", "needs_confirmation", "confirmed", "rejected"}

ASSUME EvidenceAssumption ==
  /\ Docs \subseteq Nat \ {0} /\ Poison \subseteq Docs
  /\ SiteOf \in [Docs -> Sites] /\ Weight \in [Docs -> Nat]
  /\ Docs # {} => \E heaviest \in Docs : \A d \in Docs : Weight[d] <= Weight[heaviest]
  /\ Explicit \in [Docs -> SUBSET Allocations]
  /\ Contextual \in [Docs -> SUBSET Allocations] /\ Against \in [Docs -> SUBSET Allocations]
  /\ Fuzzy \in [Allocations -> SUBSET Sites]
  /\ Matched \in [Allocations -> Sites \cup {NoSite}] /\ NoSite \notin Sites
ASSUME TargetAssumption == ToReject \cup ToConfirm \subseteq Pairs /\ ToReject \cap ToConfirm = {}
ASSUME RunAssumption == Limit \in Nat \ {0} /\ BatchWrites \in BOOLEAN /\ MaxDecisions \in Nat

VARIABLES
  row,      \* allocation_site_relationships: status, and the document behind it
  match,    \* LocalPlanSite.matched_site_id, review_status, and the Site that
            \* match_review_note names as declined
  ready,    \* documents with extracted text
  scanned,  \* those with allocation_evidence_scanned_at
  scan,     \* the forward scan: its batch, its snapshot of the rows (seen), its transaction
  batch,    \* the controlled write: its plan and its transaction
  cleanup,  \* the cleanup: the revalidated target about to be written
  reviews   \* history: human decisions on matches

relationVars == <<row, match, ready, scanned, scan, batch, cleanup, reviews>>

NoRow      == [status |-> "none", doc |-> 0]
NoScan     == [pc |-> "idle", todo |-> {}, doc |-> 0, left |-> {}, pair |-> <<>>, new |-> {},
               flagged |-> {}, seen |-> [p \in Pairs |-> "none"]]
NoBatch    == [pc |-> "idle", plan |-> {}, todo |-> {}, item |-> <<>>, new |-> {}]
NoCleanup  == [pc |-> "idle", pair |-> <<>>, action |-> "none"]

RelationInit ==
  /\ row = [p \in Pairs |-> NoRow]
  /\ match = [a \in Allocations |-> [site |-> Matched[a], status |-> "auto_applied",
                                declined |-> NoSite]]
  /\ ready = {} /\ scanned = {}
  /\ scan = NoScan /\ batch = NoBatch /\ cleanup = NoCleanup
  /\ reviews = 0

Exists(p) == row[p].status # "none"

\* stage_extraction gives a document its text.
Extract(d) ==
  /\ d \notin ready
  /\ ready' = ready \cup {d}
  /\ UNCHANGED <<row, match, scanned, scan, batch, cleanup, reviews>>

-----------------------------------------------------------------------------
(* confirm_site_match, reject_site_match *)

ReviewMatch(a, verdict) ==
  /\ match[a].site # NoSite
  /\ reviews < MaxDecisions
  /\ reviews' = reviews + 1
  /\ match' = [match EXCEPT ![a] =
       IF verdict = "confirmed" THEN [@ EXCEPT !.status = verdict, !.declined = NoSite]
       ELSE [site |-> NoSite, status |-> verdict, declined |-> @.site]]
  /\ UNCHANGED <<row, ready, scanned, scan, batch, cleanup>>

-----------------------------------------------------------------------------
(* scan_council_for_allocation_evidence *)

Oldest(n, docs) == {d \in docs : Cardinality({e \in docs : e < d}) < n}

\* The oldest unscanned documents, and every existing relationship, read once.
StartScan ==
  /\ scan.pc = "idle" /\ ready \ scanned # {}
  /\ scan' = [NoScan EXCEPT !.pc = "batch", !.todo = Oldest(Limit, ready \ scanned),
                            !.seen = [p \in Pairs |-> row[p].status]]
  /\ UNCHANGED <<row, match, ready, scanned, batch, cleanup, reviews>>

PairsOf(d, allocations) == {<<a, SiteOf[d]>> : a \in allocations}

\* Contradictions first: every related pair the snapshot does not hold for flagged.
Flagged(d) == {p \in PairsOf(d, Against[d]) : scan.seen[p] \notin {"none", "needs_confirmation"}}

\* The next document of the batch.
OpenDocument(d) ==
  /\ scan.pc = "batch" /\ d \in Oldest(1, scan.todo) \ Poison
  /\ scan' = [scan EXCEPT !.pc = "doc", !.doc = d,
       !.left = {p \in PairsOf(d, Explicit[d]) : scan.seen[p] = "none"},
       !.flagged = Flagged(d),
       !.seen = [p \in Pairs |-> IF p \in Flagged(d) THEN "needs_confirmation" ELSE @[p]]]
  /\ UNCHANGED <<row, match, ready, scanned, batch, cleanup, reviews>>

\* The document raises before anything is written: the next one is taken.
SkipPoison(d) ==
  /\ scan.pc = "batch" /\ d \in Oldest(1, scan.todo) \cap Poison
  /\ scan' = [scan EXCEPT !.todo = @ \ {d}]
  /\ UNCHANGED <<row, match, ready, scanned, batch, cleanup, reviews>>

EndScan ==
  /\ scan.pc = "batch" /\ scan.todo = {}
  /\ scan' = NoScan
  /\ UNCHANGED <<row, match, ready, scanned, batch, cleanup, reviews>>

\* create_relationship_if_absent: a live select, then the insert.
CheckPair(p) ==
  /\ scan.pc = "doc" /\ p \in scan.left
  /\ scan' = IF Exists(p) THEN [scan EXCEPT !.left = @ \ {p}]
             ELSE [scan EXCEPT !.pc = "insert", !.pair = p]
  /\ UNCHANGED <<row, match, ready, scanned, batch, cleanup, reviews>>

InsertPair ==
  /\ scan.pc = "insert" /\ scan.pair \notin batch.new /\ ~Exists(scan.pair)
  /\ scan' = [scan EXCEPT !.pc = "doc", !.left = @ \ {scan.pair}, !.new = @ \cup {<<scan.pair, scan.doc>>},
                          !.seen[scan.pair] = "auto_applied"]
  /\ UNCHANGED <<row, match, ready, scanned, batch, cleanup, reviews>>

\* Each transaction waits for the other's insert: the database ends one of them.
Inserted == {x[1] : x \in scan.new}
Deadlocked == /\ scan.pc = "insert" /\ scan.pair \in batch.new
              /\ batch.pc = "insert" /\ <<batch.item.a, batch.item.s>> \in Inserted

\* The unique key, or the database, refuses the insert: the transaction is rolled back
\* and the loaded rows reload on their next use.  The snapshot keeps a row that the
\* document had created.
FailDocument ==
  /\ scan.pc = "insert" /\ (Exists(scan.pair) \/ Deadlocked)
  /\ scan' = [scan EXCEPT !.pc = "batch", !.todo = @ \ {scan.doc}, !.left = {}, !.new = {},
       !.flagged = {},
       !.seen = [p \in Pairs |-> IF @[p] # "none" /\ Exists(p) THEN row[p].status ELSE @[p]]]
  /\ UNCHANGED <<row, match, ready, scanned, batch, cleanup, reviews>>

\* The flags are written by primary key, whatever the rows hold by now.
Scanned(p) ==
  IF p \in Inserted
  THEN [status |-> "auto_applied", doc |-> (CHOOSE x \in scan.new : x[1] = p)[2]]
  ELSE IF p \in scan.flagged /\ Exists(p) THEN [status |-> "needs_confirmation", doc |-> row[p].doc]
  ELSE row[p]

CommitDocument ==
  /\ scan.pc = "doc" /\ scan.left = {}
  /\ row' = [p \in Pairs |-> Scanned(p)]
  /\ scanned' = scanned \cup {scan.doc}
  /\ scan' = [scan EXCEPT !.pc = "batch", !.todo = @ \ {scan.doc}, !.new = {}, !.flagged = {}]
  /\ UNCHANGED <<match, ready, batch, cleanup, reviews>>

-----------------------------------------------------------------------------
(* run_controlled_relationship_write *)

Supports(d, a)  == a \in Explicit[d] \cup Contextual[d]
StrongSites(a)  == {SiteOf[d] : d \in {e \in ready : Supports(e, a)}}
ContraSites(a)  == {SiteOf[d] : d \in {e \in ready : a \in Against[e]}}

\* derive_recommended_outcome, down to whether it is one of AUTO_ELIGIBLE_OUTCOMES.
AutoEligible(a) == \/ Cardinality(StrongSites(a)) > 1
                   \/ StrongSites(a) # {} /\ ContraSites(a) \cap Fuzzy[a] = {}

EvidencedPairs == {p \in Pairs : /\ match[p[1]].site = NoSite
                                 /\ AutoEligible(p[1]) /\ p[2] \in StrongSites(p[1])}

\* The heaviest strong hit of the pair carries its category.
BestDoc(a, s) == LET hits == {d \in ready : SiteOf[d] = s /\ Supports(d, a)}
                 IN  CHOOSE d \in hits : \A e \in hits : Weight[d] >= Weight[e]

\* Mutant of Guarded: a collision is not noticed.
GuardedNever(a, s) == "auto_applied"

\* _apply_multi_allocation_collision_guard
Guarded(a, s) ==
  IF a \notin Explicit[BestDoc(a, s)] /\ \E b \in Allocations \ {a} : <<b, s>> \in EvidencedPairs
  THEN "needs_confirmation" ELSE "auto_applied"

Planned ==
  {[a |-> a, s |-> match[a].site, status |-> match[a].status, doc |-> 0] :
     a \in {b \in Allocations : match[b].site # NoSite}}
  \cup {[a |-> p[1], s |-> p[2], status |-> Guarded(p[1], p[2]), doc |-> BestDoc(p[1], p[2])] :
     p \in EvidencedPairs}

PlanBatch ==
  /\ BatchWrites /\ batch.pc = "idle"
  /\ LET plan == {x \in Planned : ~Exists(<<x.a, x.s>>)}
     IN  /\ plan # {}
         /\ batch' = [NoBatch EXCEPT !.pc = "batch", !.plan = plan, !.todo = plan]
  /\ UNCHANGED <<row, match, ready, scanned, scan, cleanup, reviews>>

CheckItem(x) ==
  /\ batch.pc = "batch" /\ x \in batch.todo
  /\ batch' = IF Exists(<<x.a, x.s>>) THEN [batch EXCEPT !.todo = @ \ {x}]
              ELSE [batch EXCEPT !.pc = "insert", !.item = x]
  /\ UNCHANGED <<row, match, ready, scanned, scan, cleanup, reviews>>

InsertItem ==
  LET p == <<batch.item.a, batch.item.s>>
  IN  /\ batch.pc = "insert" /\ p \notin Inserted /\ ~Exists(p)
      /\ batch' = [batch EXCEPT !.pc = "batch", !.todo = @ \ {batch.item}, !.new = @ \cup {p}]
      /\ UNCHANGED <<row, match, ready, scanned, scan, cleanup, reviews>>

\* The exception leaves the function: nothing of the batch is kept.
AbortBatch ==
  /\ batch.pc = "insert" /\ (Exists(<<batch.item.a, batch.item.s>>) \/ Deadlocked)
  /\ batch' = NoBatch
  /\ UNCHANGED <<row, match, ready, scanned, scan, cleanup, reviews>>

\* The one new document-evidenced relationship of an unmatched allocation, left
\* auto_applied by the plan, becomes its matched_site_id.
Pointed(a) ==
  LET mine == {x \in batch.plan : x.a = a /\ x.doc # 0}
  IN  IF match[a].site = NoSite /\ Cardinality(mine) = 1
         /\ \A x \in mine : x.status = "auto_applied"
      THEN [match[a] EXCEPT !.site = (CHOOSE x \in mine : TRUE).s] ELSE match[a]

CommitBatch ==
  /\ batch.pc = "batch" /\ batch.todo = {}
  /\ row' = [p \in Pairs |->
       IF p \in batch.new
       THEN LET x == CHOOSE y \in batch.plan : <<y.a, y.s>> = p
            IN  [status |-> x.status, doc |-> x.doc]
       ELSE row[p]]
  /\ match' = [a \in Allocations |-> Pointed(a)]
  /\ batch' = NoBatch
  /\ UNCHANGED <<ready, scanned, scan, cleanup, reviews>>

-----------------------------------------------------------------------------
(* run_cleanup_relationships: one revalidated target at a time *)

\* Still auto-eligible under the current documents.
Eligible(p) == /\ \E d \in ready : SiteOf[d] = p[2] /\ Supports(d, p[1])
               /\ p[2] \notin ContraSites(p[1])

\* _ACTION_TO_STATUS
TargetStatus(action) == IF action = "reject" THEN "rejected" ELSE action

\* Mutant of MayWrite: the statuses are not looked at.
MayWriteAny(p, action) == Exists(p) /\ ~Eligible(p)

\* revalidate_before_write and the outcomes that block or need no write.
MayWrite(p, action) ==
  /\ Exists(p) /\ row[p].status \notin {"confirmed", "rejected", TargetStatus(action)}
  /\ ~Eligible(p)

Revalidate(p, action) ==
  /\ cleanup.pc = "idle" /\ MayWrite(p, action)
  /\ cleanup' = [pc |-> "write", pair |-> p, action |-> action]
  /\ UNCHANGED <<row, match, ready, scanned, scan, batch, reviews>>

WriteTarget ==
  /\ cleanup.pc = "write"
  /\ row' = [row EXCEPT ![cleanup.pair] = [status |-> TargetStatus(cleanup.action), doc |-> @.doc]]
  /\ cleanup' = NoCleanup
  /\ UNCHANGED <<match, ready, scanned, scan, batch, reviews>>

-----------------------------------------------------------------------------
ScanStep == \/ StartScan \/ EndScan \/ InsertPair \/ FailDocument \/ CommitDocument
            \/ \E d \in scan.todo : OpenDocument(d) \/ SkipPoison(d)
            \/ \E p \in Pairs : CheckPair(p)
BatchStep == \/ InsertItem \/ AbortBatch \/ CommitBatch
             \/ \E x \in batch.todo : CheckItem(x)

RelationNext ==
  \/ \E d \in Docs : Extract(d)
  \/ \E a \in Allocations, verdict \in {"confirmed", "rejected"} : ReviewMatch(a, verdict)
  \/ ScanStep
  \/ PlanBatch
  \/ BatchStep
  \/ \E p \in ToReject : Revalidate(p, "reject")
  \/ \E p \in ToConfirm : Revalidate(p, "needs_confirmation")
  \/ WriteTarget

RelationSpec == RelationInit /\ [][RelationNext]_relationVars

\* Each daily run scans each council, and a batch that was started goes on to its end.
RelationFairSpec == RelationSpec /\ WF_relationVars(ScanStep) /\ WF_relationVars(BatchStep)
=============================================================================
