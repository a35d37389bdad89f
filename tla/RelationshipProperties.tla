------------------------- MODULE RelationshipProperties -------------------------
(* What the relationships and their review are promised to be. *)
EXTENDS RelationshipReview

RelationRow  == [status : RelationStatuses \cup {"none"}, doc : Docs \cup {0}]
MatchRow     == [site : Sites \cup {NoSite}, status : RelationStatuses,
                 declined : Sites \cup {NoSite}]
PlanItem     == [a : Allocations, s : Sites, status : RelationStatuses, doc : Docs \cup {0}]
ScanState    == [pc : {"idle", "batch", "doc", "insert"}, todo : SUBSET Docs, doc : Docs \cup {0},
                 left : SUBSET Pairs, pair : Pairs \cup {<<>>},
                 new : SUBSET (Pairs \X Docs), flagged : SUBSET Pairs,
                 seen : [Pairs -> RelationStatuses \cup {"none"}]]
BatchState   == [pc : {"idle", "batch", "insert"}, plan : SUBSET PlanItem, todo : SUBSET PlanItem,
                 item : PlanItem \cup {<<>>}, new : SUBSET Pairs]
CleanupState == [pc : {"idle", "write"}, pair : Pairs \cup {<<>>},
                 action : {"none", "reject", "needs_confirmation"}]

\* Every variable stays in its type, and a writer at work has something in hand.
RelationTypeOK ==
  /\ row \in [Pairs -> RelationRow] /\ match \in [Allocations -> MatchRow]
  /\ ready \subseteq Docs /\ scanned \subseteq Docs /\ reviews \in 0 .. MaxDecisions
  /\ scan \in ScanState /\ batch \in BatchState /\ cleanup \in CleanupState
  /\ scan.pc \in {"doc", "insert"} => scan.doc \in Docs
  /\ scan.pc = "insert" => scan.pair \in Pairs
  /\ batch.pc = "insert" => batch.item \in batch.plan
  /\ cleanup.pc = "write" => cleanup.pair \in Pairs /\ cleanup.action # "none"

\* The other half of the same promise: nothing of a failed document keeps a later one
\* from being processed; a scanned document's explicit evidence has its relationship.
ScannedEvidenceHasRow ==
  \A d \in scanned : \A p \in PairsOf(d, Explicit[d]) : Exists(p)

\* "NEEDS_CONFIRMATION ONLY when new evidence explicitly contradicts that specific
\* accepted relationship": the scan flags accepted relationships, not rejected ones.
OnlyAcceptedIsFlagged ==
  [][\A p \in Pairs :
       row[p].status = "rejected" => row'[p].status = "rejected"]_relationVars

\* relationship_cleanup: "the plan's proposed action must never overwrite that
\* decision": also when the row changes after the revalidation.
CleanupRespectsDecisions ==
  [][\A p \in Pairs :
       cleanup.pc = "write" /\ cleanup.pair = p /\ row'[p] # row[p] /\ cleanup' # cleanup
         => row[p].status \notin {"confirmed", "rejected"}]_relationVars

\* The collision guard: of the relationships one batch accepts on documents for the same
\* Site and different allocations, each has explicit evidence of its own.
CollisionsAreProven ==
  [][\A p, q \in Pairs :
       /\ p # q /\ p[2] = q[2] /\ {p, q} \subseteq batch.new
       /\ row'[p] # row[p] /\ row'[q] # row[q]
       /\ row'[p].status = "auto_applied" /\ row'[p].doc # 0
       /\ row'[q].doc # 0
       => p[1] \in Explicit[row'[p].doc]]_relationVars

\* One pair, one row (the unique key of allocation_site_relationships): what the two open
\* transactions have inserted is not committed by anyone else, nor inserted by both.
InsertsAreApart ==
  /\ Inserted \cap batch.new = {}
  /\ \A p \in Inserted \cup batch.new : ~Exists(p)

\* "a needs_confirmation candidate must never be promoted to THE Site for this
\* allocation before a human has actually confirmed it".
PointerIsAccepted ==
  [][\A a \in Allocations :
       match[a].site = NoSite /\ match'[a].site # NoSite
         => row'[<<a, match'[a].site>>].status \in {"auto_applied", "confirmed"}]_relationVars

\* reject_site_match: "this allocation is NOT that Site ... so a future matching pass can
\* see this allocation already had its obvious candidate looked at and declined".
DeclinedStaysDeclined ==
  [][\A a \in Allocations :
       match'[a].site # NoSite => match'[a].site # match[a].declined]_relationVars

=============================================================================
