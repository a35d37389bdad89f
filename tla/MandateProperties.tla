--------------------------- MODULE MandateProperties ---------------------------
(* What a mandate's baseline and its reviewed transitions promise. *)
EXTENDS MandateBaseline

Fingerprints == [b1 : BOOLEAN, rules : Rules, version : Nat]
Summaries    == [rules : Rules, version : Nat, universe : Nat]
\* A fingerprint may stand without a review: a bootstrap recomputes the one it loaded, also
\* where a rollback has meanwhile restored a mandate that never had any.
Baselines    == [fp : Fingerprints \cup {NoFingerprint}, at : Nat,
                 summary : Summaries \cup {NoSummary}]
Rows         == [Mandates -> [b1 : BOOLEAN, rules : Rules, baseline : Baselines]]

Work ==
  [pc : {"idle", "seeding", "listing", "onboarding", "applying", "restoring", "syncing"},
   rows : Rows \cup {NoCommand.rows}, version : Nat, universe : Nat, todo : SUBSET Mandates]

\* Every variable stays in its type.
MandateTypeOK ==
  /\ mandates \in Rows
  /\ version \in 1 .. MaxVersion /\ universe \in 0 .. MaxUniverse /\ stamp \in 1 .. MaxStamp
  /\ DOMAIN report.old = DOMAIN report.new
  /\ DOMAIN report.old \subseteq Mandates
  /\ \A m \in DOMAIN report.old : report.old[m] \in Baselines
  /\ operator \in [Operators -> Work]
  /\ \A o \in Operators : operator[o].pc # "idle" => operator[o].rows \in Rows

\* The mandates that had their Phase B1 fields: the bootstrap rewrites the fingerprints of
\* the others, once, without a review.
HadB1 == Mandates \ PreB1

\* A mandate that is not stale was reviewed under its present rules and the deployed
\* policy version: "never a silent fingerprint rewrite - before any mandate's baseline
\* may be considered current again" (buyer_profile_store.py), through concurrent
\* bootstraps, corrections, re-onboardings, rollbacks and crashes.
FreshWasReassessed ==
  \A m \in HadB1 :
    ~Stale(mandates[m], version)
      => /\ mandates[m].baseline.summary.rules = mandates[m].rules
         /\ mandates[m].baseline.summary.version = version

\* mandate_reonboarding: "the freshly recomputed plan's digest equals the REVIEWED
\* dry-run digest": whatever a re-onboarding stamps, somebody reviewed.
OnlyReviewedIsApplied ==
  [][report' # report
       => \E d \in reviewed :
            /\ d.kind = "reonboard"
            /\ d.entries = [m \in DOMAIN report'.new |->
                 <<report'.old[m].fp, report'.new[m].fp, report'.new[m].summary>>]]_mandateVars

\* A rollback "re-reads the live mandates and REFUSES unless every one is still exactly
\* in the expected post-transition state".
RestoreFromPostState ==
  [][\A o \in Operators :
       operator[o].pc = "restoring" /\ mandates' # mandates /\ operator'[o].pc = "idle"
         => AtPostState]_mandateVars

----------------------------------------------------------------------------
(* The invariants behind them. *)

\* The summary of a baseline was counted under the rules and the policy version that its
\* fingerprint names.
Honest(baseline) ==
  baseline.at # 0 => /\ baseline.summary.rules = baseline.fp.rules
                     /\ baseline.summary.version = baseline.fp.version

HonestRows(rows) == \A m \in HadB1 : rows[m].b1 /\ Honest(rows[m].baseline)

\* Every baseline of such a mandate that is stored, loaded or kept for a rollback is honest,
\* and no bootstrap has its fingerprint to rewrite.
HonestEverywhere ==
  /\ HonestRows(mandates)
  /\ \A m \in HadB1 \cap DOMAIN report.old : Honest(report.old[m])
  /\ \A o \in Operators :
       /\ operator[o].pc # "idle" => HonestRows(operator[o].rows)
       /\ operator[o].pc = "seeding" => operator[o].todo \cap HadB1 = {}

\* The plan that an operator is about to apply, as it loaded it.
Loaded(me) ==
  [m \in me.todo |-> <<me.rows[m].baseline.fp,
                      Fingerprint(me.rows[m].b1, me.rows[m].rules, me.version),
                      Summary(me.rows[m].rules, me.version, me.universe)>>]

\* Whoever applies a plan holds one that was reviewed.
AppliersHoldReviewed ==
  \A o \in Operators :
    operator[o].pc = "applying" =>
      \E d \in reviewed : d.kind = "reonboard" /\ d.entries = Loaded(operator[o])
=============================================================================
