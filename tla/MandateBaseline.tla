---------------------------- MODULE MandateBaseline ----------------------------
(***************************************************************************)
(* Buyer mandates and their onboarding baselines: bootstrap and seeding    *)
(* (app/policy/buyer_profile_store.py), the reviewed re-onboarding of      *)
(* stale mandates (mandate_reonboarding.py), its rollback                  *)
(* (mandate_reonboarding_rollback.py) and the approved correction of rule  *)
(* fields (mandate_sync.py).                                               *)
(*                                                                         *)
(* Operators run these as separate processes.  A session keeps the rows it *)
(* loaded (expire_on_commit=False) and writes them back by primary key, so *)
(* each command is a load step and one step per commit, with every other   *)
(* operator in between; a process may die between any two of them.         *)
(***************************************************************************)
EXTENDS Integers, FiniteSets

CONSTANTS
  Mandates,
  PreB1,        \* mandates whose Phase B1 fields are still NULL at first
  SyncTargets,  \* mandates with an entry in APPROVED_CHANGES
  Operators,
  MaxVersion,   \* model bound: deployments of a new BUYER_MATCHING_POLICY_VERSION
  MaxUniverse,  \* model bound: changes of the opportunity universe
  MaxStamp,     \* model bound: baselines stamped
  MaxReviews,   \* model bound: different plans reviewed
  Drifts        \* model bound: whether rules may change outside these commands

\* What is assumed of the constants; the module of a run states it as an ASSUME.
MandateAssumption ==
  /\ PreB1 \subseteq Mandates /\ SyncTargets \subseteq Mandates
  /\ MaxVersion \in Nat \ {0} /\ MaxUniverse \in Nat /\ MaxStamp \in Nat \ {0}
  /\ MaxReviews \in Nat
  /\ Drifts \in BOOLEAN

Rules == {"old", "new", "drift"}  \* expected pre-state, approved post-state, any other

VARIABLES
  mandates,  \* buyer_mandates rows
  version,   \* BUYER_MATCHING_POLICY_VERSION of the deployed code
  universe,  \* the current opportunity universe
  stamp,     \* utcnow(), advanced by every stamped baseline
  reviewed,  \* digests of the dry runs that were reviewed
  report,    \* the APPLIED report of the last re-onboarding
  operator   \* each operator's command, loaded rows and work left

mandateVars == <<mandates, version, universe, stamp, reviewed, report, operator>>

\* compute_buyer_mandate_fingerprint: policy version, Phase A and Phase B1 fields.
Fingerprint(b1, rules, v) == [b1 |-> b1, rules |-> rules, version |-> v]
NoFingerprint   == Fingerprint(FALSE, "none", 0)
\* The counts of one review, named by what they were counted from.
Summary(rules, v, u) == [rules |-> rules, version |-> v, universe |-> u]
NoSummary == Summary("none", 0, 0)
NoBaseline == [fp |-> NoFingerprint, at |-> 0, summary |-> NoSummary]
NoReport   == [old |-> <<>>, new |-> <<>>]
NoCommand  == [pc |-> "idle", rows |-> <<>>, version |-> 0, universe |-> 0, todo |-> {}]

\* is_buyer_mandate_baseline_stale, by code whose policy version is v.
Stale(row, v) ==
  \/ row.baseline.at = 0
  \/ row.baseline.fp # Fingerprint(row.b1, row.rules, v)

\* Seeded mandates, onboarded under the first policy version or never.
MandateInit ==
  /\ version = 1 /\ universe = 0 /\ stamp = 1
  /\ mandates \in [Mandates -> {[b1 |-> b, rules |-> "old", baseline |-> x] :
       b \in BOOLEAN,
       x \in {NoBaseline} \cup {[fp |-> Fingerprint(c, "old", 1), at |-> 1,
                                 summary |-> Summary("old", 1, 0)] : c \in BOOLEAN}}]
  /\ \A m \in Mandates :
       /\ mandates[m].b1 = (m \notin PreB1)
       /\ mandates[m].baseline # NoBaseline
            => mandates[m].baseline.fp.b1 = mandates[m].b1
  /\ reviewed = {}
  /\ report = NoReport
  /\ operator = [o \in Operators |-> NoCommand]

Begin(o, pc, todo) ==
  /\ operator[o].pc = "idle"
  /\ operator' = [operator EXCEPT ![o] = [pc |-> pc, rows |-> mandates, version |-> version,
                                          universe |-> universe, todo |-> todo]]
EndCommand(o) == operator' = [operator EXCEPT ![o] = NoCommand]

\* The three baseline columns: one review of the loaded rules over the loaded universe.
Computed(o, m) ==
  LET me == operator[o]
  IN  [fp |-> Fingerprint(me.rows[m].b1, me.rows[m].rules, me.version), at |-> stamp + 1,
       summary |-> Summary(me.rows[m].rules, me.version, me.universe)]

-----------------------------------------------------------------------------
(* bootstrap_acquisition_monitoring *)

BeginBootstrap(o) ==
  /\ Begin(o, "seeding", {m \in Mandates : ~mandates[m].b1})
  /\ UNCHANGED <<mandates, version, universe, stamp, reviewed, report>>

\* A mandate that lacks the B1 fields receives them; when it had a fingerprint, the
\* fingerprint is recomputed in place.
Seeded(o, m) ==
  LET me == operator[o]
      filled == [mandates[m] EXCEPT !.b1 = TRUE]
  IN  IF m \notin me.todo THEN mandates[m]
      ELSE IF me.rows[m].baseline.fp = NoFingerprint THEN filled
      ELSE [filled EXCEPT !.baseline.fp = Fingerprint(TRUE, me.rows[m].rules, me.version)]

CommitSeed(o) ==
  /\ operator[o].pc = "seeding"
  /\ mandates' = [m \in Mandates |-> Seeded(o, m)]
  /\ operator' = [operator EXCEPT ![o].pc = "listing"]
  /\ UNCHANGED <<version, universe, stamp, reviewed, report>>

\* The stale mandates and one universe for all of them.
ListStale(o) ==
  /\ operator[o].pc = "listing"
  /\ LET stale == {m \in Mandates : Stale(mandates[m], operator[o].version)}
     IN  operator' = [operator EXCEPT ![o] =
           IF stale = {} THEN NoCommand
           ELSE [@ EXCEPT !.pc = "onboarding", !.rows = mandates, !.universe = universe,
                          !.todo = stale]]
  /\ UNCHANGED <<mandates, version, universe, stamp, reviewed, report>>

\* run_buyer_onboarding_baseline: one commit per mandate.
OnboardOne(o, m) ==
  LET rest == operator[o].todo \ {m}
  IN  /\ operator[o].pc = "onboarding" /\ m \in operator[o].todo
      /\ stamp < MaxStamp
      /\ mandates' = [mandates EXCEPT ![m].baseline = Computed(o, m)]
      /\ stamp' = stamp + 1
      /\ operator' = [operator EXCEPT ![o] = IF rest = {} THEN NoCommand
                                                ELSE [@ EXCEPT !.todo = rest]]
      /\ UNCHANGED <<version, universe, reviewed, report>>

-----------------------------------------------------------------------------
(* mandate_reonboarding: a reviewed dry run, then one commit for all *)

StaleNow == {m \in Mandates : Stale(mandates[m], version)}
Digest(rows, stale, v, u) ==
  [kind |-> "reonboard", universe |-> u,
   entries |-> [m \in stale |-> <<rows[m].baseline.fp, Fingerprint(rows[m].b1, rows[m].rules, v),
                                  Summary(rows[m].rules, v, u)>>]]

PlanReonboarding ==
  /\ StaleNow # {} /\ Cardinality(reviewed) < MaxReviews
  /\ reviewed' = reviewed \cup {Digest(mandates, StaleNow, version, universe)}
  /\ UNCHANGED <<mandates, version, universe, stamp, report, operator>>

\* Mutant of BeginApply: the digest of the reviewed plan is not compared.
BeginApplyUnreviewed(o) ==
  /\ StaleNow # {}
  /\ Begin(o, "applying", StaleNow)
  /\ UNCHANGED <<mandates, version, universe, stamp, reviewed, report>>

\* The recomputed plan is the reviewed one and its parity passed; else refused.
BeginApply(o) ==
  /\ StaleNow # {}
  /\ Digest(mandates, StaleNow, version, universe) \in reviewed
  /\ Begin(o, "applying", StaleNow)
  /\ UNCHANGED <<mandates, version, universe, stamp, reviewed, report>>

CommitApply(o) ==
  LET me == operator[o]
  IN  /\ me.pc = "applying"
      /\ stamp < MaxStamp
      /\ mandates' = [m \in Mandates |->
           IF m \in me.todo THEN [mandates[m] EXCEPT !.baseline = Computed(o, m)]
           ELSE mandates[m]]
      /\ report' = [old |-> [m \in me.todo |-> me.rows[m].baseline],
                    new |-> [m \in me.todo |-> Computed(o, m)]]
      /\ stamp' = stamp + 1
      /\ EndCommand(o)
      /\ UNCHANGED <<version, universe, reviewed>>

-----------------------------------------------------------------------------
(* mandate_reonboarding_rollback *)

AtPostState == \A m \in DOMAIN report.new : mandates[m].baseline = report.new[m]

\* _compute re-reads the live mandates: any other state of any of them refuses.
BeginRestore(o) ==
  /\ report # NoReport
  /\ AtPostState
  /\ Begin(o, "restoring", DOMAIN report.old)
  /\ UNCHANGED <<mandates, version, universe, stamp, reviewed, report>>

CommitRestore(o) ==
  LET todo == operator[o].todo
  IN  /\ operator[o].pc = "restoring"
      /\ mandates' = [m \in Mandates |->
           IF m \in todo \cap DOMAIN report.old
           THEN [mandates[m] EXCEPT !.baseline = report.old[m]] ELSE mandates[m]]
      /\ EndCommand(o)
      /\ UNCHANGED <<version, universe, stamp, reviewed, report>>

-----------------------------------------------------------------------------
(* mandate_sync: rule fields only, re-verified under the row's lock *)

SyncReady(m) == m \in SyncTargets /\ mandates[m].b1 /\ mandates[m].rules = "old"
SyncDigest(m) == [kind |-> "sync", mandate |-> m, fp |-> mandates[m].baseline.fp]

PlanSync(m) ==
  /\ SyncReady(m) /\ Cardinality(reviewed) < MaxReviews
  /\ reviewed' = reviewed \cup {SyncDigest(m)}
  /\ UNCHANGED <<mandates, version, universe, stamp, report, operator>>

BeginSync(o, m) ==
  /\ SyncReady(m)
  /\ SyncDigest(m) \in reviewed
  /\ Begin(o, "syncing", {m})
  /\ UNCHANGED <<mandates, version, universe, stamp, reviewed, report>>

\* SELECT ... FOR UPDATE with populate_existing, then the whole-policy digest again.
Unchanged(o, m) == mandates[m].rules = operator[o].rows[m].rules

\* Mutant of CommitSync: the fingerprint is brought along with the rules.
CommitSyncRewriting(o, m) ==
  /\ operator[o].pc = "syncing" /\ m \in operator[o].todo
  /\ mandates' = [mandates EXCEPT ![m].rules = "new",
                                  ![m].baseline.fp = Fingerprint(TRUE, "new", version)]
  /\ EndCommand(o)
  /\ UNCHANGED <<version, universe, stamp, reviewed, report>>

CommitSync(o, m) ==
  /\ operator[o].pc = "syncing" /\ m \in operator[o].todo
  /\ IF Unchanged(o, m)
     THEN mandates' = [mandates EXCEPT ![m].rules = "new"]
     ELSE UNCHANGED mandates
  /\ EndCommand(o)
  /\ UNCHANGED <<version, universe, stamp, reviewed, report>>

-----------------------------------------------------------------------------
(* The surroundings *)

Dies(o) ==
  /\ operator[o].pc # "idle"
  /\ EndCommand(o)
  /\ UNCHANGED <<mandates, version, universe, stamp, reviewed, report>>

Deploy ==
  /\ version < MaxVersion
  /\ version' = version + 1
  /\ UNCHANGED <<mandates, universe, stamp, reviewed, report, operator>>

Discover ==
  /\ universe < MaxUniverse
  /\ universe' = universe + 1
  /\ UNCHANGED <<mandates, version, stamp, reviewed, report, operator>>

\* Rule fields written by hand: the drift mandate_sync looks for.
Drift(m) ==
  /\ Drifts /\ mandates[m].rules # "drift"
  /\ mandates' = [mandates EXCEPT ![m].rules = "drift"]
  /\ UNCHANGED <<version, universe, stamp, reviewed, report, operator>>

MandateNext ==
  \/ \E o \in Operators : BeginBootstrap(o) \/ CommitSeed(o) \/ ListStale(o)
  \/ \E o \in Operators, m \in Mandates : OnboardOne(o, m)
  \/ PlanReonboarding
  \/ \E o \in Operators : BeginApply(o) \/ CommitApply(o)
  \/ \E o \in Operators : BeginRestore(o) \/ CommitRestore(o)
  \/ \E m \in Mandates : PlanSync(m)
  \/ \E o \in Operators, m \in Mandates : BeginSync(o, m) \/ CommitSync(o, m)
  \/ \E o \in Operators : Dies(o)
  \/ Deploy
  \/ Discover
  \/ \E m \in Mandates : Drift(m)

MandateSpec == MandateInit /\ [][MandateNext]_mandateVars
=============================================================================
