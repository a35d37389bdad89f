-------------------------- MODULE PlanningPosition --------------------------
(***************************************************************************)
(* What the platform says of a site from the applications linked to it:    *)
(* the consented reference and its homes, the live proposals, the phases   *)
(* and the commencement deadline (app/reporting/scheme_reconciliation.py,  *)
(* residential_count.py, app/pipeline/phase_tracking.py and                *)
(* lapse_tracking.py).                                                     *)
(*                                                                         *)
(* Nothing of this is stored: every answer is computed from the linked     *)
(* applications each time it is asked for.  The state is therefore the     *)
(* applications as the weekly run, the status verification and the         *)
(* extraction leave them, and the answers are operators of that state.     *)
(*                                                                         *)
(* Applications are numbered as the database numbers them.  What a         *)
(* proposal says is fixed: its role, the phases and plots it names, the    *)
(* number of homes it states, whether that number is qualified ("up to"),  *)
(* the references it cites and the day it was received.  None = 0 stands   *)
(* for a date, a count or an application there is not.                     *)
(***************************************************************************)
EXTENDS Integers, FiniteSets, FiniteSetsExt

CONSTANTS
  App,            \* the applications, numbered from 1
  Role,           \* [App -> "full" | "s73" | "amendment" | "certificate"]
  Names,          \* [App -> the set of <<code, kind>> its proposal names]
  Stated,         \* [App -> the homes its proposal states, or None]
  Qualified,      \* the applications whose stated quantity is "up to"
  Cites,          \* [App -> the applications its proposal cites]
  Received,       \* [App -> the day it was received]
  Counts,         \* the totals an extraction may find
  Immaterial,     \* the totals taken to differ immaterially: {100, 101, 102}
  Threshold,      \* the homes that make a plot a parcel: 10
  Commencement,   \* the days a permission has to be begun: three years
  Warning,        \* LAPSE_WARNING_DAYS
  NonOverlap,     \* the pairs of phases evidenced not to overlap
  MaxDay          \* bound: the last day

PositionAssumption ==
  /\ App \subseteq Nat \ {0} /\ IsFiniteSet(App)
  /\ \A a \in App : Cites[a] \subseteq App \ {a} /\ IsFiniteSet(Names[a])
  /\ Received \in [App -> Nat]
  /\ Counts \subseteq Nat \ {0}
  /\ Warning \in Nat /\ Commencement \in Nat /\ MaxDay \in Nat \ {0}

VARIABLES
  filed,          \* the applications linked to the site
  decided,        \* [App -> resolve_decided_state of its decision and status]
  decision_date,  \* [App -> the day of its decision, or None]
  total_units,    \* [App -> SchemeIntelligence.total_units_final, or None]
  today

positionVars == <<filed, decided, decision_date, total_units, today>>

None == 0
UNPHASED == <<"whole", "phase">>
TERMINAL == {"granted", "refused", "withdrawn"}
LIVE == {"undetermined", "recommendation_only"}

Substantive(a) == Role[a] = "full"
Variation(a) == Role[a] = "s73"
Granted(A) == {a \in A : decided[a] = "granted"}

\* The permissions that may carry units, and the proposals still live.
Carries(a) == Substantive(a) \/ Variation(a)
LiveOf(A) == {a \in A : Carries(a) /\ decided[a] \in LIVE}

-----------------------------------------------------------------------------
(***************************************************************************)
(* Recency: the latest decision, then the latest receipt, then the number. *)
(***************************************************************************)
Later(a, b) ==
  \/ decision_date[a] > decision_date[b]
  \/ /\ decision_date[a] = decision_date[b]
     /\ \/ Received[a] > Received[b]
        \/ Received[a] = Received[b] /\ a > b

Latest(A) ==
  IF A = {} THEN None ELSE CHOOSE a \in A : \A b \in A \ {a} : Later(a, b)

-----------------------------------------------------------------------------
(***************************************************************************)
(* How many homes: agreement, or a conflict that stays one.                *)
(***************************************************************************)
Unknown == [precision |-> "UNKNOWN", value |-> None]
Estimate(v) == [precision |-> "APPROXIMATE", value |-> v]

exact_value(c) == IF c.precision = "EXACT" THEN c.value ELSE None

\* The positions are the applications of A, each with its figure.
assess_positions(A, figure) ==
  LET values == {figure[a] : a \in A}
      dates  == {decision_date[a] : a \in A}
      roles  == {Role[a] : a \in A}
  IN IF A = {} THEN Unknown
     ELSE IF Cardinality(values) = 1 THEN [precision |-> "EXACT", value |-> Min(values)]
     ELSE IF /\ values = Immaterial
             /\ Cardinality(dates) = 1 /\ None \notin dates
             /\ Cardinality(roles) = 1
     THEN Estimate(Min(values)) ELSE Unknown

\* A qualified quantity is no count, nor is one the proposal contradicts.
residential_count_eligibility(a) ==
  a \notin Qualified /\ (None \in {Stated[a], total_units[a]} \/ Stated[a] = total_units[a])

_scheme_total_units(a) == IF residential_count_eligibility(a) THEN total_units[a] ELSE None
_portal_estimated_units(a) == IF residential_count_eligibility(a) THEN Stated[a] ELSE None

\* Extracted totals first; the stated ones only as an estimate.  A qualified
\* quantity among the rows withholds the answer altogether.
AssessRows(A, mayEstimate) ==
  LET extracted == {a \in A : _scheme_total_units(a) # None}
      stated    == {a \in mayEstimate : _portal_estimated_units(a) # None}
      found     == IF extracted # {} THEN assess_positions(extracted, [a \in A |-> _scheme_total_units(a)])
                   ELSE assess_positions(stated, [a \in mayEstimate |-> _portal_estimated_units(a)])
  IN IF A \cap Qualified # {} THEN Unknown
     ELSE IF extracted = {} /\ found.precision = "EXACT" THEN Estimate(found.value) ELSE found

Eligible(A) ==
  {a \in Granted(A) : Substantive(a) \/ (Variation(a) /\ _scheme_total_units(a) # None)}

\* Mutant of Superseded: a variation replaces what it cites, whichever came first.
SupersededInAnyOrder(A) ==
  {base \in Eligible(A) : \E v \in Eligible(A) \ {base} :
     /\ Variation(v)
     /\ base \in Cites[v]
     /\ decision_date[base] # None
     /\ decision_date[v] # None}

\* A dated variation replaces the earlier dated permission it cites.
Superseded(A) ==
  LET eligible == Eligible(A)
  IN {base \in eligible : \E v \in eligible \ {base} :
        /\ Variation(v)
        /\ base \in Cites[v]
        /\ decision_date[base] # None
        /\ decision_date[v] > decision_date[base]}

Current(A) == Eligible(A) \ Superseded(A)

_resolve_approved_units(A) ==
  AssessRows(Current(A), {a \in Current(A) : Substantive(a)})

_build_active_position(A) == AssessRows(A, A)

scoped_count_assessment(A) ==
  IF \E a \in Granted(A) : Carries(a) THEN _resolve_approved_units(A)
  ELSE IF LiveOf(A) # {} THEN _build_active_position(LiveOf(A)) ELSE Unknown

-----------------------------------------------------------------------------
(***************************************************************************)
(* Phases, plots and the scope each application belongs to.                *)
(***************************************************************************)
Labels(a) == IF Names[a] = {} THEN {UNPHASED} ELSE Names[a]
OnePhase(A) == {a \in A : Cardinality(Names[a]) = 1}

PhaseGroups == UNION {Labels(a) : a \in filed}
group_applications_by_phase(g) == {a \in filed : g \in Labels(a)}

\* Only an application that names one phase says how many homes it has.
_phase_unit_count(A) == scoped_count_assessment(OnePhase(A))

is_material_development_parcel(A) ==
  LET counted == exact_value(_phase_unit_count(A))
      stated  == {Stated[a] : a \in {b \in OnePhase(A) : Substantive(b)}} \ {None}
  IN IF counted # None THEN counted >= Threshold
     ELSE Cardinality(stated) = 1 /\ Min(stated) >= Threshold

\* A plot that is no parcel folds into the unphased group.
Peer(g) ==
  g # UNPHASED /\ (g[2] = "phase" \/ is_material_development_parcel(group_applications_by_phase(g)))

\* group_applications_by_operative_scope keeps these for an application.
Peers(a) == {g \in Labels(a) : Peer(g)}

_resolve_scopes(a) ==
  LET peers == Peers(a)
  IN IF peers = {} THEN UNPHASED
     ELSE IF Cardinality(peers) > 1 THEN <<"multiple", "scopes">> ELSE CHOOSE g \in peers : TRUE

_site_scope_rows == {a \in filed : _resolve_scopes(a) = UNPHASED}

-----------------------------------------------------------------------------
(***************************************************************************)
(* The consented position, the live ones and the status of the site.       *)
(***************************************************************************)
SubstantiveOf(A) == {a \in A : Substantive(a)}

consented_reference == Latest(SubstantiveOf(Granted(_site_scope_rows)))

consented_planning_status ==
  LET rows == SubstantiveOf(_site_scope_rows)
  IN IF Granted(rows) # {} THEN "granted"
     ELSE IF rows # {} /\ \A a \in rows : decided[a] \notin LIVE THEN decided[Latest(rows)]
     ELSE "not_determined"

ActiveScopes == {_resolve_scopes(a) : a \in LiveOf(filed)}
ActiveRows(s) == {a \in LiveOf(filed) : _resolve_scopes(a) = s}

resolve_canonical_decision_status ==
  LET status == consented_planning_status
  IN IF status = "not_determined" /\ ActiveScopes # {} THEN "not_yet_decided" ELSE status

count_assessment_for_facts ==
  LET rows   == _site_scope_rows
      active == ActiveRows(UNPHASED)
  IN IF \E a \in Granted(rows) : Carries(a) THEN _resolve_approved_units(rows)
     ELSE IF active # {} THEN _build_active_position(active) ELSE Unknown

units == exact_value(count_assessment_for_facts)

-----------------------------------------------------------------------------
(***************************************************************************)
(* The deadline, and the progress of each phase.                           *)
(***************************************************************************)
\* Mutant of resolve_operative_lapse_anchor: any grant starts the clock.
AnchorOfAnyGrant(A) == Latest(Granted(A))

resolve_operative_lapse_anchor(A) == Latest(SubstantiveOf(Granted(A)))

DeadlineOf(A) == decision_date[resolve_operative_lapse_anchor(A)] + Commencement

LapseBefore(A) ==
  IF resolve_operative_lapse_anchor(A) = None
  THEN IF Granted(A) = {} THEN "not_granted" ELSE "not_determined"
  ELSE "unknown"

Dated(A) ==
  /\ resolve_operative_lapse_anchor(A) # None
  /\ decision_date[resolve_operative_lapse_anchor(A)] # None

compute_lapse_status(A) ==
  CASE ~Dated(A) -> LapseBefore(A)
    [] Dated(A) /\ DeadlineOf(A) < today -> "lapsed"
    [] Dated(A) /\ today \in (DeadlineOf(A) - Warning)..DeadlineOf(A) -> "approaching"
    [] OTHER -> "safe"

\* PROGRESS_SIGNAL_CATEGORIES: variations, amendments, details of conditions.
ProgressFiling(a) == Role[a] \in {"s73", "amendment"}

\* A filing is compared with the day of the grant, also when there is none.
compute_phase_progress(A) ==
  LET granted == resolve_operative_lapse_anchor(A)
      filings == {a \in A : ProgressFiling(a)}
  IN IF granted = None
     THEN IF filings # {} THEN "planning_activity" ELSE "not_yet_approved"
     ELSE IF decision_date[granted] = None /\ filings # {} THEN "TypeError"
     ELSE IF \E a \in filings : Received[a] > decision_date[granted] THEN "planning_activity"
     ELSE "approved_commencement_unverified"

Phases == {g \in PhaseGroups : g # UNPHASED /\ g[2] = "phase"}

PhaseUnits(g) == exact_value(_phase_unit_count(group_applications_by_phase(g)))

\* The sum of a bucket, when every phase is counted and none overlaps another.
BucketUnits(status) ==
  LET rows == {g \in Phases : compute_phase_progress(group_applications_by_phase(g)) = status}
  IN IF /\ rows # {}
        /\ \A g \in rows : PhaseUnits(g) # None
        /\ \A g, h \in rows : g = h \/ {g[1], h[1]} \in NonOverlap
     THEN MapThenSumSet(PhaseUnits, rows) ELSE None

\* What the phases named in the proposals say of the site's phasing today.
derive_acquisition_phasing_evidence ==
  LET group(g) == group_applications_by_phase(g)
      lapse    == {compute_lapse_status(group(g)) :
                     g \in {p \in Phases : resolve_operative_lapse_anchor(group(p)) # None}}
  IN IF \E g \in Phases : compute_phase_progress(group(g)) = "TypeError" THEN "TypeError"
     ELSE IF lapse \cap {"safe", "approaching"} # {} THEN "current"
     ELSE IF "unknown" \in lapse THEN "currentness_unknown"
     ELSE IF lapse = {"lapsed"} THEN "historical" ELSE "none_identified"

-----------------------------------------------------------------------------
(***************************************************************************)
(* What changes the applications.                                          *)
(***************************************************************************)
PositionInit ==
  /\ filed = {}
  /\ decided = [a \in App |-> "undetermined"]
  /\ decision_date = [a \in App \cup {None} |-> None]
  /\ total_units = [a \in App |-> None]
  /\ today = 1

\* The weekly run finds an application of the site.
File(a) ==
  /\ a \notin filed
  /\ filed' = filed \cup {a}
  /\ UNCHANGED <<decided, decision_date, total_units, today>>

\* A portal check finds a recommendation or a decision, dated or not.
Decide(a, d, day) ==
  /\ a \in filed /\ decided[a] \notin TERMINAL /\ d # decided[a]
  /\ day \in 0..today /\ (d \notin TERMINAL => day = None)
  /\ decided' = [decided EXCEPT ![a] = d]
  /\ decision_date' = [decision_date EXCEPT ![a] = day]
  /\ UNCHANGED <<filed, total_units, today>>

\* An accepted correction of the date of a decision.
CorrectDate(a, day) ==
  /\ a \in filed /\ decided[a] \in TERMINAL /\ day \in 1..today
  /\ day # decision_date[a]
  /\ decision_date' = [decision_date EXCEPT ![a] = day]
  /\ UNCHANGED <<filed, decided, total_units, today>>

\* The extraction of its documents finds its homes, or others than before.
Extract(a, u) ==
  /\ a \in filed /\ u \in Counts /\ u # total_units[a]
  /\ total_units' = [total_units EXCEPT ![a] = u]
  /\ UNCHANGED <<filed, decided, decision_date, today>>

NextDay ==
  /\ today < MaxDay
  /\ today' = today + 1
  /\ UNCHANGED <<filed, decided, decision_date, total_units>>

\* A step that changes application a.
Touch(a) ==
  \/ File(a)
  \/ \E d \in TERMINAL \cup {"recommendation_only"}, day \in 0..MaxDay : Decide(a, d, day)
  \/ \E day \in 1..MaxDay : CorrectDate(a, day)
  \/ \E u \in Counts : Extract(a, u)

PositionNext == NextDay \/ \E a \in App : Touch(a)

PositionSpec == PositionInit /\ [][PositionNext]_positionVars

-----------------------------------------------------------------------------
Inert(a) == Role[a] \in {"amendment", "certificate"}

\* The step finds a, or finds something else of it than before.
Changes(a) ==
  \/ a \in filed' \ filed
  \/ <<decided'[a], decision_date'[a], total_units'[a]>> # <<decided[a], decision_date[a], total_units[a]>>

\* The applications whose figure counts for the whole site now.
CountsNow == IF Eligible(_site_scope_rows) # {} THEN Current(_site_scope_rows)
             ELSE LiveOf(_site_scope_rows)

-----------------------------------------------------------------------------
(***************************************************************************)
(* Properties                                                              *)
(***************************************************************************)
\* The applications are in the shapes the portals and the extraction give.
PositionTypeOK ==
  /\ filed \subseteq App
  /\ decided \in [App -> LIVE \cup TERMINAL]
  /\ decision_date \in [App \cup {None} -> 0..MaxDay]
  /\ total_units \in [App -> Counts \cup {None}]
  /\ today \in 1..MaxDay

\* However variations cite permissions and each other, they never replace
\* one another until nothing is left: some permission always counts, and it
\* is never older than every one that was replaced (_resolve_approved_units).
SupersessionLeavesTheNewest ==
  LET rows == _site_scope_rows
  IN Eligible(rows) # {} =>
       \E a \in Current(rows) : \A b \in Superseded(rows) : decision_date[a] >= decision_date[b]

\* An exact number of homes has been extracted, from an application that
\* counts now, and every other application that counts agrees or is silent:
\* neither a portal estimate nor one side of a conflict is ever exact.
ExactMeansAgreement ==
  units # None =>
    /\ \E a \in CountsNow : _scheme_total_units(a) = units
    /\ \A a \in CountsNow : _scheme_total_units(a) \in {None, units}

\* A refused, withdrawn or undecided application is never the consented
\* reference, and with one resolved the clock of the whole site has a
\* permission to run from: the page and the deadline cannot contradict each
\* other (_resolve_reference_and_status, resolve_operative_lapse_anchor).
ConsentHasAClock ==
  consented_reference # None =>
    /\ decided[consented_reference] = "granted"
    /\ LET anchor == resolve_operative_lapse_anchor(filed)
       IN anchor # None /\ (anchor # consented_reference => Later(anchor, consented_reference))

\* The sum of a bucket of phases counts the homes of an application once,
\* however many phases it names: every phase of the sum has its homes from an
\* application that names that phase and no other, so no application serves
\* two of them (_phase_unit_count, summarize_phase_units).
BucketsCountHomesOnce ==
  \A s \in {"planning_activity", "approved_commencement_unverified", "not_yet_approved"} :
    BucketUnits(s) # None =>
      \A g \in {p \in Phases : compute_phase_progress(group_applications_by_phase(p)) = s} :
        \E a \in filed : Names[a] = {g} /\ total_units[a] = PhaseUnits(g)

\* Permissions and homes add up.
PermissionsAddUp ==
  SupersessionLeavesTheNewest /\ ExactMeansAgreement /\ ConsentHasAClock /\ BucketsCountHomesOnce

\* An amendment, a certificate or details of conditions, whatever happens to
\* it, changes neither the consented reference nor the homes, the status or
\* the clock (SUBSTANTIVE_ROLES).  A first grant of any role does change the
\* clock from not granted to not determined.
AncillaryIsInert ==
  [][\A a \in filed' : Inert(a) /\ Changes(a) =>
       /\ consented_reference' = consented_reference
       /\ units' = units
       /\ resolve_canonical_decision_status' = resolve_canonical_decision_status
       /\ compute_lapse_status(filed)' # compute_lapse_status(filed) =>
            compute_lapse_status(filed)' \in {"not_granted", "not_determined"}]_positionVars

\* Once a permission counts, an application that is not granted changes
\* neither the consented reference nor the homes: a live proposal is told
\* beside the consented position, never in its place.
ProposalKeepsConsent ==
  [][\A a \in App : Touch(a) /\ decided'[a] # "granted" /\ consented_reference # None =>
       consented_reference' = consented_reference /\ units' = units]_positionVars

\* Time alone only erodes: a clock goes from safe to approaching to lapsed
\* and the phasing from current to historical, never back.  Going back takes
\* a new permission or a corrected date (compute_lapse_status,
\* derive_acquisition_phasing_evidence).
LapseRank(s) == CASE s = "safe" -> 2 [] s = "approaching" -> 1 [] OTHER -> 0
PhasingRank(s) == IF s = "current" THEN 1 ELSE 0

TimeOnlyErodes ==
  [][NextDay =>
       /\ LapseRank(compute_lapse_status(filed)') <= LapseRank(compute_lapse_status(filed))
       /\ PhasingRank(derive_acquisition_phasing_evidence')
            <= PhasingRank(derive_acquisition_phasing_evidence)]_positionVars

\* The docstring of _resolve_scopes: an application that names several peer
\* scopes spans them and belongs to the whole site.
SpanningIsWholeSite ==
  \A a \in filed : Cardinality(Peers(a)) > 1 => a \in _site_scope_rows

\* The docstring of derive_acquisition_phasing_evidence: a phase granted
\* without a date leaves the currentness unknown, unless a sibling is current.
UndatedPhaseIsUnknown ==
  (\E g \in Phases : compute_lapse_status(group_applications_by_phase(g)) = "unknown") =>
    derive_acquisition_phasing_evidence \in {"current", "currentness_unknown"}
=============================================================================
