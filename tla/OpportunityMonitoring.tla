------------------------- MODULE OpportunityMonitoring -------------------------
(***************************************************************************)
(* The monitoring of opportunities: the sync that classifies every live    *)
(* opportunity (app/reporting/opportunity_change.py), the reviewed         *)
(* transition of rows after a software change                              *)
(* (opportunity_monitoring_transition.py) with its one use, the v8         *)
(* rebaseline (v8_monitoring_rebaseline.py), and its rollback.             *)
(*                                                                         *)
(* Syncs run in the weekly and daily runs, in a command of their own and   *)
(* in bootstrap; a pass reads the universe, then the rows, then commits.   *)
(* SQLAlchemy writes the columns that differ from what the pass loaded and *)
(* no others; a row without such a column is not written at all.           *)
(***************************************************************************)
EXTENDS Integers, FiniteSets

CONSTANTS
  Opps,        \* opportunity ids
  Detector,    \* opportunity_detector_identity
  NonExact,    \* strategic allocations whose stated capacity is not exact
  Syncs,       \* processes that may run a pass
  Manifests,   \* reviewed transition manifests an operator may apply
  Rebaselines, \* whether the v8 rebaseline may be run
  MaxFact,     \* model bound: versions of an opportunity's evidence
  MaxPasses,   \* model bound: passes told apart, by number
  MaxStops     \* model bound: passes that fail

MonitoringAssumption ==
  /\ NonExact \subseteq Opps
  /\ Manifests \subseteq [retired : SUBSET Opps, replacement : SUBSET Opps, rebaseline : SUBSET Opps]
  /\ Rebaselines \in BOOLEAN
  /\ MaxFact \in Nat /\ MaxPasses \in Nat /\ MaxStops \in Nat

VARIABLES
  live,      \* the current opportunity universe
  fact,      \* evidence behind each opportunity, all of its fingerprint fields but one
  v8,        \* the deployed code records capacity_semantics
  rows,      \* opportunity_monitoring_states
  pass,      \* each sync's pass under way
  passes,    \* passes begun
  change,    \* the operator's command: a transition, a rebaseline or a rollback
  reviewed,  \* entries of the rebaseline dry run that was reviewed
  forward,   \* entries of the applied rebaseline
  told,      \* history: the evidence reported so far, as a baseline, new, changed or corrected
  slipped,   \* history: opportunities whose evidence changed between the check of the
             \* rebaseline's digest and the reading of what it wrote
  stops      \* passes that failed

monitoringVars == <<live, fact, v8, rows, pass, passes, change, reviewed, forward, told, slipped, stops>>

NoRow    == [fields |-> <<>>, cls |-> "none", seen |-> 0]
NoPass   == [pc |-> "idle", universe |-> <<>>, loaded |-> <<>>, baseline |-> {}, at |-> 0]
NoChange == [pc |-> "idle", universe |-> <<>>, loaded |-> <<>>, ids |-> {}, new |-> {},
             entries |-> {}]

Tracked == {o \in Opps : rows[o] # NoRow}
DetectorsOf(os) == {Detector[o] : o \in os}

\* compute_opportunity_fingerprint by the code that is deployed.
Fields(o) == [fact |-> fact[o], capacity |-> v8 /\ o \in NonExact]
Universe  == [o \in live |-> Fields(o)]

MonitoringInit ==
  /\ live \in SUBSET Opps /\ fact = [o \in Opps |-> 0] /\ v8 = FALSE
  /\ rows = [o \in Opps |-> NoRow] /\ pass = [s \in Syncs |-> NoPass] /\ passes = 0
  /\ change = NoChange /\ reviewed = {} /\ forward = {}
  /\ told = [o \in Opps |-> {}] /\ slipped = {} /\ stops = 0

----------------------------------------------------------------------------
(* The world: evidence changes, opportunities open and close, v8 ships. *)

EvidenceChanges(o) ==
  /\ fact[o] < MaxFact
  /\ fact' = [fact EXCEPT ![o] = @ + 1]
  /\ UNCHANGED <<live, v8, rows, pass, passes, change, reviewed, forward, told, slipped, stops>>

Opens(o) ==
  /\ o \notin live /\ live' = live \cup {o}
  /\ UNCHANGED <<fact, v8, rows, pass, passes, change, reviewed, forward, told, slipped, stops>>

Closes(o) ==
  /\ o \in live /\ live' = live \ {o}
  /\ UNCHANGED <<fact, v8, rows, pass, passes, change, reviewed, forward, told, slipped, stops>>

Deploy ==
  /\ Rebaselines /\ ~v8 /\ v8' = TRUE
  /\ UNCHANGED <<live, fact, rows, pass, passes, change, reviewed, forward, told, slipped, stops>>

----------------------------------------------------------------------------
(* sync_opportunity_monitoring_state *)

\* build_current_opportunity_universe.
ReadUniverse(s) ==
  /\ pass[s].pc = "idle" /\ passes' = IF passes < MaxPasses THEN passes + 1 ELSE passes
  /\ pass' = [pass EXCEPT ![s] = [NoPass EXCEPT !.pc = "universe", !.universe = Universe, !.at = passes']]
  /\ UNCHANGED <<live, fact, v8, rows, change, reviewed, forward, told, slipped, stops>>

\* tracked_detector_identities.
Established == DetectorsOf(Tracked)

ReadRows(s) ==
  /\ pass[s].pc = "universe"
  /\ pass' = [pass EXCEPT ![s].pc = "plan", ![s].loaded = rows,
                          ![s].baseline = {o \in DOMAIN pass[s].universe : Detector[o] \notin Established}]
  /\ UNCHANGED <<live, fact, v8, rows, passes, change, reviewed, forward, told, slipped, stops>>

\* Mutant of Classify: only evidence that was there before is compared.
ClassifyLeniently(p, o) ==
  CASE p.loaded[o] = NoRow -> IF o \in p.baseline THEN "BASELINE_EXISTING" ELSE "NEW"
    [] p.loaded[o].fields.fact = 0 \/ p.loaded[o].fields = p.universe[o] -> "UNCHANGED"
    [] OTHER -> "MATERIALLY_CHANGED"

\* classify_opportunity_change.
Classify(p, o) ==
  CASE p.loaded[o] = NoRow -> IF o \in p.baseline THEN "BASELINE_EXISTING" ELSE "NEW"
    [] p.loaded[o].fields = p.universe[o] -> "UNCHANGED"
    [] OTHER -> "MATERIALLY_CHANGED"

\* The columns that differ from the loaded ones; onupdate of last_seen_at goes
\* with an UPDATE.
Flushed(o, loaded, fields, cls, at) ==
  [fields |-> IF fields # loaded.fields THEN fields ELSE rows[o].fields,
   cls    |-> IF cls # loaded.cls THEN cls ELSE rows[o].cls,
   seen   |-> IF fields # loaded.fields \/ cls # loaded.cls THEN at ELSE rows[o].seen]

\* opportunity_id is unique: an insert of a row that has appeared fails the pass.
Conflicts(p) == \E o \in DOMAIN p.universe : p.loaded[o] = NoRow /\ rows[o] # NoRow

CommitPass(s) ==
  LET p == pass[s] IN
  /\ p.pc = "plan" /\ ~Conflicts(p)
  /\ rows' = [o \in Opps |-> IF o \in DOMAIN p.universe
                             THEN Flushed(o, p.loaded[o], p.universe[o], Classify(p, o), p.at)
                             ELSE rows[o]]
  /\ told' = [o \in Opps |-> IF o \in DOMAIN p.universe /\ Classify(p, o) # "UNCHANGED"
                             THEN told[o] \cup {p.universe[o].fact} ELSE told[o]]
  /\ pass' = [pass EXCEPT ![s] = NoPass]
  /\ UNCHANGED <<live, fact, v8, passes, change, reviewed, forward, slipped, stops>>

\* A unique violation, a killed process: nothing is written.
PassFails(s) ==
  /\ pass[s].pc # "idle" /\ stops < MaxStops /\ stops' = stops + 1
  /\ pass' = [pass EXCEPT ![s] = NoPass]
  /\ UNCHANGED <<live, fact, v8, rows, passes, change, reviewed, forward, told, slipped>>

----------------------------------------------------------------------------
(* apply_monitoring_transition: one operator at a time. *)

LoadTransition(ids, new, entries) ==
  change' = [pc |-> "load", universe |-> Universe, loaded |-> rows, ids |-> ids, new |-> new,
             entries |-> entries]

\* Every check of the manifest, or no write at all.  Whoever reviewed it vouches for
\* the evidence it corrects.
Valid(m) ==
  /\ m.retired \cap live = {}
  /\ m.replacement \subseteq live \ Tracked
  /\ m.rebaseline \subseteq live \cap Tracked
  /\ m.retired \cap (m.replacement \cup m.rebaseline) = {} /\ m.replacement \cap m.rebaseline = {}

BeginTransition(m) ==
  /\ change.pc = "idle" /\ Valid(m)
  /\ LoadTransition(m.rebaseline, m.replacement, {})
  /\ UNCHANGED <<live, fact, v8, rows, pass, passes, reviewed, forward, told, slipped, stops>>

CommitTransition ==
  /\ change.pc = "load" /\ change.new \cap Tracked = {}
  /\ rows' = [o \in Opps |->
       CASE o \in change.new -> [fields |-> change.universe[o], cls |-> "BASELINE_EXISTING", seen |-> passes]
         [] o \in change.ids -> Flushed(o, change.loaded[o], change.universe[o], change.loaded[o].cls, passes)
         [] OTHER            -> rows[o]]
  /\ told' = [o \in Opps |-> IF o \in change.new \cup (IF change.entries = {} THEN change.ids ELSE {})
                          THEN told[o] \cup {change.universe[o].fact} ELSE told[o]]
  /\ forward' = IF change.entries # {} THEN change.entries ELSE forward
  /\ change' = NoChange
  /\ UNCHANGED <<live, fact, v8, pass, passes, reviewed, slipped, stops>>

\* A manifest that no longer holds, an insert that lost, or a killed command.
TransitionFails ==
  /\ change.pc # "idle"
  /\ change' = NoChange
  /\ UNCHANGED <<live, fact, v8, rows, pass, passes, reviewed, forward, told, slipped, stops>>

----------------------------------------------------------------------------
(* The v8 rebaseline: preview, reviewed digest, apply. *)

Gains(o) == o \in live \cap Tracked /\ Fields(o).capacity /\ ~rows[o].fields.capacity

\* A genuine change that coincides with v8 blocks the plan.
Mixed == {o \in Opps : Gains(o) /\ rows[o].fields.fact # fact[o]}

\* Eligible rows, as the digest covers them.
Plan == {[id |-> o, previous |-> rows[o].fields, proposed |-> Fields(o), seen |-> rows[o].seen] :
           o \in {x \in Opps : Gains(x)} \ Mixed}

PlanIds == {e.id : e \in Plan}

Review ==
  /\ Rebaselines /\ change.pc = "idle" /\ Mixed = {} /\ Plan # {} /\ reviewed' = Plan
  /\ UNCHANGED <<live, fact, v8, rows, pass, passes, change, forward, told, slipped, stops>>

\* apply_rebaseline plans again and compares digests, then calls the engine,
\* which reads the universe and the rows once more.
CheckDigest ==
  /\ change.pc = "idle" /\ Mixed = {} /\ Plan # {} /\ Plan = reviewed
  /\ change' = [NoChange EXCEPT !.pc = "checked", !.ids = PlanIds]
  /\ UNCHANGED <<live, fact, v8, rows, pass, passes, reviewed, forward, told, slipped, stops>>

LoadRebaseline ==
  /\ change.pc = "checked" /\ change.ids \subseteq live \cap Tracked
  /\ LoadTransition(change.ids, {}, reviewed)
  /\ slipped' = slipped \cup {e.id : e \in {x \in reviewed : x.proposed.fact # fact[x.id]}}
  /\ UNCHANGED <<live, fact, v8, rows, pass, passes, reviewed, forward, told, stops>>

\* apply_restore: every row still at what the rebaseline wrote.
AtPostState == \A e \in forward : rows[e.id].fields = e.proposed

CheckRestore ==
  /\ change.pc = "idle" /\ forward # {} /\ AtPostState
  /\ change' = [NoChange EXCEPT !.pc = "restore", !.loaded = rows]
  /\ UNCHANGED <<live, fact, v8, rows, pass, passes, reviewed, forward, told, slipped, stops>>

CommitRestore ==
  /\ change.pc = "restore"
  /\ rows' = [o \in Opps |->
       IF \E e \in forward : e.id = o
       THEN LET e == CHOOSE x \in forward : x.id = o IN
            [rows[o] EXCEPT !.fields = e.previous, !.seen = e.seen]
       ELSE rows[o]]
  /\ change' = NoChange /\ forward' = {}
  /\ UNCHANGED <<live, fact, v8, pass, passes, reviewed, told, slipped, stops>>

----------------------------------------------------------------------------
Sync(s) == ReadUniverse(s) \/ ReadRows(s) \/ CommitPass(s)

World == \E o \in Opps : EvidenceChanges(o) \/ Opens(o) \/ Closes(o)

Operator ==
  \/ \E m \in Manifests : BeginTransition(m)
  \/ CommitTransition \/ TransitionFails
  \/ Review \/ CheckDigest \/ LoadRebaseline \/ CheckRestore \/ CommitRestore

MonitoringNext ==
  \/ World \/ Deploy \/ Operator
  \/ \E s \in Syncs : Sync(s) \/ PassFails(s)

MonitoringSpec == MonitoringInit /\ [][MonitoringNext]_monitoringVars

(***************************************************************************)
(* Properties.                                                             *)
(***************************************************************************)
FieldSet  == [fact : 0..MaxFact, capacity : BOOLEAN]
Row       == [fields : FieldSet, seen : 0..MaxPasses,
              cls : {"BASELINE_EXISTING", "NEW", "MATERIALLY_CHANGED", "UNCHANGED"}]
Tables    == [Opps -> Row \cup {NoRow}]
Snapshots == UNION {[os -> FieldSet] : os \in SUBSET Opps}
Entries   == [id : Opps, previous : FieldSet, proposed : FieldSet, seen : 0..MaxPasses]

PassWork ==
  [pc : {"idle", "universe", "plan"}, universe : Snapshots \cup {<<>>},
   loaded : Tables \cup {<<>>}, baseline : SUBSET Opps, at : 0..MaxPasses]

ChangeWork ==
  [pc : {"idle", "load", "checked", "restore"}, universe : Snapshots \cup {<<>>},
   loaded : Tables \cup {<<>>}, ids : SUBSET Opps, new : SUBSET Opps, entries : SUBSET Entries]

\* Type correctness of the rows and of the work of each process.
MonitoringTypeOK ==
  /\ live \subseteq Opps /\ fact \in [Opps -> 0..MaxFact] /\ v8 \in BOOLEAN
  /\ rows \in Tables /\ passes \in 0..MaxPasses /\ stops \in 0..MaxStops
  /\ pass \in [Syncs -> PassWork] /\ change \in ChangeWork
  /\ \A s \in Syncs :
       /\ pass[s].pc # "idle" => pass[s].universe \in Snapshots
       /\ pass[s].pc = "plan" => pass[s].loaded \in Tables
  /\ reviewed \subseteq Entries /\ forward \subseteq Entries
  /\ told \in [Opps -> SUBSET (0..MaxFact)] /\ slipped \subseteq Opps

\* Evidence is not absorbed in silence: what a row takes for known was reported, however
\* passes, transitions, rebaseline, rollback and failures overlap.  The one gap is the
\* rebaseline's own: what changed after its digest was checked and before its engine read
\* the universe again (classify_opportunity_change; v8_monitoring_rebaseline.py:13).
Known(o, f) == f \in told[o] \/ o \in slipped

NoSilentChange == \A o \in Tracked : Known(o, rows[o].fields.fact)

\* A change that was reported stays visible until a pass has seen it
\* (_resolve_ownership_or_control_evidence_changed reads the classification).
ReportStays ==
  [][\A o \in Opps : (rows[o].cls = "MATERIALLY_CHANGED" /\ rows'[o].cls = "UNCHANGED") =>
        \E s \in Syncs : pass[s].pc = "plan" /\ pass'[s].pc = "idle"
                         /\ pass[s].loaded[o].fields = rows[o].fields]_monitoringVars

\* A routine pass leaves its mark on every row it saw (models.py:2971).
SeenEveryPass ==
  [][\A s \in Syncs : (pass[s].pc = "plan" /\ pass'[s].pc = "idle" /\ stops' = stops) =>
        \A o \in DOMAIN pass[s].universe : rows'[o].seen >= pass[s].at]_monitoringVars

\* The rollback writes only over what the rebaseline wrote (apply_restore).
RestoresItsOwn ==
  [][(change.pc = "restore" /\ forward' # forward) => AtPostState]_monitoringVars

----------------------------------------------------------------------------
(* The inductive invariant behind NoSilentChange. *)

\* A row never disappears: what a pass or a command has loaded is still there.
LoadedStays ==
  /\ \A s \in Syncs : pass[s].pc = "plan" =>
       \A o \in Opps : pass[s].loaded[o] # NoRow => rows[o] # NoRow
  /\ change.pc = "load" => \A o \in Opps : change.loaded[o] # NoRow => rows[o] # NoRow

\* The rebaseline changes the capacity that is recorded, and no evidence; what it found in a
\* row was known.
EntriesKeepFacts ==
  \A e \in reviewed \cup forward \cup change.entries :
    rows[e.id] # NoRow /\ e.previous.fact = e.proposed.fact /\ Known(e.id, e.previous.fact)

\* A command writes what it has read of rows that were there; a rebaseline, evidence that was
\* known when its digest was checked, or that slipped in after it.
ChangeIsRead ==
  /\ change.pc = "checked" =>
       reviewed # {} /\ change.ids = {e.id : e \in reviewed}
  /\ change.pc = "load" =>
       /\ change.universe \in Snapshots /\ change.loaded \in Tables
       /\ change.ids \cup change.new \subseteq DOMAIN change.universe
       /\ \A o \in change.ids : change.loaded[o] # NoRow
       /\ change.entries # {} =>
            change.new = {} /\ \A o \in change.ids : Known(o, change.universe[o].fact)

(* How rows, passes and commands hang together in every reachable state. *)
MonitoringInv ==
  /\ MonitoringTypeOK
  /\ LoadedStays
  /\ EntriesKeepFacts
  /\ ChangeIsRead
  /\ NoSilentChange
=============================================================================
