----------------------------- MODULE PositionProofs -----------------------------
(* What is said of the affordable housing of an application, what is taken for known *)
(* of an opportunity, and what is told of a site, for any documents, answers,        *)
(* opportunities, syncs and applications.                                            *)
EXTENDS AffordablePosition, OpportunityMonitoring, PlanningPosition, TLAPS,
        FiniteSetTheorems, WellFoundedInduction

(* The four guards keep the form of an answer; the last three leave its percentage,    *)
(* and security that was not there passes them only with an authoritative document.    *)
LEMMA GuardsKeep ==
  ASSUME TypeOK, NEW new \in Answers
  PROVE  /\ Guarded(new) \in Answers
         /\ Guarded(new).pct = guard_legally_secured_position(new).pct
         /\ Secured(Guarded(new)) =>
              \/ Secured(position)
              \/ \E d \in documents \cap Secures : LegallyAuthoritative(d)
<1>. DEFINE a == guard_legally_secured_position(new)
            b == guard_mixed_legal_security_position(a)
            c == guard_legally_secured_requires_authoritative_content(b)
            g == guard_conditioned_status_requires_an_actual_condition(c)
<1>1. a \in Answers
  <2>1. CASE Secured(position)
    <3>1. /\ "legally_secured" \in Statuses /\ TRUE \in BOOLEAN
          /\ position.pct \in Percentages /\ position.notes \in Notes
      BY DEF TypeOK, Statuses
    <3>. QED
      BY <3>1 DEF guard_legally_secured_position, Answers
  <2>2. CASE ~Secured(position)
    BY <2>2 DEF guard_legally_secured_position
  <2>. QED
    BY <2>1, <2>2
<1>. HIDE DEF a
<1>2. b \in Answers /\ b.pct = a.pct
  BY <1>1 DEF guard_mixed_legal_security_position, Answers, Statuses
<1>. HIDE DEF b
<1>3. /\ c \in Answers /\ c.pct = b.pct
      /\ Secured(c) => \/ Secured(position)
                       \/ \E d \in documents \cap Secures : LegallyAuthoritative(d)
  BY <1>2 DEF guard_legally_secured_requires_authoritative_content, Answers, Statuses, Secured
<1>. HIDE DEF c
<1>4. g \in Answers /\ g.pct = c.pct /\ (Secured(g) => Secured(c))
  BY <1>3 DEF guard_conditioned_status_requires_an_actual_condition, Answers, Statuses, Secured
<1>5. Guarded(new) = g
  BY DEF Guarded, a, b, c
<1>. QED
  BY <1>2, <1>3, <1>4, <1>5 DEF a

(* A refresh stores a position of the right form, called secured only as the guards    *)
(* left it.                                                                            *)
LEMMA StoredKeeps ==
  ASSUME TypeOK, NEW new \in Answers
  PROVE  /\ Stored(new) \in [status : Statuses \cup {"null"}, pct : Percentages, notes : Notes]
         /\ Secured(Stored(new)) = Secured(new)
         /\ Stored(new).pct = IF new.pct # 0 THEN new.pct ELSE position.pct
BY DEF Stored, Answers, TypeOK, Notes, Secured

(* Documents, reason, position and last answer keep their types                        *)
(* (intelligence_refresh).                                                             *)
THEOREM PositionTyped == ASSUME ValueAssumption PROVE Spec => []TypeOK
<1>1. Init => TypeOK
  BY DEF Init, TypeOK, ValueAssumption, NoAnswer, Notes
<1>2. TypeOK /\ [Next]_vars => TypeOK'
  <2>. SUFFICES ASSUME TypeOK, [Next]_vars PROVE TypeOK'
    OBVIOUS
  <2>1. ASSUME NEW new \in Answers, Refresh(new) PROVE TypeOK'
    <3>1. position' \in [status : Statuses \cup {"null"}, pct : Percentages, notes : Notes]
      BY <2>1, GuardsKeep, StoredKeeps DEF Refresh
    <3>. QED
      BY <2>1, <3>1 DEF Refresh, TypeOK
  <2>2. ASSUME NEW d \in Docs, Acquire(d) PROVE TypeOK'
    BY <2>2 DEF Acquire, TypeOK
  <2>3. ASSUME NEW r \in Reasons, MaterialChange(r) PROVE TypeOK'
    BY <2>3 DEF MaterialChange, TypeOK
  <2>4. CASE UNCHANGED vars
    BY <2>4 DEF vars, TypeOK
  <2>. QED
    BY <2>1, <2>2, <2>3, <2>4 DEF Next
<1>. QED
  BY <1>1, <1>2, PTL DEF Spec

(* A position is called legally secured only if a stored S106 or decision notice       *)
(* itself secures affordable housing, through any refreshes and whatever they answer   *)
(* (guard_legally_secured_requires_authoritative_content).                             *)
THEOREM SecurityHasAnOrigin == ASSUME ValueAssumption PROVE Spec => []SecuredHasAnOrigin
<1>1. Init => SecuredHasAnOrigin
  BY DEF Init, SecuredHasAnOrigin, Secured
<1>2. TypeOK /\ SecuredHasAnOrigin /\ [Next]_vars => SecuredHasAnOrigin'
  <2>. SUFFICES ASSUME TypeOK, SecuredHasAnOrigin, [Next]_vars PROVE SecuredHasAnOrigin'
    OBVIOUS
  <2>1. ASSUME NEW new \in Answers, Refresh(new), Secured(position')
        PROVE  \E d \in stored' \cap Secures : LegallyAuthoritative(d)
    <3>1. Secured(Guarded(new)) /\ stored' = stored
      BY <2>1, GuardsKeep, StoredKeeps DEF Refresh
    <3>2. \/ Secured(position)
          \/ \E d \in documents \cap Secures : LegallyAuthoritative(d)
      BY <3>1, GuardsKeep
    <3>. QED
      BY <3>1, <3>2 DEF SecuredHasAnOrigin, documents
  <2>2. CASE \E new \in Answers : Refresh(new)
    BY <2>1, <2>2 DEF SecuredHasAnOrigin, LegallyAuthoritative
  <2>3. ASSUME UNCHANGED position, stored \subseteq stored' PROVE SecuredHasAnOrigin'
    BY <2>3 DEF SecuredHasAnOrigin, LegallyAuthoritative, Secured
  <2>4. CASE \/ \E d \in Docs : Acquire(d)
             \/ \E r \in Reasons : MaterialChange(r)
             \/ UNCHANGED vars
    <3>1. UNCHANGED position /\ stored \subseteq stored'
      BY <2>4 DEF Acquire, MaterialChange, vars
    <3>. QED
      BY <2>3, <3>1
  <2>. QED
    BY <2>2, <2>4 DEF Next
<1>. QED
  BY <1>1, <1>2, PositionTyped, PTL DEF Spec

(* Without an S106 or a decision notice in the evidence, an answer that does not claim *)
(* security itself leaves the percentage of a secured position                         *)
(* (guard_legally_secured_position, guard_mixed_legal_security_position).              *)
THEOREM PercentageStays ==
  ASSUME ValueAssumption PROVE Spec => LowerAuthorityKeepsThePercentage
<1>. DEFINE A == /\ position' # position /\ Secured(position) /\ ~Secured(said')
                 /\ ~\E d \in documents : LegallyAuthoritative(d)
                 => position'.pct = position.pct
<1>1. TypeOK /\ [Next]_vars => [A]_vars
  <2>. SUFFICES ASSUME TypeOK, Next, position' # position, Secured(position), ~Secured(said'),
                       ~\E d \in documents : LegallyAuthoritative(d)
                PROVE  position'.pct = position.pct
    OBVIOUS
  <2>1. PICK new \in Answers : Refresh(new)
    BY DEF Next, Acquire, MaterialChange
  <2>2. guard_legally_secured_position(new).pct = position.pct
    BY <2>1 DEF Refresh, guard_legally_secured_position
  <2>3. Guarded(new) \in Answers /\ Guarded(new).pct = position.pct
    BY <2>2, GuardsKeep
  <2>. QED
    BY <2>1, <2>3, StoredKeeps DEF Refresh
<1>. QED
  BY <1>1, PositionTyped, PTL DEF Spec, LowerAuthorityKeepsThePercentage

-----------------------------------------------------------------------------
(* The monitoring of opportunities.                                                    *)

\* What a row that exists looks like, and what one that does not.
LEMMA RowOrNone ==
  ASSUME MonitoringTypeOK, NEW o \in Opps
  PROVE  /\ rows[o] # NoRow => rows[o] \in Row
         /\ rows[o] = NoRow => rows[o].fields = <<>> /\ rows[o].cls = "none"
BY DEF MonitoringTypeOK, Tables, NoRow

(* Nor is such a row itself the record of no row.                                      *)
LEMMA RowIsSomething == ASSUME NEW r \in Row PROVE r # NoRow
BY DEF Row, NoRow

\* The fields of a row are never the empty ones of no row.
LEMMA FieldsAreSomething == ASSUME NEW f \in FieldSet PROVE f # <<>>
<1>1. "fact" \in DOMAIN f
  BY DEF FieldSet
<1>2. DOMAIN <<>> = 1..0
  OBVIOUS
<1>. QED
  BY <1>1, <1>2

(* The universe that is read now, and its type.                                        *)
LEMMA UniverseTyped ==
  ASSUME MonitoringTypeOK
  PROVE  /\ \A o \in Opps : Fields(o) \in FieldSet /\ Fields(o).fact = fact[o]
         /\ Universe \in Snapshots /\ DOMAIN Universe = live
         /\ \A o \in live : Universe[o] = Fields(o)
<1>1. \A o \in Opps : Fields(o) \in FieldSet /\ Fields(o).fact = fact[o]
  BY DEF Fields, FieldSet, MonitoringTypeOK
<1>2. Universe \in [live -> FieldSet]
  BY <1>1 DEF Universe, MonitoringTypeOK
<1>3. DOMAIN Universe = live /\ \A o \in live : Universe[o] = Fields(o)
  BY DEF Universe
<1>. QED
  BY <1>1, <1>2, <1>3 DEF Snapshots, MonitoringTypeOK

(* A snapshot has fields for what it names.                                            *)
LEMMA SnapshotFields ==
  ASSUME NEW u \in Snapshots
  PROVE  DOMAIN u \subseteq Opps /\ \A o \in DOMAIN u : u[o] \in FieldSet
BY DEF Snapshots

(* What a flush leaves in a row: the new fields where they differ from the loaded ones. *)
LEMMA FlushedRow ==
  ASSUME MonitoringTypeOK, NEW o \in Opps, NEW loaded \in Row \cup {NoRow}, NEW fields \in FieldSet,
         NEW cls \in {"BASELINE_EXISTING", "NEW", "MATERIALLY_CHANGED", "UNCHANGED"},
         NEW at \in 0..MaxPasses, loaded # NoRow => rows[o] # NoRow
  PROVE  /\ Flushed(o, loaded, fields, cls, at) \in Row
         /\ Flushed(o, loaded, fields, cls, at).fields =
              IF fields # loaded.fields THEN fields ELSE rows[o].fields
<1>. DEFINE f == IF fields # loaded.fields THEN fields ELSE rows[o].fields
            c == IF cls # loaded.cls THEN cls ELSE rows[o].cls
            s == IF fields # loaded.fields \/ cls # loaded.cls THEN at ELSE rows[o].seen
<1>1. loaded = NoRow => fields # loaded.fields /\ cls # loaded.cls
  BY FieldsAreSomething DEF NoRow
<1>2. loaded # NoRow => rows[o] \in Row
  BY RowOrNone
<1>3. f \in FieldSet
  BY <1>1, <1>2 DEF Row
<1>4. c \in {"BASELINE_EXISTING", "NEW", "MATERIALLY_CHANGED", "UNCHANGED"}
  BY <1>1, <1>2 DEF Row
<1>5. s \in 0..MaxPasses
  BY <1>1, <1>2 DEF Row
<1>6. Flushed(o, loaded, fields, cls, at) = [fields |-> f, cls |-> c, seen |-> s]
  BY DEF Flushed
<1>. HIDE DEF f, c, s
<1>7. [fields |-> f, cls |-> c, seen |-> s] \in Row
  BY <1>3, <1>4, <1>5 DEF Row
<1>8. [fields |-> f, cls |-> c, seen |-> s].fields = f
  OBVIOUS
<1>. QED
  BY <1>6, <1>7, <1>8 DEF f

(* Before the first pass nothing is stored, loaded or planned.                         *)
LEMMA MonitoringInitInv == ASSUME MonitoringAssumption, MonitoringInit PROVE MonitoringInv
<1>1. /\ rows \in Tables /\ passes \in 0..MaxPasses /\ stops \in 0..MaxStops /\ v8 \in BOOLEAN
      /\ fact \in [Opps -> 0..MaxFact] /\ told \in [Opps -> SUBSET (0..MaxFact)]
  <2>1. 0 \in 0..MaxPasses /\ 0 \in 0..MaxStops /\ 0 \in 0..MaxFact
    BY DEF MonitoringAssumption
  <2>. QED
    BY <2>1 DEF MonitoringInit, Tables
<1>2. NoPass \in PassWork /\ NoPass.pc = "idle"
  BY DEF NoPass, PassWork, MonitoringAssumption
<1>3. NoChange \in ChangeWork /\ NoChange.pc = "idle" /\ NoChange.entries = {}
  BY DEF NoChange, ChangeWork
<1>4. pass = [s \in Syncs |-> NoPass] /\ change = NoChange /\ reviewed = {} /\ forward = {}
      /\ live \subseteq Opps /\ slipped = {} /\ \A o \in Opps : rows[o] = NoRow
  BY DEF MonitoringInit
<1>5. MonitoringTypeOK
  BY <1>1, <1>2, <1>3, <1>4 DEF MonitoringTypeOK
<1>6. LoadedStays /\ ChangeIsRead /\ EntriesKeepFacts
  BY <1>2, <1>3, <1>4 DEF LoadedStays, ChangeIsRead, EntriesKeepFacts
<1>7. NoSilentChange
  BY <1>4 DEF NoSilentChange, Tracked
<1>. QED
  BY <1>5, <1>6, <1>7 DEF MonitoringInv

----------------------------------------------------------------------------
(* One step. *)

(* What the world does to evidence and universe keeps everything.                      *)
LEMMA WorldKeeps ==
  ASSUME MonitoringInv, live' \subseteq Opps, v8' \in BOOLEAN, fact' \in [Opps -> 0..MaxFact],
         UNCHANGED <<rows, pass, passes, change, reviewed, forward, told, slipped, stops>>
  PROVE  MonitoringInv'
<1>1. MonitoringTypeOK'
  BY DEF MonitoringInv, MonitoringTypeOK
<1>2. LoadedStays' /\ EntriesKeepFacts' /\ NoSilentChange'
  BY DEF MonitoringInv, LoadedStays, EntriesKeepFacts, NoSilentChange, Tracked, Known
<1>3. ChangeIsRead'
  BY DEF MonitoringInv, ChangeIsRead, Known
<1>. QED
  BY <1>1, <1>2, <1>3 DEF MonitoringInv

(* So does a step of one pass that writes no row.                                      *)
LEMMA PassKeeps ==
  ASSUME MonitoringInv, NEW s \in Syncs, NEW work \in PassWork,
         pass' = [pass EXCEPT ![s] = work],
         UNCHANGED <<live, fact, v8, rows, change, reviewed, forward, told, slipped>>,
         passes' \in 0..MaxPasses, stops' \in 0..MaxStops,
         work.pc # "idle" => work.universe \in Snapshots,
         work.pc = "plan" => work.loaded = rows
  PROVE  MonitoringInv'
<1>1. /\ pass' \in [Syncs -> PassWork] /\ pass'[s] = work
      /\ \A r \in Syncs : r # s => pass'[r] = pass[r]
  BY DEF MonitoringInv, MonitoringTypeOK
<1>2. MonitoringTypeOK'
  BY <1>1 DEF MonitoringInv, MonitoringTypeOK
<1>3. LoadedStays'
  BY <1>1 DEF MonitoringInv, LoadedStays
<1>4. EntriesKeepFacts' /\ NoSilentChange' /\ ChangeIsRead'
  BY DEF MonitoringInv, EntriesKeepFacts, NoSilentChange, ChangeIsRead, Tracked, Known
<1>. QED
  BY <1>2, <1>3, <1>4 DEF MonitoringInv

(* What a committed pass leaves of one row: new fields are reported, the others were    *)
(* known.                                                                              *)
LEMMA CommittedRow ==
  ASSUME MonitoringInv, NEW s \in Syncs, CommitPass(s), NEW o \in Opps
  PROVE  /\ rows'[o] \in Row \cup {NoRow}
         /\ told[o] \subseteq told'[o] /\ told'[o] \subseteq 0..MaxFact
         /\ rows[o] # NoRow => rows'[o] # NoRow
         /\ rows'[o] # NoRow => rows'[o].fields.fact \in told'[o] \/ o \in slipped'
<1>. DEFINE p == pass[s]
            cls == Classify(p, o)
            row == Flushed(o, p.loaded[o], p.universe[o], cls, p.at)
<1>1. /\ p \in PassWork /\ p.universe \in Snapshots /\ p.loaded \in Tables
      /\ p.loaded[o] # NoRow => rows[o] # NoRow
      /\ told[o] \subseteq 0..MaxFact /\ rows[o] \in Row \cup {NoRow}
      /\ rows[o] # NoRow => Known(o, rows[o].fields.fact)
      /\ MonitoringTypeOK
  BY DEF MonitoringInv, MonitoringTypeOK, LoadedStays, CommitPass, NoSilentChange, Tracked, Tables
<1>2. /\ rows'[o] = IF o \in DOMAIN p.universe THEN row ELSE rows[o]
      /\ told'[o] = IF o \in DOMAIN p.universe /\ cls # "UNCHANGED"
                    THEN told[o] \cup {p.universe[o].fact} ELSE told[o]
      /\ slipped' = slipped
  BY DEF CommitPass
<1>3. CASE o \notin DOMAIN p.universe
  BY <1>1, <1>2, <1>3 DEF Known
<1>4. CASE o \in DOMAIN p.universe
  <2>1. p.universe[o] \in FieldSet /\ p.loaded[o] \in Row \cup {NoRow}
    BY <1>1, <1>4, SnapshotFields DEF Tables
  <2>2. cls \in {"BASELINE_EXISTING", "NEW", "MATERIALLY_CHANGED", "UNCHANGED"}
    BY DEF Classify
  <2>3. p.loaded[o] = NoRow => p.universe[o] # p.loaded[o].fields
    BY <2>1, FieldsAreSomething DEF NoRow
  <2>4. cls = "UNCHANGED" <=> p.universe[o] = p.loaded[o].fields
    BY <2>3 DEF Classify
  <2>. HIDE DEF cls
  <2>5. /\ row \in Row
        /\ row.fields = IF p.universe[o] # p.loaded[o].fields THEN p.universe[o] ELSE rows[o].fields
    <3>1. p.at \in 0..MaxPasses
      BY <1>1 DEF PassWork
    <3>. QED
      BY <1>1, <2>1, <2>2, <3>1, FlushedRow
  <2>6. rows'[o] = row /\ row # NoRow
    BY <1>2, <1>4, <2>5, RowIsSomething
  <2>7. p.universe[o].fact \in 0..MaxFact
    BY <2>1 DEF FieldSet
  <2>. HIDE DEF row
  <2>8. CASE cls = "UNCHANGED"
    BY <1>1, <1>2, <2>3, <2>4, <2>5, <2>6, <2>8 DEF Known
  <2>9. CASE cls # "UNCHANGED"
    BY <1>1, <1>2, <1>4, <2>4, <2>5, <2>6, <2>7, <2>9 DEF Known
  <2>. QED
    BY <2>8, <2>9
<1>. QED
  BY <1>3, <1>4

(* A step that writes rows: nothing that exists disappears, and what a row then takes   *)
(* for known is.  Other passes, and a command if a pass writes, go on as they were.     *)
LEMMA WritingKeeps ==
  ASSUME MonitoringInv, pass' \in [Syncs -> PassWork], change' \in ChangeWork,
         UNCHANGED <<live, fact, v8, passes, reviewed, slipped, stops>>,
         rows' = [o \in Opps |-> rows'[o]], told' = [o \in Opps |-> told'[o]],
         \A o \in Opps :
           /\ rows'[o] \in Row \cup {NoRow}
           /\ told[o] \subseteq told'[o] /\ told'[o] \subseteq 0..MaxFact
           /\ rows[o] # NoRow => rows'[o] # NoRow
           /\ rows'[o] # NoRow => rows'[o].fields.fact \in told'[o] \/ o \in slipped',
         \A s \in Syncs : pass'[s].pc = "idle" \/ pass'[s] = pass[s],
         change' = change \/ (change'.pc = "idle" /\ change'.entries = {}),
         forward' \subseteq forward \cup change.entries
  PROVE  MonitoringInv'
<1>1. rows' \in Tables /\ told' \in [Opps -> SUBSET (0..MaxFact)]
  BY DEF Tables
<1>2. forward' \subseteq Entries
  BY DEF MonitoringInv, MonitoringTypeOK, ChangeWork
<1>3. MonitoringTypeOK'
  BY <1>1, <1>2 DEF MonitoringInv, MonitoringTypeOK
<1>4. LoadedStays'
  BY DEF MonitoringInv, LoadedStays
<1>5. \A o \in Opps : \A f : Known(o, f) => f \in told'[o] \/ o \in slipped'
  BY DEF Known
<1>6. EntriesKeepFacts'
  <2>1. ASSUME NEW e \in reviewed' \cup forward' \cup change'.entries
        PROVE  /\ rows'[e.id] # NoRow /\ e.previous.fact = e.proposed.fact
               /\ (e.previous.fact \in told'[e.id] \/ e.id \in slipped')
    <3>1. e \in reviewed \cup forward \cup change.entries
      OBVIOUS
    <3>2. e.id \in Opps
      BY <3>1 DEF MonitoringInv, MonitoringTypeOK, ChangeWork, Entries
    <3>3. rows[e.id] # NoRow /\ e.previous.fact = e.proposed.fact /\ Known(e.id, e.previous.fact)
      BY <3>1 DEF MonitoringInv, EntriesKeepFacts
    <3>. QED
      BY <1>5, <3>2, <3>3
  <2>. QED
    BY <2>1 DEF EntriesKeepFacts, Known
<1>7. ChangeIsRead'
  <2>1. CASE change' = change
    <3>1. change.ids \subseteq Opps
      BY DEF MonitoringInv, MonitoringTypeOK, ChangeWork
    <3>2. change'.pc = "load" /\ change'.entries # {} =>
            \A o \in change'.ids : change'.universe[o].fact \in told'[o] \/ o \in slipped'
      BY <1>5, <2>1, <3>1 DEF MonitoringInv, ChangeIsRead
    <3>. QED
      BY <2>1, <3>2 DEF MonitoringInv, ChangeIsRead, Known
  <2>2. CASE change'.pc = "idle"
    BY <2>2 DEF ChangeIsRead
  <2>. QED
    BY <2>1, <2>2
<1>8. NoSilentChange'
  BY DEF NoSilentChange, Tracked, Known
<1>. QED
  BY <1>3, <1>4, <1>6, <1>7, <1>8 DEF MonitoringInv

(* A pass that commits (sync_opportunity_monitoring_state).                            *)
LEMMA CommitPassKeeps ==
  ASSUME MonitoringAssumption, MonitoringInv, NEW s \in Syncs, CommitPass(s) PROVE MonitoringInv'
<1>1. /\ pass' = [pass EXCEPT ![s] = NoPass]
      /\ rows' = [o \in Opps |-> rows'[o]] /\ told' = [o \in Opps |-> told'[o]]
      /\ UNCHANGED <<live, fact, v8, passes, change, reviewed, forward, slipped, stops>>
  BY DEF CommitPass
<1>2. pass \in [Syncs -> PassWork] /\ change \in ChangeWork
  BY DEF MonitoringInv, MonitoringTypeOK
<1>3. NoPass \in PassWork /\ NoPass.pc = "idle"
  BY DEF MonitoringAssumption, NoPass, PassWork
<1>4. /\ pass' \in [Syncs -> PassWork]
      /\ \A r \in Syncs : pass'[r].pc = "idle" \/ pass'[r] = pass[r]
  BY <1>1, <1>2, <1>3
<1>. QED
  BY <1>1, <1>2, <1>4, CommittedRow, WritingKeeps

(* The other steps of a pass.                                                          *)
LEMMA PassStepKeeps ==
  ASSUME MonitoringAssumption, MonitoringInv, NEW s \in Syncs,
         ReadUniverse(s) \/ ReadRows(s) \/ PassFails(s)
  PROVE  MonitoringInv'
<1>1. /\ MonitoringTypeOK /\ pass[s] \in PassWork /\ passes \in 0..MaxPasses
      /\ stops \in 0..MaxStops /\ rows \in Tables
  BY DEF MonitoringInv, MonitoringTypeOK
<1>2. CASE ReadUniverse(s)
  <2>. DEFINE work == [NoPass EXCEPT !.pc = "universe", !.universe = Universe, !.at = passes']
  <2>1. passes' \in 0..MaxPasses
    BY <1>1, <1>2 DEF ReadUniverse, MonitoringAssumption
  <2>2. work \in PassWork /\ work.pc = "universe" /\ work.universe = Universe
    BY <1>1, <2>1, UniverseTyped DEF NoPass, PassWork
  <2>3. /\ pass' = [pass EXCEPT ![s] = work]
        /\ UNCHANGED <<live, fact, v8, rows, change, reviewed, forward, told, slipped, stops>>
    BY <1>2 DEF ReadUniverse
  <2>. HIDE DEF work
  <2>. QED
    BY <1>1, <2>1, <2>2, <2>3, UniverseTyped, PassKeeps
<1>3. CASE ReadRows(s)
  <2>. DEFINE base == {o \in DOMAIN pass[s].universe : Detector[o] \notin Established}
              work == [pass[s] EXCEPT !.pc = "plan", !.loaded = rows, !.baseline = base]
  <2>1. pass[s].pc = "universe" /\ pass[s].universe \in Snapshots
    BY <1>3 DEF ReadRows, MonitoringInv, MonitoringTypeOK
  <2>2. base \subseteq Opps
    BY <2>1, SnapshotFields
  <2>. HIDE DEF base
  <2>3. /\ work \in PassWork /\ work.pc = "plan" /\ work.loaded = rows
        /\ work.universe \in Snapshots
    BY <1>1, <2>1, <2>2 DEF PassWork
  <2>4. /\ pass' = [pass EXCEPT ![s] = work]
        /\ UNCHANGED <<live, fact, v8, rows, passes, change, reviewed, forward, told, slipped, stops>>
    BY <1>3 DEF ReadRows, base
  <2>. HIDE DEF work
  <2>. QED
    BY <1>1, <2>3, <2>4, PassKeeps
<1>4. CASE PassFails(s)
  <2>1. NoPass \in PassWork /\ NoPass.pc = "idle"
    BY DEF MonitoringAssumption, NoPass, PassWork
  <2>2. /\ pass' = [pass EXCEPT ![s] = NoPass] /\ stops' \in 0..MaxStops
        /\ UNCHANGED <<live, fact, v8, rows, passes, change, reviewed, forward, told, slipped>>
    BY <1>1, <1>4 DEF PassFails, MonitoringAssumption
  <2>. QED
    BY <1>1, <2>1, <2>2, PassKeeps
<1>. QED
  BY <1>2, <1>3, <1>4

(* The operator: reading a plan or a state writes no row.                              *)
LEMMA CommandKeeps ==
  ASSUME MonitoringInv, change' \in ChangeWork,
         UNCHANGED <<live, fact, v8, rows, pass, passes, reviewed, forward, told, stops>>,
         slipped \subseteq slipped', slipped' \subseteq Opps,
         ChangeIsRead', change'.pc = "load" => change'.loaded = rows,
         change'.entries \subseteq reviewed
  PROVE  MonitoringInv'
<1>1. MonitoringTypeOK'
  BY DEF MonitoringInv, MonitoringTypeOK
<1>2. LoadedStays' /\ NoSilentChange'
  BY DEF MonitoringInv, LoadedStays, NoSilentChange, Tracked, Known
<1>3. EntriesKeepFacts'
  BY DEF MonitoringInv, EntriesKeepFacts, Known
<1>. QED
  BY <1>1, <1>2, <1>3 DEF MonitoringInv

(* What the plan of the rebaseline says.                                               *)
LEMMA PlanKeepsFacts ==
  ASSUME MonitoringTypeOK, NoSilentChange, Mixed = {}
  PROVE  /\ Plan \subseteq Entries
         /\ \A e \in Plan : /\ rows[e.id] # NoRow /\ e.previous.fact = e.proposed.fact
                            /\ Known(e.id, e.previous.fact)
         /\ PlanIds \subseteq Opps
<1>1. ASSUME NEW o \in Opps, Gains(o)
      PROVE  /\ rows[o] # NoRow /\ rows[o] \in Row /\ Fields(o) \in FieldSet
             /\ rows[o].fields.fact = fact[o] /\ Fields(o).fact = fact[o]
             /\ Known(o, rows[o].fields.fact)
  BY <1>1, RowOrNone, UniverseTyped DEF Gains, Tracked, Mixed, NoSilentChange
<1>2. ASSUME NEW e \in Plan
      PROVE  /\ e \in Entries /\ rows[e.id] # NoRow /\ e.previous.fact = e.proposed.fact
             /\ Known(e.id, e.previous.fact)
  <2>1. PICK o \in Opps : /\ Gains(o)
                          /\ e = [id |-> o, previous |-> rows[o].fields, proposed |-> Fields(o),
                                  seen |-> rows[o].seen]
    BY DEF Plan
  <2>2. rows[o].fields \in FieldSet /\ rows[o].seen \in 0..MaxPasses
    BY <1>1, <2>1 DEF Row
  <2>3. e \in Entries
    BY <1>1, <2>1, <2>2 DEF Entries
  <2>. QED
    BY <1>1, <2>1, <2>3
<1>. QED
  BY <1>2 DEF PlanIds, Entries

(* A dry run of the rebaseline whose plan is reviewed.                                 *)
LEMMA ReviewKeeps ==
  ASSUME MonitoringInv, Review PROVE MonitoringInv'
<1>1. /\ change.pc = "idle" /\ Mixed = {} /\ reviewed' = Plan
      /\ UNCHANGED <<live, fact, v8, rows, pass, passes, change, forward, told, slipped, stops>>
  BY DEF Review
<1>2. change'.pc = "idle" /\ change' \in ChangeWork /\ Plan \subseteq Entries
  BY <1>1, PlanKeepsFacts DEF MonitoringInv, MonitoringTypeOK
<1>3. ChangeIsRead'
  BY <1>2 DEF ChangeIsRead
<1>4. EntriesKeepFacts'
  <2>1. \A e \in Plan : /\ rows[e.id] # NoRow /\ e.previous.fact = e.proposed.fact
                        /\ Known(e.id, e.previous.fact)
    BY <1>1, PlanKeepsFacts DEF MonitoringInv
  <2>. QED
    BY <1>1, <2>1 DEF MonitoringInv, EntriesKeepFacts, Known
<1>5. MonitoringTypeOK' /\ LoadedStays' /\ NoSilentChange'
  BY <1>1, <1>2 DEF MonitoringInv, MonitoringTypeOK, LoadedStays, NoSilentChange, Tracked, Known
<1>. QED
  BY <1>3, <1>4, <1>5 DEF MonitoringInv

(* The comparison of a plan with the reviewed one (apply_rebaseline, apply_restore).   *)
LEMMA CheckKeeps ==
  ASSUME MonitoringInv, CheckDigest \/ CheckRestore \/ TransitionFails PROVE MonitoringInv'
<1>1. /\ MonitoringTypeOK /\ NoSilentChange /\ reviewed \subseteq Entries /\ rows \in Tables
      /\ slipped \subseteq Opps
      /\ UNCHANGED <<live, fact, v8, rows, pass, passes, reviewed, forward, told, slipped, stops>>
  BY DEF MonitoringInv, MonitoringTypeOK, CheckDigest, CheckRestore, TransitionFails
<1>2. CASE CheckDigest
  <2>. DEFINE work == [NoChange EXCEPT !.pc = "checked", !.ids = PlanIds]
  <2>1. Mixed = {} /\ Plan # {} /\ Plan = reviewed /\ change' = work
    BY <1>2 DEF CheckDigest
  <2>2. /\ work \in ChangeWork /\ work.pc = "checked" /\ work.ids = PlanIds
        /\ work.entries = {}
    BY <1>1, <2>1, PlanKeepsFacts DEF NoChange, ChangeWork
  <2>. HIDE DEF work
  <2>3. ChangeIsRead'
    BY <1>1, <2>1, <2>2 DEF ChangeIsRead, PlanIds
  <2>. QED
    BY <1>1, <2>1, <2>2, <2>3, CommandKeeps
<1>3. CASE CheckRestore
  <2>. DEFINE work == [NoChange EXCEPT !.pc = "restore", !.loaded = rows]
  <2>1. change' = work
    BY <1>3 DEF CheckRestore
  <2>2. work \in ChangeWork /\ work.pc = "restore" /\ work.entries = {}
    BY <1>1 DEF NoChange, ChangeWork
  <2>. HIDE DEF work
  <2>3. ChangeIsRead'
    BY <2>1, <2>2 DEF ChangeIsRead
  <2>. QED
    BY <1>1, <2>1, <2>2, <2>3, CommandKeeps
<1>4. CASE TransitionFails
  <2>1. change' = NoChange
    BY <1>4 DEF TransitionFails
  <2>2. NoChange \in ChangeWork /\ NoChange.pc = "idle" /\ NoChange.entries = {}
    BY DEF NoChange, ChangeWork
  <2>3. ChangeIsRead'
    BY <2>1, <2>2 DEF ChangeIsRead
  <2>. QED
    BY <1>1, <2>1, <2>2, <2>3, CommandKeeps
<1>. QED
  BY <1>2, <1>3, <1>4

(* Loading a transition, for rows that exist and are in the universe, or are new in it. *)
LEMMA LoadKeeps ==
  ASSUME MonitoringInv, NEW ids \in SUBSET Opps, NEW new \in SUBSET Opps,
         NEW entries \in SUBSET reviewed, LoadTransition(ids, new, entries),
         UNCHANGED <<live, fact, v8, rows, pass, passes, reviewed, forward, told, stops>>,
         slipped \subseteq slipped', slipped' \subseteq Opps,
         ids \cup new \subseteq live, \A o \in ids : rows[o] # NoRow,
         entries # {} => new = {} /\ \A o \in ids : fact[o] \in told'[o] \/ o \in slipped'
  PROVE  MonitoringInv'
<1>. DEFINE work == [pc |-> "load", universe |-> Universe, loaded |-> rows, ids |-> ids,
                     new |-> new, entries |-> entries]
<1>1. /\ MonitoringTypeOK /\ reviewed \subseteq Entries /\ rows \in Tables
      /\ change' = work
  BY DEF MonitoringInv, MonitoringTypeOK, LoadTransition
<1>2. /\ work.pc = "load" /\ work.universe = Universe /\ work.loaded = rows /\ work.ids = ids
      /\ work.new = new /\ work.entries = entries
  OBVIOUS
<1>3. work \in ChangeWork
  BY <1>1, UniverseTyped DEF ChangeWork
<1>. HIDE DEF work
<1>4. /\ Universe \in Snapshots /\ DOMAIN Universe = live
      /\ \A o \in ids : Universe[o].fact = fact[o]
  BY <1>1, UniverseTyped
<1>5. change'.entries # {} =>
        \A o \in change'.ids : change'.universe[o].fact \in told'[o] \/ o \in slipped'
  BY <1>1, <1>2, <1>4 DEF Known
<1>6. ChangeIsRead'
  BY <1>1, <1>2, <1>4, <1>5 DEF ChangeIsRead, Known
<1>. QED
  BY <1>1, <1>2, <1>3, <1>6, CommandKeeps

(* The beginning of a command.  What the engine of the rebaseline reads is what its plan *)
(* compared, which was known, or has slipped in.                                        *)
LEMMA BeginKeeps ==
  ASSUME MonitoringAssumption, MonitoringInv,
         LoadRebaseline \/ \E m \in Manifests : BeginTransition(m)
  PROVE  MonitoringInv'
<1>0. slipped \subseteq Opps /\ reviewed \subseteq Entries /\ change \in ChangeWork
  BY DEF MonitoringInv, MonitoringTypeOK
<1>1. CASE LoadRebaseline
  <2>1. /\ change.pc = "checked" /\ change.ids \subseteq live \cap Tracked
        /\ LoadTransition(change.ids, {}, reviewed)
        /\ slipped' = slipped \cup {e.id : e \in {x \in reviewed : x.proposed.fact # fact[x.id]}}
        /\ UNCHANGED <<live, fact, v8, rows, pass, passes, reviewed, forward, told, stops>>
    BY <1>1 DEF LoadRebaseline
  <2>2. change.ids \in SUBSET Opps /\ \A o \in change.ids : rows[o] # NoRow
    BY <1>0, <2>1 DEF ChangeWork, Tracked
  <2>3. slipped' \subseteq Opps
    BY <1>0, <2>1 DEF Entries
  <2>4. ASSUME NEW o \in change.ids PROVE fact[o] \in told'[o] \/ o \in slipped'
    <3>1. PICK e \in reviewed : e.id = o
      BY <2>1 DEF MonitoringInv, ChangeIsRead
    <3>2. e.previous.fact = e.proposed.fact /\ Known(o, e.previous.fact)
      BY <3>1 DEF MonitoringInv, EntriesKeepFacts
    <3>. QED
      BY <2>1, <3>1, <3>2 DEF Known
  <2>. QED
    BY <2>1, <2>2, <2>3, <2>4, LoadKeeps
<1>2. ASSUME NEW m \in Manifests, BeginTransition(m) PROVE MonitoringInv'
  <2>1. /\ LoadTransition(m.rebaseline, m.replacement, {})
        /\ m.rebaseline \cup m.replacement \subseteq live
        /\ \A o \in m.rebaseline : rows[o] # NoRow
        /\ UNCHANGED <<live, fact, v8, rows, pass, passes, reviewed, forward, told, slipped, stops>>
    BY <1>2 DEF BeginTransition, Valid, Tracked
  <2>2. m.rebaseline \in SUBSET Opps /\ m.replacement \in SUBSET Opps
    BY DEF MonitoringAssumption
  <2>. QED
    BY <1>0, <2>1, <2>2, LoadKeeps
<1>. QED
  BY <1>1, <1>2

(* What a committed transition or rebaseline leaves of one row.                         *)
LEMMA TransitionedRow ==
  ASSUME MonitoringInv, CommitTransition, NEW o \in Opps
  PROVE  /\ rows'[o] \in Row \cup {NoRow}
         /\ told[o] \subseteq told'[o] /\ told'[o] \subseteq 0..MaxFact
         /\ rows[o] # NoRow => rows'[o] # NoRow
         /\ rows'[o] # NoRow => rows'[o].fields.fact \in told'[o] \/ o \in slipped'
<1>. DEFINE fresh == [fields |-> change.universe[o], cls |-> "BASELINE_EXISTING", seen |-> passes]
            moved == Flushed(o, change.loaded[o], change.universe[o], change.loaded[o].cls, passes)
<1>1. /\ MonitoringTypeOK /\ rows[o] \in Row \cup {NoRow} /\ told[o] \subseteq 0..MaxFact
      /\ passes \in 0..MaxPasses
      /\ rows[o] # NoRow => Known(o, rows[o].fields.fact)
  BY DEF MonitoringInv, MonitoringTypeOK, Tables, NoSilentChange, Tracked
<1>2. /\ change.loaded \in Tables /\ change.universe \in Snapshots
      /\ change.ids \cup change.new \subseteq DOMAIN change.universe
      /\ \A x \in change.ids : change.loaded[x] # NoRow
      /\ change.loaded[o] # NoRow => rows[o] # NoRow
      /\ change.entries # {} =>
           /\ change.new = {}
           /\ \A x \in change.ids : Known(x, change.universe[x].fact)
  BY DEF CommitTransition, MonitoringInv, ChangeIsRead, LoadedStays
<1>3. o \notin change.new \/ o \notin change.ids
  BY <1>2 DEF CommitTransition, Tracked
<1>4. /\ rows'[o] = CASE o \in change.new -> fresh [] o \in change.ids -> moved
                      [] OTHER -> rows[o]
      /\ told'[o] = IF o \in change.new \cup (IF change.entries = {} THEN change.ids ELSE {})
                    THEN told[o] \cup {change.universe[o].fact} ELSE told[o]
      /\ slipped' = slipped
  BY DEF CommitTransition
<1>5. CASE o \in change.new
  <2>1. change.universe[o] \in FieldSet /\ change.universe[o].fact \in 0..MaxFact
    BY <1>2, <1>5, SnapshotFields DEF FieldSet
  <2>2. fresh \in Row /\ fresh.fields = change.universe[o]
    BY <1>1, <2>1 DEF Row
  <2>3. fresh # NoRow
    BY <2>2, RowIsSomething
  <2>. HIDE DEF fresh, moved
  <2>4. rows'[o] = fresh /\ told'[o] = told[o] \cup {change.universe[o].fact}
    BY <1>3, <1>4, <1>5
  <2>. QED
    BY <1>1, <2>1, <2>2, <2>3, <2>4 DEF Known
<1>6. CASE o \in change.ids
  <2>1. /\ change.universe[o] \in FieldSet /\ change.universe[o].fact \in 0..MaxFact
        /\ change.loaded[o] \in Row /\ rows[o] # NoRow
    BY <1>1, <1>2, <1>6, SnapshotFields DEF FieldSet, Tables
  <2>2. change.loaded[o].cls \in {"BASELINE_EXISTING", "NEW", "MATERIALLY_CHANGED", "UNCHANGED"}
    BY <2>1 DEF Row
  <2>3. /\ moved \in Row
        /\ moved.fields = IF change.universe[o] # change.loaded[o].fields THEN change.universe[o]
                          ELSE rows[o].fields
    <3>. DEFINE was == change.loaded[o]
    <3>1. was \in Row \cup {NoRow} /\ (was # NoRow => rows[o] # NoRow)
      BY <2>1
    <3>2. was.cls \in {"BASELINE_EXISTING", "NEW", "MATERIALLY_CHANGED", "UNCHANGED"}
      BY <2>2
    <3>3. moved = Flushed(o, was, change.universe[o], was.cls, passes)
      OBVIOUS
    <3>. HIDE DEF was, moved
    <3>4. /\ moved \in Row
          /\ moved.fields = IF change.universe[o] # was.fields THEN change.universe[o]
                            ELSE rows[o].fields
      BY <1>1, <2>1, <3>1, <3>2, <3>3, FlushedRow
    <3>. QED
      BY <3>4 DEF was
  <2>4. moved # NoRow
    BY <2>3, RowIsSomething
  <2>. HIDE DEF fresh, moved
  <2>5. rows'[o] = moved
    BY <1>3, <1>4, <1>6
  <2>6. told[o] \subseteq told'[o] /\ told'[o] \subseteq 0..MaxFact
    <3>1. CASE change.entries = {}
      BY <1>1, <1>4, <1>6, <2>1, <3>1
    <3>2. CASE change.entries # {}
      BY <1>1, <1>2, <1>4, <3>2
    <3>. QED
      BY <3>1, <3>2
  <2>7. change.universe[o].fact \in told'[o] \/ o \in slipped'
    BY <1>2, <1>4, <1>6 DEF Known
  <2>8. rows[o].fields.fact \in told'[o] \/ o \in slipped'
    BY <1>1, <1>4, <2>1, <2>6 DEF Known
  <2>9. CASE moved.fields = change.universe[o]
    BY <2>3, <2>4, <2>5, <2>6, <2>7, <2>9 DEF Known
  <2>10. CASE moved.fields = rows[o].fields
    BY <2>3, <2>4, <2>5, <2>6, <2>8, <2>10 DEF Known
  <2>. QED
    BY <2>3, <2>9, <2>10
<1>7. CASE o \notin change.new /\ o \notin change.ids
  BY <1>1, <1>4, <1>7 DEF Known
<1>. QED
  BY <1>5, <1>6, <1>7

(* And the rollback: it puts back what was known, whatever it overwrites.               *)
LEMMA RestoredRow ==
  ASSUME MonitoringInv, CommitRestore, NEW o \in Opps
  PROVE  /\ rows'[o] \in Row \cup {NoRow}
         /\ told[o] \subseteq told'[o] /\ told'[o] \subseteq 0..MaxFact
         /\ rows[o] # NoRow => rows'[o] # NoRow
         /\ rows'[o] # NoRow => rows'[o].fields.fact \in told'[o] \/ o \in slipped'
<1>1. /\ MonitoringTypeOK /\ rows[o] \in Row \cup {NoRow} /\ told[o] \subseteq 0..MaxFact
      /\ rows[o] # NoRow => Known(o, rows[o].fields.fact)
      /\ told' = told /\ slipped' = slipped
  BY DEF MonitoringInv, MonitoringTypeOK, Tables, NoSilentChange, Tracked, CommitRestore
<1>2. CASE \E e \in forward : e.id = o
  <2>. DEFINE e == CHOOSE x \in forward : x.id = o
  <2>1. e \in forward /\ e.id = o
    BY <1>2
  <2>2. rows'[o] = [rows[o] EXCEPT !.fields = e.previous, !.seen = e.seen]
    BY <1>2 DEF CommitRestore
  <2>. HIDE DEF e
  <2>3. e \in Entries /\ rows[o] # NoRow /\ Known(o, e.previous.fact)
    BY <2>1 DEF MonitoringInv, MonitoringTypeOK, EntriesKeepFacts
  <2>4. rows[o] \in Row /\ e.previous \in FieldSet /\ e.seen \in 0..MaxPasses
    BY <1>1, <2>3 DEF Entries
  <2>5. rows'[o] \in Row /\ rows'[o].fields = e.previous
    BY <2>2, <2>4 DEF Row
  <2>6. rows'[o] # NoRow
    BY <2>5, RowIsSomething
  <2>. QED
    BY <1>1, <2>3, <2>5, <2>6 DEF Known
<1>3. CASE ~\E e \in forward : e.id = o
  <2>1. rows'[o] = rows[o]
    BY <1>3 DEF CommitRestore
  <2>. QED
    BY <1>1, <2>1 DEF Known
<1>. QED
  BY <1>2, <1>3

(* The write at the end of a command.                                                  *)
LEMMA CommitKeeps ==
  ASSUME MonitoringInv, CommitTransition \/ CommitRestore PROVE MonitoringInv'
<1>1. /\ NoChange \in ChangeWork /\ NoChange.pc = "idle" /\ NoChange.entries = {}
      /\ change' = NoChange
  BY DEF NoChange, ChangeWork, CommitTransition, CommitRestore
<1>2. /\ rows' = [o \in Opps |-> rows'[o]] /\ told' = [o \in Opps |-> told'[o]]
      /\ forward' \subseteq forward \cup change.entries
  <2>1. told = [o \in Opps |-> told[o]]
    BY DEF MonitoringInv, MonitoringTypeOK
  <2>. QED
    BY <2>1 DEF CommitTransition, CommitRestore
<1>3. /\ UNCHANGED <<live, fact, v8, pass, passes, reviewed, slipped, stops>>
      /\ pass \in [Syncs -> PassWork]
  BY DEF CommitTransition, CommitRestore, MonitoringInv, MonitoringTypeOK
<1>. QED
  BY <1>1, <1>2, <1>3, TransitionedRow, RestoredRow, WritingKeeps

(* Every step keeps the invariant, one case per action.                                *)
LEMMA MonitoringNextInv ==
  ASSUME MonitoringAssumption, MonitoringInv, [MonitoringNext]_monitoringVars
  PROVE  MonitoringInv'
<1>1. live \subseteq Opps /\ v8 \in BOOLEAN /\ fact \in [Opps -> 0..MaxFact]
  BY DEF MonitoringInv, MonitoringTypeOK
<1>2. ASSUME NEW o \in Opps, EvidenceChanges(o) PROVE MonitoringInv'
  <2>1. /\ fact' \in [Opps -> 0..MaxFact]
        /\ UNCHANGED <<live, v8, rows, pass, passes, change, reviewed, forward, told, slipped, stops>>
    BY <1>1, <1>2 DEF EvidenceChanges, MonitoringAssumption
  <2>. QED
    BY <1>1, <2>1, WorldKeeps
<1>3. ASSUME NEW o \in Opps, Opens(o) \/ Closes(o) PROVE MonitoringInv'
  <2>1. /\ live' \subseteq Opps
        /\ UNCHANGED <<fact, v8, rows, pass, passes, change, reviewed, forward, told, slipped, stops>>
    BY <1>1, <1>3 DEF Opens, Closes
  <2>. QED
    BY <1>1, <2>1, WorldKeeps
<1>4. CASE Deploy
  BY <1>1, <1>4, WorldKeeps DEF Deploy
<1>5. CASE Operator
  BY <1>5, BeginKeeps, CheckKeeps, ReviewKeeps, CommitKeeps DEF Operator
<1>6. ASSUME NEW s \in Syncs, Sync(s) \/ PassFails(s) PROVE MonitoringInv'
  BY <1>6, PassStepKeeps, CommitPassKeeps DEF Sync
<1>7. CASE UNCHANGED monitoringVars
  BY <1>1, <1>7, WorldKeeps DEF monitoringVars
<1>. QED
  BY <1>2, <1>3, <1>4, <1>5, <1>6, <1>7 DEF MonitoringNext, World

(* Rows, passes, manifests and rebaselines agree in every reachable state, for any      *)
(* number of syncs that overlap each other and the operator's commands                 *)
(* (sync_opportunity_monitoring_state, apply_monitoring_transition, apply_rebaseline).  *)
THEOREM MonitoringKeepsTogether ==
  ASSUME MonitoringAssumption PROVE MonitoringSpec => []MonitoringInv
<1>1. MonitoringInit => MonitoringInv
  BY MonitoringInitInv
<1>2. MonitoringInv /\ [MonitoringNext]_monitoringVars => MonitoringInv'
  BY MonitoringNextInv
<1>. QED
  BY <1>1, <1>2, PTL DEF MonitoringSpec

(* Evidence is never absorbed in silence: what a row takes for known was reported of    *)
(* it, whatever passes, transitions, rebaselines, rollbacks and failures overlap, but   *)
(* for what changes between the check of a rebaseline's digest and its engine's read    *)
(* (classify_opportunity_change; v8_monitoring_rebaseline.py:13).                       *)
THEOREM ChangesAreTold ==
  ASSUME MonitoringAssumption PROVE MonitoringSpec => []NoSilentChange
<1>1. MonitoringInv => NoSilentChange
  BY DEF MonitoringInv
<1>. QED
  BY <1>1, MonitoringKeepsTogether, PTL
-----------------------------------------------------------------------------
(* What is told of a site: permissions, homes and clocks. *)

(* Later, by any dates. *)
LaterBy(d, a, b) ==
  \/ d[a] > d[b]
  \/ /\ d[a] = d[b]
     /\ \/ Received[a] > Received[b]
        \/ Received[a] = Received[b] /\ a > b

LatestBy(d, A) == CHOOSE a \in A : \A b \in A \ {a} : LaterBy(d, a, b)

Dates == [App \cup {None} -> Nat]

(* Of any two applications one is the later one. *)
LEMMA LaterIsAnOrder ==
  ASSUME PositionAssumption, NEW d \in Dates
  PROVE  /\ \A a \in App : ~ LaterBy(d, a, a)
         /\ \A a, b \in App : a = b \/ LaterBy(d, a, b) \/ LaterBy(d, b, a)
         /\ \A a, b \in App : ~ (LaterBy(d, a, b) /\ LaterBy(d, b, a))
         /\ \A a, b, c \in App : LaterBy(d, a, b) /\ LaterBy(d, b, c) => LaterBy(d, a, c)
<1>1. \A a \in App : a \in Nat /\ d[a] \in Nat /\ Received[a] \in Nat
  BY DEF PositionAssumption, Dates
<1>. QED BY <1>1 DEF LaterBy

(* Among linked applications there is a latest one (max in _by_grant_then_recency). *)
LEMMA LatestExists ==
  ASSUME PositionAssumption, NEW d \in Dates, NEW A \in SUBSET App, A # {}
  PROVE  \E a \in A : \A b \in A \ {a} : LaterBy(d, a, b)
<1>. DEFINE Above(a) == {b \in A : LaterBy(d, b, a)}
            T == {Above(a) : a \in A}
            R == StrictSubsetOrdering(A)
<1>1. IsFiniteSet(A)
  BY FS_Subset DEF PositionAssumption
<1>2. IsWellFoundedOn(R, SUBSET A)
  <2>1. FiniteSubsetsOf(A) = SUBSET A
    BY <1>1, FS_FiniteSubsetsOfFinite
  <2>. QED BY <2>1, FS_StrictSubsetOrderingWellFounded
<1>3. PICK U \in T : \A V \in T : ~ (<<V, U>> \in R)
  <2>1. T \subseteq SUBSET A /\ T # {}
    OBVIOUS
  <2>. HIDE DEF T, R
  <2>. QED BY <1>2, <2>1, WFMin
<1>4. PICK a \in A : U = Above(a)
  BY <1>3
<1>5. ASSUME NEW b \in A \ {a}, ~ LaterBy(d, a, b) PROVE FALSE
  <2>1. LaterBy(d, b, a)
    BY <1>5, LaterIsAnOrder
  <2>2. Above(b) \subseteq Above(a)
    <3>1. \A c \in A : LaterBy(d, c, b) => LaterBy(d, c, a)
      BY <2>1, LaterIsAnOrder
    <3>. QED BY <3>1
  <2>3. b \in Above(a) /\ b \notin Above(b)
    BY <2>1, LaterIsAnOrder
  <2>4. <<Above(b), U>> \in R
    BY <2>2, <2>3, <1>4 DEF StrictSubsetOrdering
  <2>5. Above(b) \in T
    OBVIOUS
  <2>. QED BY <2>4, <2>5, <1>3
<1>. QED BY <1>5

(* Latest finds it. *)
LEMMA LatestIs ==
  ASSUME PositionAssumption, PositionTypeOK, NEW A \in SUBSET App, A # {}
  PROVE  /\ Latest(A) \in A /\ Latest(A) # None
         /\ \A b \in A \ {Latest(A)} : Later(Latest(A), b)
<1>1. decision_date \in Dates
  BY DEF PositionTypeOK, Dates, PositionAssumption
<1>2. \E a \in A : \A b \in A \ {a} : LaterBy(decision_date, a, b)
  BY <1>1, LatestExists
<1>3. \E a \in A : \A b \in A \ {a} : Later(a, b)
  BY <1>2 DEF Later, LaterBy
<1>4. /\ Latest(A) \in A
      /\ \A b \in A \ {Latest(A)} : Later(Latest(A), b)
  BY <1>3 DEF Latest
<1>. QED BY <1>4 DEF PositionAssumption, None

LEMMA NoneIsLatestOfNone == Latest({}) = None
BY DEF Latest

-----------------------------------------------------------------------------
(* The applications stay in their shapes, whatever is found of them. *)
THEOREM SiteTyped ==
  ASSUME PositionAssumption PROVE PositionSpec => []PositionTypeOK
<1>1. PositionInit => PositionTypeOK
  BY DEF PositionInit, PositionTypeOK, PositionAssumption, LIVE, None
<1>2. PositionTypeOK /\ [PositionNext]_positionVars => PositionTypeOK'
  <2>. SUFFICES ASSUME PositionTypeOK, [PositionNext]_positionVars PROVE PositionTypeOK'
    OBVIOUS
  <2>1. CASE NextDay
    BY <2>1 DEF NextDay, PositionTypeOK, PositionAssumption
  <2>2. ASSUME NEW a \in App, File(a) PROVE PositionTypeOK'
    BY <2>2 DEF File, PositionTypeOK
  <2>3. ASSUME NEW a \in App, NEW d \in TERMINAL \cup {"recommendation_only"},
               NEW day \in 0..MaxDay, Decide(a, d, day)
        PROVE  PositionTypeOK'
    BY <2>3 DEF Decide, PositionTypeOK, LIVE, TERMINAL
  <2>4. ASSUME NEW a \in App, NEW day \in 1..MaxDay, CorrectDate(a, day) PROVE PositionTypeOK'
    BY <2>4 DEF CorrectDate, PositionTypeOK, PositionAssumption
  <2>5. ASSUME NEW a \in App, NEW u \in Counts, Extract(a, u) PROVE PositionTypeOK'
    BY <2>5 DEF Extract, PositionTypeOK
  <2>6. CASE UNCHANGED positionVars
    BY <2>6 DEF positionVars, PositionTypeOK
  <2>. QED BY <2>1, <2>2, <2>3, <2>4, <2>5, <2>6 DEF PositionNext, Touch
<1>. QED BY <1>1, <1>2, PTL DEF PositionSpec

-----------------------------------------------------------------------------
(* A total is a number of homes, or there is none. *)
LEMMA TotalsAreNumbers ==
  ASSUME PositionAssumption, PositionTypeOK, NEW a \in App
  PROVE  _scheme_total_units(a) \in Nat
<1>1. total_units[a] \in Counts \cup {0}
  BY DEF PositionTypeOK, None
<1>2. Counts \subseteq Nat /\ 0 \in Nat
  BY DEF PositionAssumption
<1>3. total_units[a] \in Nat /\ None \in Nat
  BY <1>1, <1>2 DEF None
<1>. QED BY <1>3 DEF _scheme_total_units

(* The values of finitely many applications are finitely many. *)
LEMMA FiniteValues ==
  ASSUME NEW A, IsFiniteSet(A), NEW f PROVE IsFiniteSet({f[a] : a \in A})
<1>. DEFINE g == [a \in A |-> f[a]]
<1>1. g \in Surjection(A, {f[a] : a \in A})
  BY DEF Surjection
<1>. QED BY <1>1, FS_Surjection

(* An exact count is the one figure of every position (assess_positions). *)
LEMMA ExactAgrees ==
  ASSUME NEW A, IsFiniteSet(A), NEW f, \A a \in A : f[a] \in Nat,
         assess_positions(A, f).precision = "EXACT"
  PROVE  A # {} /\ \A a \in A : f[a] = assess_positions(A, f).value
<1>. DEFINE values == {f[a] : a \in A}
<1>1. /\ A # {} /\ Cardinality(values) = 1
      /\ assess_positions(A, f) = [precision |-> "EXACT", value |-> Min(values)]
  BY DEF assess_positions, Unknown, Estimate
<1>2. PICK v : values = {v}
  <2>1. IsFiniteSet(values)
    BY FiniteValues
  <2>. HIDE DEF values
  <2>. QED BY <1>1, <2>1, FS_Singleton
<1>3. v \in Nat
  BY <1>1, <1>2
<1>4. Min(values) = v
  BY <1>2, <1>3 DEF Min
<1>. QED BY <1>1, <1>2, <1>4

(* A number said to be exact is the total of some row, and no row has another *)
(* (_resolve_approved_units).                                                 *)
LEMMA RowsAgree ==
  ASSUME PositionAssumption, PositionTypeOK, NEW A \in SUBSET App, NEW E \in SUBSET App,
         exact_value(AssessRows(A, E)) # None
  PROVE  /\ \E a \in A : _scheme_total_units(a) = exact_value(AssessRows(A, E))
         /\ \A a \in A : _scheme_total_units(a) \in {None, exact_value(AssessRows(A, E))}
<1>. DEFINE extracted == {a \in A : _scheme_total_units(a) # None}
            f == [a \in A |-> _scheme_total_units(a)]
            found == assess_positions(extracted, f)
<1>1. AssessRows(A, E).precision = "EXACT" /\ exact_value(AssessRows(A, E)) = AssessRows(A, E).value
  BY DEF exact_value
<1>2. extracted # {} /\ AssessRows(A, E) = found
  BY <1>1 DEF AssessRows, Unknown, Estimate
<1>3. IsFiniteSet(extracted)
  BY FS_Subset DEF PositionAssumption
<1>4. \A a \in extracted : f[a] \in Nat
  BY TotalsAreNumbers
<1>5. \A a \in extracted : f[a] = found.value
  <2>. HIDE DEF extracted, f
  <2>. QED BY <1>1, <1>2, <1>3, <1>4, ExactAgrees
<1>. QED BY <1>1, <1>2, <1>5

(* Variations do not replace one another until nothing is left. *)
LEMMA TheNewestStands ==
  ASSUME PositionAssumption, PositionTypeOK PROVE SupersessionLeavesTheNewest
<1>. DEFINE E == Eligible(_site_scope_rows)
<1>. SUFFICES ASSUME E # {}
              PROVE  \E a \in Current(_site_scope_rows) : \A b \in Superseded(_site_scope_rows) :
                       decision_date[a] >= decision_date[b]
  BY DEF SupersessionLeavesTheNewest
<1>1. E \in SUBSET App
  BY DEF Eligible, Granted, _site_scope_rows, PositionTypeOK
<1>2. Latest(E) \in E /\ \A b \in E \ {Latest(E)} : Later(Latest(E), b)
  BY <1>1, LatestIs
<1>3. \A a \in App : decision_date[a] \in Nat
  BY DEF PositionTypeOK
<1>4. \A b \in E : decision_date[Latest(E)] >= decision_date[b]
  BY <1>1, <1>2, <1>3 DEF Later
<1>5. Latest(E) \notin Superseded(_site_scope_rows)
  <2>1. \A v \in E : ~ (decision_date[v] > decision_date[Latest(E)])
    BY <1>1, <1>2, <1>3, <1>4
  <2>. QED BY <2>1 DEF Superseded
<1>6. Superseded(_site_scope_rows) \subseteq E
  BY DEF Superseded
<1>. QED BY <1>2, <1>4, <1>5, <1>6 DEF Current

(* An exact number of homes is agreed by all the applications that count. *)
LEMMA ExactIsAgreed ==
  ASSUME PositionAssumption, PositionTypeOK PROVE ExactMeansAgreement
<1>. DEFINE site == _site_scope_rows
<1>. SUFFICES ASSUME units # None
              PROVE  /\ \E a \in CountsNow : _scheme_total_units(a) = units
                     /\ \A a \in CountsNow : _scheme_total_units(a) \in {None, units}
  BY DEF ExactMeansAgreement
<1>1. site \in SUBSET App
  BY DEF _site_scope_rows, PositionTypeOK
<1>2. Current(site) \in SUBSET App /\ (Current(site) # {} => Eligible(site) # {})
  BY <1>1 DEF Current, Eligible, Granted
<1>3. CASE \E a \in Granted(site) : Carries(a)
  <2>1. units = exact_value(AssessRows(Current(site), {a \in Current(site) : Substantive(a)}))
    BY <1>3 DEF units, count_assessment_for_facts, _resolve_approved_units
  <2>2. {a \in Current(site) : Substantive(a)} \in SUBSET App
    BY <1>2
  <2>3. /\ \E a \in Current(site) : _scheme_total_units(a) = units
        /\ \A a \in Current(site) : _scheme_total_units(a) \in {None, units}
    BY <1>2, <2>1, <2>2, RowsAgree
  <2>4. CountsNow = Current(site)
    BY <1>2, <2>3 DEF CountsNow
  <2>. QED BY <2>3, <2>4
<1>4. CASE ~ \E a \in Granted(site) : Carries(a)
  <2>1. Eligible(site) = {}
    BY <1>4 DEF Eligible, Carries
  <2>2. LiveOf(site) \in SUBSET App
    BY <1>1 DEF LiveOf
  <2>3. ActiveRows(UNPHASED) = LiveOf(site)
    BY DEF ActiveRows, LiveOf, _site_scope_rows
  <2>4. count_assessment_for_facts # Unknown
    BY DEF units, exact_value, Unknown
  <2>5. units = exact_value(AssessRows(LiveOf(site), LiveOf(site)))
    BY <1>4, <2>3, <2>4 DEF units, count_assessment_for_facts, _build_active_position
  <2>6. CountsNow = LiveOf(site)
    BY <2>1 DEF CountsNow
  <2>. QED BY <2>2, <2>5, <2>6, RowsAgree
<1>. QED BY <1>3, <1>4

(* A resolved reference is granted, and the clock runs from it or from a later grant. *)
LEMMA ConsentClock ==
  ASSUME PositionAssumption, PositionTypeOK PROVE ConsentHasAClock
<1>. DEFINE G == SubstantiveOf(Granted(_site_scope_rows))
            H == SubstantiveOf(Granted(filed))
<1>. SUFFICES ASSUME consented_reference # None
              PROVE  /\ decided[consented_reference] = "granted"
                     /\ resolve_operative_lapse_anchor(filed) # None
                     /\ resolve_operative_lapse_anchor(filed) # consented_reference =>
                          Later(resolve_operative_lapse_anchor(filed), consented_reference)
  BY DEF ConsentHasAClock
<1>1. G \in SUBSET App /\ H \in SUBSET App /\ G \subseteq H
  BY DEF SubstantiveOf, Granted, _site_scope_rows, PositionTypeOK
<1>2. consented_reference = Latest(G) /\ resolve_operative_lapse_anchor(filed) = Latest(H)
  BY DEF consented_reference, resolve_operative_lapse_anchor
<1>3. G # {} /\ H # {}
  <2>1. G # {}
    BY <1>2, NoneIsLatestOfNone
  <2>. QED BY <1>1, <2>1
<1>4. Latest(G) \in G /\ Latest(H) # None /\ \A b \in H \ {Latest(H)} : Later(Latest(H), b)
  BY <1>1, <1>3, LatestIs
<1>5. decided[Latest(G)] = "granted"
  BY <1>4 DEF SubstantiveOf, Granted
<1>. QED BY <1>1, <1>2, <1>4, <1>5

(* The homes of a phase come from an application that names no other. *)
LEMMA HomesCountedOnce ==
  ASSUME PositionAssumption, PositionTypeOK PROVE BucketsCountHomesOnce
<1>. SUFFICES ASSUME NEW s, BucketUnits(s) # None, NEW g \in Phases,
                     compute_phase_progress(group_applications_by_phase(g)) = s
              PROVE  \E a \in filed : Names[a] = {g} /\ total_units[a] = PhaseUnits(g)
  BY DEF BucketsCountHomesOnce
<1>. DEFINE A == OnePhase(group_applications_by_phase(g))
<1>1. PhaseUnits(g) # None
  BY DEF BucketUnits
<1>2. A \in SUBSET App /\ A \subseteq filed
  BY DEF OnePhase, group_applications_by_phase, PositionTypeOK
<1>3. PhaseUnits(g) = exact_value(scoped_count_assessment(A))
  BY DEF PhaseUnits, _phase_unit_count
<1>4. \E a \in A : _scheme_total_units(a) = PhaseUnits(g)
  <2>1. CASE \E a \in Granted(A) : Carries(a)
    <3>1. PhaseUnits(g) = exact_value(AssessRows(Current(A), {a \in Current(A) : Substantive(a)}))
      BY <1>3, <2>1 DEF scoped_count_assessment, _resolve_approved_units
    <3>2. Current(A) \subseteq A
      BY DEF Current, Eligible, Granted
    <3>3. /\ Current(A) \in SUBSET App
          /\ {a \in Current(A) : Substantive(a)} \in SUBSET App
      BY <1>2, <3>2
    <3>4. \E a \in Current(A) : _scheme_total_units(a) = PhaseUnits(g)
      BY <1>1, <3>1, <3>3, RowsAgree
    <3>. QED BY <3>2, <3>4
  <2>2. CASE ~ \E a \in Granted(A) : Carries(a)
    <3>1. scoped_count_assessment(A) # Unknown
      BY <1>1, <1>3 DEF exact_value, Unknown
    <3>2. PhaseUnits(g) = exact_value(AssessRows(LiveOf(A), LiveOf(A)))
      BY <1>3, <2>2, <3>1 DEF scoped_count_assessment, _build_active_position
    <3>3. LiveOf(A) \subseteq A
      BY DEF LiveOf
    <3>. QED BY <1>1, <1>2, <3>2, <3>3, RowsAgree
  <2>. QED BY <2>1, <2>2
<1>5. PICK a \in A : _scheme_total_units(a) = PhaseUnits(g)
  BY <1>4
<1>6. total_units[a] = PhaseUnits(g)
  BY <1>1, <1>5 DEF _scheme_total_units
<1>7. Names[a] = {g}
  <2>1. g \in Labels(a) /\ Cardinality(Names[a]) = 1
    BY DEF OnePhase, group_applications_by_phase
  <2>2. IsFiniteSet(Names[a])
    BY <1>2 DEF PositionAssumption
  <2>3. PICK x : Names[a] = {x}
    BY <2>1, <2>2, FS_Singleton
  <2>. QED BY <2>1, <2>3 DEF Labels
<1>. QED BY <1>2, <1>6, <1>7

(* However applications are found, decided, redated and read, permissions and homes add *)
(* up: a newest permission stands, an exact number is agreed, consent has a clock and   *)
(* the phases of a sum share no application (scheme_reconciliation, phase_tracking).    *)
THEOREM SiteAddsUp ==
  ASSUME PositionAssumption PROVE PositionSpec => []PermissionsAddUp
<1>1. PositionTypeOK => PermissionsAddUp
  BY TheNewestStands, ExactIsAgreed, ConsentClock, HomesCountedOnce DEF PermissionsAddUp
<1>. QED BY <1>1, SiteTyped, PTL

-----------------------------------------------------------------------------
(* What an amendment, a certificate or details of conditions leave alone. *)

(* The sets agree on the permissions and proposals that may carry homes. *)
SameCarriers(A, B) == \A c \in App : Carries(c) => (c \in A <=> c \in B)

(* The step finds and changes nothing of them. *)
CarriersKept ==
  /\ today' = today /\ SameCarriers(filed, filed')
  /\ \A c \in App : Carries(c) =>
       /\ decided'[c] = decided[c] /\ decision_date'[c] = decision_date[c]
       /\ total_units'[c] = total_units[c]

(* They are eligible, live and superseded as before (_resolve_approved_units). *)
LEMMA SameEligible ==
  ASSUME CarriersKept, NEW A \in SUBSET App, NEW B \in SUBSET App, SameCarriers(A, B)
  PROVE  /\ Eligible(B)' = Eligible(A) /\ LiveOf(B)' = LiveOf(A)
         /\ SubstantiveOf(Granted(B))' = SubstantiveOf(Granted(A))
         /\ (\E a \in Granted(B) : Carries(a))' <=> (\E a \in Granted(A) : Carries(a))
<1>1. \A c \in App : Carries(c) => _scheme_total_units(c)' = _scheme_total_units(c)
  BY DEF CarriersKept, _scheme_total_units, residential_count_eligibility
<1>2. Eligible(B)' = Eligible(A)
  BY <1>1 DEF CarriersKept, SameCarriers, Eligible, Granted, Substantive, Variation, Carries
<1>3. LiveOf(B)' = LiveOf(A)
  BY DEF CarriersKept, SameCarriers, LiveOf, Substantive, Variation, Carries
<1>4. SubstantiveOf(Granted(B))' = SubstantiveOf(Granted(A))
  BY DEF CarriersKept, SameCarriers, SubstantiveOf, Granted, Substantive, Carries
<1>5. (\E a \in Granted(B) : Carries(a))' <=> (\E a \in Granted(A) : Carries(a))
  BY DEF CarriersKept, SameCarriers, Granted, Substantive, Variation, Carries
<1>. QED BY <1>2, <1>3, <1>4, <1>5

LEMMA SameCurrent ==
  ASSUME CarriersKept, NEW A \in SUBSET App, NEW B \in SUBSET App, SameCarriers(A, B)
  PROVE  Current(B)' = Current(A)
<1>1. Eligible(B)' = Eligible(A)
  BY SameEligible
<1>2. \A c \in Eligible(A) : c \in App /\ Carries(c)
  BY DEF Eligible, Granted, Substantive, Variation, Carries
<1>3. Superseded(B)' = Superseded(A)
  BY <1>1, <1>2 DEF CarriersKept, Superseded, Variation
<1>. QED BY <1>1, <1>3 DEF Current

(* The same rows are assessed as before. *)
LEMMA SameRows ==
  ASSUME CarriersKept, NEW X \in SUBSET App, \A c \in X : Carries(c), NEW Y \in SUBSET X
  PROVE  AssessRows(X, Y)' = AssessRows(X, Y)
<1>. DEFINE E == {a \in X : _scheme_total_units(a) # None}
            S == {a \in Y : _portal_estimated_units(a) # None}
            f == [a \in X |-> _scheme_total_units(a)]
            h == [a \in Y |-> _portal_estimated_units(a)]
<1>1. \A c \in X : /\ _scheme_total_units(c)' = _scheme_total_units(c)
                   /\ _portal_estimated_units(c)' = _portal_estimated_units(c)
  BY DEF CarriersKept, _scheme_total_units, _portal_estimated_units, residential_count_eligibility
<1>2. E' = E /\ S' = S /\ f' = f /\ h' = h
  BY <1>1 DEF None
<1>3. E \in SUBSET App /\ S \in SUBSET App /\ \A c \in E \cup S : Carries(c)
  OBVIOUS
<1>4. /\ {decision_date[a] : a \in E}' = {decision_date[a] : a \in E}
      /\ {decision_date[a] : a \in S}' = {decision_date[a] : a \in S}
  BY <1>2, <1>3 DEF CarriersKept
<1>5. /\ assess_positions(E, f)' = assess_positions(E, f)
      /\ assess_positions(S, h)' = assess_positions(S, h)
  <2>. HIDE DEF E, S, f, h
  <2>1. /\ {f[a] : a \in E}' = {f[a] : a \in E} /\ {h[a] : a \in S}' = {h[a] : a \in S}
        /\ {Role[a] : a \in E}' = {Role[a] : a \in E} /\ {Role[a] : a \in S}' = {Role[a] : a \in S}
    BY <1>2
  <2>2. assess_positions(E, f)' = assess_positions(E, f)
    BY <1>2, <1>4, <2>1 DEF assess_positions, Unknown, Estimate, None
  <2>3. assess_positions(S, h)' = assess_positions(S, h)
    BY <1>2, <1>4, <2>1 DEF assess_positions, Unknown, Estimate, None
  <2>. QED BY <2>2, <2>3
<1>6. AssessRows(X, Y) =
        IF X \cap Qualified # {} THEN Unknown
        ELSE LET found == IF E # {} THEN assess_positions(E, f) ELSE assess_positions(S, h)
             IN IF E = {} /\ found.precision = "EXACT" THEN Estimate(found.value) ELSE found
  BY DEF AssessRows
<1>7. AssessRows(X, Y)' =
        IF X \cap Qualified # {} THEN Unknown
        ELSE LET found == IF E' # {} THEN assess_positions(E, f)' ELSE assess_positions(S, h)'
             IN IF E' = {} /\ found.precision = "EXACT" THEN Estimate(found.value) ELSE found
  BY DEF AssessRows, Unknown, Estimate, None
<1>. QED
  <2>. HIDE DEF E, S, f, h
  <2>. QED BY <1>2, <1>5, <1>6, <1>7

(* The homes of the sets are found as before. *)
LEMMA SameCounts ==
  ASSUME CarriersKept, NEW A \in SUBSET App, NEW B \in SUBSET App, SameCarriers(A, B)
  PROVE  /\ _resolve_approved_units(B)' = _resolve_approved_units(A)
         /\ _build_active_position(LiveOf(B))' = _build_active_position(LiveOf(A))
         /\ scoped_count_assessment(B)' = scoped_count_assessment(A)
<1>. DEFINE C == Current(A)
            CS == {a \in C : Substantive(a)}
            V == LiveOf(A)
<1>1. /\ C \in SUBSET App /\ CS \in SUBSET C /\ \A c \in C : Carries(c)
      /\ V \in SUBSET App /\ \A c \in V : Carries(c)
  BY DEF Current, Eligible, Granted, LiveOf, Carries
<1>2. C = Current(B)' /\ CS = {a \in Current(B) : Substantive(a)}' /\ V = LiveOf(B)'
  BY SameCurrent, SameEligible DEF Substantive
<1>3. PICK CC, CT, VV : CC = C /\ CT = CS /\ VV = V
  OBVIOUS
<1>4. AssessRows(CC, CT)' = AssessRows(CC, CT) /\ AssessRows(VV, VV)' = AssessRows(VV, VV)
  BY <1>1, <1>3, SameRows
<1>5. /\ _resolve_approved_units(A) = AssessRows(CC, CT)
      /\ _build_active_position(LiveOf(A)) = AssessRows(VV, VV)
  BY <1>3 DEF _resolve_approved_units, _build_active_position
<1>6. _resolve_approved_units(B)' = AssessRows(CC, CT)'
  <2>1. Current(B)' = CC /\ {a \in Current(B) : Substantive(a)}' = CT
    BY <1>2, <1>3
  <2>. QED BY <2>1 DEF _resolve_approved_units, AssessRows, Unknown, Estimate, None
<1>7. _build_active_position(LiveOf(B))' = AssessRows(VV, VV)'
  BY <1>2, <1>3 DEF _build_active_position, AssessRows, Unknown, Estimate, None
<1>8. /\ _resolve_approved_units(B)' = _resolve_approved_units(A)
      /\ _build_active_position(LiveOf(B))' = _build_active_position(LiveOf(A))
  BY <1>4, <1>5, <1>6, <1>7
<1>9. scoped_count_assessment(B)' = scoped_count_assessment(A)
  BY <1>8, SameEligible DEF scoped_count_assessment, Unknown, None
<1>. QED BY <1>8, <1>9

(* What is a parcel stays one, so every application keeps its scope (_resolve_scopes). *)
LEMMA SameScopes ==
  ASSUME PositionTypeOK, PositionTypeOK', CarriersKept
  PROVE  /\ \A c \in App : _resolve_scopes(c)' = _resolve_scopes(c)
         /\ SameCarriers(_site_scope_rows, _site_scope_rows')
         /\ _site_scope_rows \in SUBSET App /\ _site_scope_rows' \in SUBSET App
<1>1. ASSUME NEW g PROVE Peer(g)' <=> Peer(g)
  <2>. DEFINE G == group_applications_by_phase(g)
  <2>1. PICK A, B : A = OnePhase(G) /\ B = OnePhase(G)'
    OBVIOUS
  <2>2. A \in SUBSET App /\ B \in SUBSET App /\ SameCarriers(A, B)
    BY <2>1 DEF OnePhase, group_applications_by_phase, SameCarriers, CarriersKept, PositionTypeOK
  <2>3. scoped_count_assessment(B)' = scoped_count_assessment(A)
    BY <2>2, SameCounts
  <2>4. _phase_unit_count(G)' = _phase_unit_count(G)
    BY <2>1, <2>3 DEF _phase_unit_count
  <2>5. {Stated[a] : a \in {b \in OnePhase(G) : Substantive(b)}}'
          = {Stated[a] : a \in {b \in OnePhase(G) : Substantive(b)}}
    BY <2>1, <2>2 DEF SameCarriers, Substantive, Carries
  <2>6. is_material_development_parcel(G)' <=> is_material_development_parcel(G)
    <3>. DEFINE S == {Stated[a] : a \in {b \in OnePhase(G) : Substantive(b)}} \ {None}
    <3>1. S' = S
      BY <2>5 DEF None
    <3>2. exact_value(_phase_unit_count(G))' = exact_value(_phase_unit_count(G))
      BY <2>4 DEF exact_value, None
    <3>3. is_material_development_parcel(G) <=>
            IF exact_value(_phase_unit_count(G)) # None
            THEN exact_value(_phase_unit_count(G)) >= Threshold
            ELSE Cardinality(S) = 1 /\ Min(S) >= Threshold
      BY DEF is_material_development_parcel
    <3>4. is_material_development_parcel(G)' <=>
            IF exact_value(_phase_unit_count(G))' # None
            THEN exact_value(_phase_unit_count(G))' >= Threshold
            ELSE Cardinality(S') = 1 /\ Min(S') >= Threshold
      BY DEF is_material_development_parcel, None
    <3>. QED
      <4>. HIDE DEF S, G
      <4>. QED BY <3>1, <3>2, <3>3, <3>4
  <2>. QED BY <2>6 DEF Peer, UNPHASED
<1>2. ASSUME NEW c \in App PROVE _resolve_scopes(c)' = _resolve_scopes(c)
  <2>1. Peers(c)' = Peers(c)
    BY <1>1 DEF Peers, Labels, UNPHASED
  <2>. QED BY <2>1 DEF _resolve_scopes, UNPHASED
<1>3. SameCarriers(_site_scope_rows, _site_scope_rows')
  BY <1>2 DEF SameCarriers, _site_scope_rows, CarriersKept, PositionTypeOK, UNPHASED
<1>4. _site_scope_rows \in SUBSET App /\ _site_scope_rows' \in SUBSET App
  BY DEF _site_scope_rows, PositionTypeOK
<1>. QED BY <1>2, <1>3, <1>4

(* The latest of the same applications with the same dates is the same. *)
LEMMA SameLatest ==
  ASSUME PositionAssumption, NEW A \in SUBSET App, NEW d \in Dates, NEW e \in Dates,
         \A a \in A : d[a] = e[a], A # {}
  PROVE  LatestBy(d, A) = LatestBy(e, A)
<1>1. \A a, b \in A : LaterBy(d, a, b) <=> LaterBy(e, a, b)
  BY DEF LaterBy
<1>2. PICK m \in A : \A b \in A \ {m} : LaterBy(d, m, b)
  BY LatestExists
<1>3. \A n \in A : (\A b \in A \ {n} : LaterBy(d, n, b)) => n = m
  BY <1>2, LaterIsAnOrder
<1>. QED BY <1>1, <1>2, <1>3 DEF LatestBy

(* So the latest permission stays the same. *)
LEMMA LatestKept ==
  ASSUME PositionAssumption, PositionTypeOK, PositionTypeOK', CarriersKept,
         NEW A \in SUBSET App, \A a \in A : Carries(a)
  PROVE  Latest(A)' = Latest(A)
<1>1. CASE A = {}
  BY <1>1 DEF Latest, None
<1>2. CASE A # {}
  <2>1. decision_date \in Dates /\ decision_date' \in Dates
    BY DEF PositionTypeOK, Dates, PositionAssumption, None
  <2>2. \A a \in A : decision_date[a] = decision_date'[a]
    BY DEF CarriersKept
  <2>3. Latest(A) = LatestBy(decision_date, A)
    BY <1>2 DEF Latest, Later, LaterBy, LatestBy
  <2>4. Latest(A)' = LatestBy(decision_date', A)
    BY <1>2 DEF Latest, Later, LaterBy, LatestBy
  <2>. QED BY <1>2, <2>1, <2>2, <2>3, <2>4, SameLatest
<1>. QED BY <1>1, <1>2

(* So are the reference, the status and the homes of the site, and its clock, but for *)
(* whether anything was granted yet.                                                  *)
LEMMA AnswersKept ==
  ASSUME PositionAssumption, PositionTypeOK, PositionTypeOK', CarriersKept
  PROVE  /\ consented_reference' = consented_reference
         /\ units' = units
         /\ resolve_canonical_decision_status' = resolve_canonical_decision_status
         /\ compute_lapse_status(filed)' # compute_lapse_status(filed) =>
              compute_lapse_status(filed)' \in {"not_granted", "not_determined"}
<1>1. PICK A, B, F, H : A = _site_scope_rows /\ B = _site_scope_rows' /\ F = filed /\ H = filed'
  OBVIOUS
<1>2. /\ A \in SUBSET App /\ B \in SUBSET App /\ SameCarriers(A, B)
      /\ F \in SUBSET App /\ H \in SUBSET App /\ SameCarriers(F, H)
  BY <1>1, SameScopes DEF PositionTypeOK, CarriersKept
<1>3. PICK G, K, R : /\ G = SubstantiveOf(Granted(A)) /\ K = SubstantiveOf(Granted(F))
                     /\ R = SubstantiveOf(A)
  OBVIOUS
<1>4. /\ G \in SUBSET App /\ \A a \in G : Carries(a)
      /\ K \in SUBSET App /\ \A a \in K : Carries(a)
      /\ R \in SUBSET App /\ \A a \in R : Carries(a)
  BY <1>2, <1>3 DEF SubstantiveOf, Granted, Carries
<1>5. /\ SubstantiveOf(Granted(_site_scope_rows)) = G /\ SubstantiveOf(Granted(_site_scope_rows))' = G
      /\ SubstantiveOf(Granted(filed)) = K /\ SubstantiveOf(Granted(filed))' = K
  <2>1. SubstantiveOf(Granted(B))' = G /\ SubstantiveOf(Granted(H))' = K
    BY <1>2, <1>3, SameEligible
  <2>. QED BY <1>1, <1>3, <2>1 DEF SubstantiveOf, Granted, Substantive
<1>6. SubstantiveOf(_site_scope_rows) = R /\ SubstantiveOf(_site_scope_rows)' = R
  BY <1>1, <1>2, <1>3 DEF SubstantiveOf, SameCarriers, Substantive, Carries
<1>7. Latest(G)' = Latest(G) /\ Latest(K)' = Latest(K) /\ Latest(R)' = Latest(R)
  BY <1>4, LatestKept
<1>8. consented_reference' = consented_reference
  BY <1>5, <1>7 DEF consented_reference, Latest, Later, None
<1>9. consented_planning_status' = consented_planning_status
  <2>1. /\ Granted(R)' = Granted(R)
        /\ (\A a \in R : decided[a] \notin LIVE)' <=> (\A a \in R : decided[a] \notin LIVE)
    BY <1>4 DEF Granted, CarriersKept, LIVE
  <2>2. R # {} => decided[Latest(R)]' = decided[Latest(R)]
    BY <1>4, <1>7, LatestIs DEF CarriersKept
  <2>3. consented_planning_status =
          IF Granted(R) # {} THEN "granted"
          ELSE IF R # {} /\ \A a \in R : decided[a] \notin LIVE THEN decided[Latest(R)]
          ELSE "not_determined"
    BY <1>6 DEF consented_planning_status
  <2>4. consented_planning_status' =
          IF Granted(R)' # {} THEN "granted"
          ELSE IF R # {} /\ (\A a \in R : decided[a] \notin LIVE)' THEN decided[Latest(R)]'
          ELSE "not_determined"
    BY <1>6 DEF consented_planning_status, Granted, LIVE, Latest, Later, None
  <2>. QED BY <2>1, <2>2, <2>3, <2>4
<1>10. /\ LiveOf(filed)' = LiveOf(filed) /\ LiveOf(filed) \in SUBSET App
       /\ \A s : ActiveRows(s)' = ActiveRows(s)
       /\ ActiveScopes' = ActiveScopes
  <2>1. LiveOf(H)' = LiveOf(F)
    BY <1>2, SameEligible
  <2>2. LiveOf(filed)' = LiveOf(filed)
    BY <1>1, <2>1 DEF LiveOf, Substantive, Variation, Carries, LIVE
  <2>3. LiveOf(filed) \in SUBSET App
    BY DEF LiveOf, PositionTypeOK
  <2>4. \A c \in App : _resolve_scopes(c)' = _resolve_scopes(c)
    BY SameScopes
  <2>5. \A s : ActiveRows(s)' = ActiveRows(s)
    BY <2>2, <2>3, <2>4 DEF ActiveRows
  <2>. QED BY <2>2, <2>3, <2>4, <2>5 DEF ActiveScopes
<1>11. resolve_canonical_decision_status' = resolve_canonical_decision_status
  BY <1>9, <1>10 DEF resolve_canonical_decision_status
<1>12. units' = units
  <2>1. /\ _resolve_approved_units(B)' = _resolve_approved_units(A)
        /\ _build_active_position(LiveOf(B))' = _build_active_position(LiveOf(A))
        /\ (\E a \in Granted(B) : Carries(a))' <=> (\E a \in Granted(A) : Carries(a))
    BY <1>2, SameCounts, SameEligible
  <2>2. ActiveRows(UNPHASED) = LiveOf(A) /\ ActiveRows(UNPHASED)' = LiveOf(B)'
    BY <1>1 DEF ActiveRows, LiveOf, _site_scope_rows, UNPHASED
  <2>3. _build_active_position(ActiveRows(UNPHASED))' = _build_active_position(ActiveRows(UNPHASED))
    BY <2>1, <2>2 DEF _build_active_position
  <2>4. _resolve_approved_units(_site_scope_rows)' = _resolve_approved_units(_site_scope_rows)
    BY <1>1, <2>1 DEF _resolve_approved_units
  <2>5. (\E a \in Granted(_site_scope_rows) : Carries(a))'
          <=> (\E a \in Granted(_site_scope_rows) : Carries(a))
    BY <1>1, <2>1 DEF Granted
  <2>6. count_assessment_for_facts' = count_assessment_for_facts
    BY <1>10, <2>3, <2>4, <2>5 DEF count_assessment_for_facts, UNPHASED, Unknown, None
  <2>. QED BY <2>6 DEF units, exact_value, None
<1>13. compute_lapse_status(filed)' # compute_lapse_status(filed) =>
         compute_lapse_status(filed)' \in {"not_granted", "not_determined"}
  <2>1. resolve_operative_lapse_anchor(filed) = Latest(K)
    BY <1>5 DEF resolve_operative_lapse_anchor
  <2>2. resolve_operative_lapse_anchor(filed)' = Latest(K)
    BY <1>5, <1>7 DEF resolve_operative_lapse_anchor, Latest, Later, None
  <2>3. CASE Latest(K) = None
    <3>1. ~ Dated(filed)' /\ LapseBefore(filed)' \in {"not_granted", "not_determined"}
      BY <2>2, <2>3 DEF Dated, LapseBefore, None
    <3>. QED BY <3>1 DEF compute_lapse_status
  <2>4. CASE Latest(K) # None
    <3>1. K # {}
      BY <2>4, NoneIsLatestOfNone
    <3>2. decision_date[Latest(K)]' = decision_date[Latest(K)]
      BY <1>4, <1>7, <3>1, LatestIs DEF CarriersKept
    <3>3. /\ Dated(filed)' <=> Dated(filed)
          /\ DeadlineOf(filed)' = DeadlineOf(filed)
          /\ LapseBefore(filed)' = LapseBefore(filed)
      BY <1>7, <2>1, <2>2, <2>4, <3>2 DEF Dated, DeadlineOf, LapseBefore, None
    <3>. QED BY <3>3 DEF compute_lapse_status, CarriersKept
  <2>. QED BY <2>3, <2>4
<1>. QED BY <1>8, <1>11, <1>12, <1>13

(* What a step finds of one application it leaves of the others. *)
LEMMA OneAtATime ==
  ASSUME PositionTypeOK, PositionNext, NEW a \in App, Changes(a)
  PROVE  /\ today' = today
         /\ \A c \in App \ {a} :
              /\ (c \in filed <=> c \in filed')
              /\ decided'[c] = decided[c] /\ decision_date'[c] = decision_date[c]
              /\ total_units'[c] = total_units[c]
<1>. DEFINE Alike(b) == /\ today' = today
                        /\ \A c \in App \ {b} :
                             /\ (c \in filed <=> c \in filed')
                             /\ decided'[c] = decided[c] /\ decision_date'[c] = decision_date[c]
                             /\ total_units'[c] = total_units[c]
<1>1. ~ NextDay
  BY DEF NextDay, Changes
<1>2. PICK b \in App : Touch(b)
  BY <1>1 DEF PositionNext
<1>3. Alike(b)
  <2>1. CASE File(b)
    BY <2>1 DEF File
  <2>2. ASSUME NEW d, NEW day, Decide(b, d, day) PROVE Alike(b)
    BY <2>2 DEF Decide, PositionTypeOK
  <2>3. ASSUME NEW day, CorrectDate(b, day) PROVE Alike(b)
    BY <2>3 DEF CorrectDate, PositionTypeOK
  <2>4. ASSUME NEW u, Extract(b, u) PROVE Alike(b)
    BY <2>4 DEF Extract, PositionTypeOK
  <2>. QED BY <1>2, <2>1, <2>2, <2>3, <2>4 DEF Touch
<1>4. a = b
  BY <1>3 DEF Changes
<1>. QED BY <1>3, <1>4

(* Whatever happens to an amendment, a certificate or details of conditions, nothing said *)
(* of the site changes, but whether any grant was seen (SUBSTANTIVE_ROLES).               *)
THEOREM AncillaryStaysInert ==
  ASSUME PositionAssumption PROVE PositionSpec => AncillaryIsInert
<1>1. ASSUME PositionTypeOK, PositionTypeOK', [PositionNext]_positionVars,
             NEW a \in filed', Inert(a), Changes(a)
      PROVE  /\ consented_reference' = consented_reference
             /\ units' = units
             /\ resolve_canonical_decision_status' = resolve_canonical_decision_status
             /\ compute_lapse_status(filed)' # compute_lapse_status(filed) =>
                  compute_lapse_status(filed)' \in {"not_granted", "not_determined"}
  <2>1. PositionNext
    BY <1>1 DEF positionVars, Changes
  <2>2. a \in App /\ ~ Carries(a)
    BY <1>1 DEF PositionTypeOK, Inert, Carries, Substantive, Variation
  <2>3. CarriersKept
    BY <1>1, <2>1, <2>2, OneAtATime DEF CarriersKept, SameCarriers
  <2>. QED BY <1>1, <2>3, AnswersKept
<1>2. PositionTypeOK /\ PositionTypeOK' /\ [PositionNext]_positionVars =>
        [\A a \in filed' : Inert(a) /\ Changes(a) =>
           /\ consented_reference' = consented_reference
           /\ units' = units
           /\ resolve_canonical_decision_status' = resolve_canonical_decision_status
           /\ compute_lapse_status(filed)' # compute_lapse_status(filed) =>
                compute_lapse_status(filed)' \in {"not_granted", "not_determined"}]_positionVars
  BY <1>1
<1>. QED BY <1>2, SiteTyped, PTL DEF PositionSpec, AncillaryIsInert

-----------------------------------------------------------------------------
(* The passing of a day. *)

(* Of any group a day leaves the grants, and takes a clock that runs only further. *)
LEMMA ADayErodes ==
  ASSUME PositionAssumption, PositionTypeOK, NextDay, NEW A, A \subseteq App
  PROVE  /\ resolve_operative_lapse_anchor(A)' = resolve_operative_lapse_anchor(A)
         /\ LapseRank(compute_lapse_status(A)') <= LapseRank(compute_lapse_status(A))
         /\ compute_lapse_status(A)' \in {"safe", "approaching"} =>
              compute_lapse_status(A) \in {"safe", "approaching"}
<1>1. /\ resolve_operative_lapse_anchor(A)' = resolve_operative_lapse_anchor(A)
      /\ LapseBefore(A)' = LapseBefore(A)
      /\ Dated(A)' <=> Dated(A)
      /\ DeadlineOf(A)' = DeadlineOf(A)
  <2>1. Granted(A)' = Granted(A)
    BY DEF NextDay, Granted
  <2>2. resolve_operative_lapse_anchor(A)' = resolve_operative_lapse_anchor(A)
    <3>1. PICK S : S = SubstantiveOf(Granted(A)) /\ S = SubstantiveOf(Granted(A))'
      BY <2>1 DEF SubstantiveOf, Substantive
    <3>2. resolve_operative_lapse_anchor(A) = IF S = {} THEN None ELSE LatestBy(decision_date, S)
      BY <3>1 DEF resolve_operative_lapse_anchor, Latest, Later, LaterBy, LatestBy
    <3>3. resolve_operative_lapse_anchor(A)' = IF S = {} THEN None ELSE LatestBy(decision_date', S)
      BY <3>1 DEF resolve_operative_lapse_anchor, Latest, Later, LaterBy, LatestBy, None
    <3>. QED BY <3>2, <3>3 DEF NextDay
  <2>. QED BY <2>1, <2>2 DEF NextDay, LapseBefore, Dated, DeadlineOf, None
<1>2. LapseBefore(A) \in {"not_granted", "not_determined", "unknown"}
  BY DEF LapseBefore
<1>3. CASE ~ Dated(A)
  <2>1. compute_lapse_status(A)' = LapseBefore(A) /\ compute_lapse_status(A) = LapseBefore(A)
    BY <1>1, <1>3 DEF compute_lapse_status
  <2>. QED BY <1>1, <1>2, <2>1 DEF LapseRank
<1>4. CASE Dated(A)
  <2>1. DeadlineOf(A) \in Int
    <3>1. SubstantiveOf(Granted(A)) \in SUBSET App
      BY DEF SubstantiveOf, Granted
    <3>2. SubstantiveOf(Granted(A)) # {}
      BY <1>4, NoneIsLatestOfNone DEF Dated, resolve_operative_lapse_anchor
    <3>3. resolve_operative_lapse_anchor(A) \in App
      BY <3>1, <3>2, LatestIs DEF resolve_operative_lapse_anchor
    <3>4. decision_date[resolve_operative_lapse_anchor(A)] \in Nat
      BY <3>3 DEF PositionTypeOK
    <3>. QED BY <3>4 DEF DeadlineOf, PositionAssumption
  <2>2. /\ today \in Nat /\ today' = today + 1 /\ Warning \in Nat
    BY DEF NextDay, PositionTypeOK, PositionAssumption
  <2>3. compute_lapse_status(A) =
          IF DeadlineOf(A) < today THEN "lapsed"
          ELSE IF today >= DeadlineOf(A) - Warning THEN "approaching" ELSE "safe"
    BY <1>4, <2>1, <2>2 DEF compute_lapse_status
  <2>4. compute_lapse_status(A)' =
          IF DeadlineOf(A) < today + 1 THEN "lapsed"
          ELSE IF today + 1 >= DeadlineOf(A) - Warning THEN "approaching" ELSE "safe"
    BY <1>1, <1>4, <2>1, <2>2 DEF compute_lapse_status
  <2>. QED BY <1>1, <2>1, <2>2, <2>3, <2>4 DEF LapseRank
<1>. QED BY <1>3, <1>4

(* A clock goes from safe to approaching to lapsed and a phasing from current to          *)
(* historical, never back, unless something new is found (compute_lapse_status,           *)
(* derive_acquisition_phasing_evidence).                                                  *)
THEOREM TimeErodesOnly ==
  ASSUME PositionAssumption PROVE PositionSpec => TimeOnlyErodes
<1>1. ASSUME PositionTypeOK, NextDay
      PROVE  /\ LapseRank(compute_lapse_status(filed)') <= LapseRank(compute_lapse_status(filed))
             /\ PhasingRank(derive_acquisition_phasing_evidence')
                  <= PhasingRank(derive_acquisition_phasing_evidence)
  <2>1. PICK F : F = filed /\ F = filed' /\ F \subseteq App
    BY <1>1 DEF NextDay, PositionTypeOK
  <2>2. /\ compute_lapse_status(filed)' = compute_lapse_status(F)'
        /\ compute_lapse_status(filed) = compute_lapse_status(F)
    BY <2>1 DEF compute_lapse_status, Dated, LapseBefore, DeadlineOf, Granted,
                resolve_operative_lapse_anchor
  <2>3. SUFFICES ASSUME derive_acquisition_phasing_evidence' = "current"
                 PROVE  derive_acquisition_phasing_evidence = "current"
    BY <1>1, <2>1, <2>2, ADayErodes DEF PhasingRank
  <2>4. Phases' = Phases /\ \A g : group_applications_by_phase(g)' = group_applications_by_phase(g)
    BY <1>1 DEF NextDay, Phases, PhaseGroups, group_applications_by_phase, Labels, UNPHASED
  <2>5. ASSUME NEW g
        PROVE  /\ resolve_operative_lapse_anchor(group_applications_by_phase(g))'
                    = resolve_operative_lapse_anchor(group_applications_by_phase(g))
               /\ compute_phase_progress(group_applications_by_phase(g))'
                    = compute_phase_progress(group_applications_by_phase(g))
               /\ compute_lapse_status(group_applications_by_phase(g))' \in {"safe", "approaching"} =>
                    compute_lapse_status(group_applications_by_phase(g)) \in {"safe", "approaching"}
    <3>. DEFINE group == group_applications_by_phase(g)
    <3>1. PICK G : G = group /\ G = group' /\ G \subseteq App
      <4>1. group \subseteq App
        BY <1>1 DEF group_applications_by_phase, PositionTypeOK
      <4>2. group' = group
        BY <2>4
      <4>. HIDE DEF group
      <4>. QED BY <4>1, <4>2
    <3>2. /\ resolve_operative_lapse_anchor(G)' = resolve_operative_lapse_anchor(G)
          /\ compute_lapse_status(G)' \in {"safe", "approaching"} =>
               compute_lapse_status(G) \in {"safe", "approaching"}
      BY <1>1, <3>1, ADayErodes
    <3>3. compute_phase_progress(G)' = compute_phase_progress(G)
      BY <1>1, <3>2 DEF compute_phase_progress, NextDay, ProgressFiling, None
    <3>4. /\ resolve_operative_lapse_anchor(group)' = resolve_operative_lapse_anchor(G)'
          /\ compute_lapse_status(group)' = compute_lapse_status(G)'
          /\ compute_phase_progress(group)' = compute_phase_progress(G)'
      <4>. HIDE DEF group
      <4>. QED BY <3>1 DEF compute_lapse_status, Dated, LapseBefore, DeadlineOf, Granted,
                           resolve_operative_lapse_anchor, compute_phase_progress, ProgressFiling
    <3>5. /\ resolve_operative_lapse_anchor(group) = resolve_operative_lapse_anchor(G)
          /\ compute_lapse_status(group) = compute_lapse_status(G)
          /\ compute_phase_progress(group) = compute_phase_progress(G)
      BY <3>1
    <3>. QED BY <3>2, <3>3, <3>4, <3>5
  <2>6. ~ \E g \in Phases : compute_phase_progress(group_applications_by_phase(g)) = "TypeError"
    BY <2>3, <2>4, <2>5 DEF derive_acquisition_phasing_evidence
  <2>7. PICK g \in Phases :
          /\ resolve_operative_lapse_anchor(group_applications_by_phase(g)) # None
          /\ compute_lapse_status(group_applications_by_phase(g)) \in {"safe", "approaching"}
    BY <2>3, <2>4, <2>5 DEF derive_acquisition_phasing_evidence, None
  <2>. QED BY <2>6, <2>7 DEF derive_acquisition_phasing_evidence
<1>. QED BY <1>1, SiteTyped, PTL DEF PositionSpec, TimeOnlyErodes
=============================================================================
