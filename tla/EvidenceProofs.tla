----------------------------- MODULE EvidenceProofs -----------------------------
(***************************************************************************)
(* The evidence pipeline keeps its types, clears a request only after a    *)
(* check that reached everything, still wants what it failed to download,  *)
(* and has read what it counts as processed.                               *)
(***************************************************************************)
EXTENDS EvidencePipelineProperties, TLAPS, FiniteSetTheorems

Circuits == [failures : Nat, open : BOOLEAN]

(***************************************************************************)
(* The operators: the breaker, families, reasons and outcomes.             *)
(***************************************************************************)

\* An answer, or a failure, leaves a breaker; an answer does not open it, and
\* an open one stays as it is (record_success, record_failure).
LEMMA BreakerKept ==
  ASSUME NEW b \in Circuits, NEW x
  PROVE  /\ record_success(b) \in Circuits /\ record_failure(b, x) \in Circuits
         /\ Record(b, x) \in Circuits
         /\ record_success(b).open = b.open
         /\ b.open => record_failure(b, x).open /\ Record(b, x).open
         /\ ~b.open /\ Record(b, x).open => x # "ok"
<1>1. record_success(b) \in Circuits /\ record_success(b).open = b.open
  BY DEF record_success, Circuits
<1>2. record_failure(b, x) \in Circuits
  BY DEF record_failure, Circuits, PORTAL_CIRCUIT_FAILURE_THRESHOLD
<1>3. b.open => record_failure(b, x) = b /\ record_success(b) = b
  BY DEF record_failure, record_success
<1>4. Record(b, x) = IF x = "ok" THEN record_success(b) ELSE record_failure(b, x)
  BY DEF Record
<1> QED BY <1>1, <1>2, <1>3, <1>4

\* A family is of applications and has the application it is the family of
\* (resolve_application_family).
LEMMA FamilyIsOfApps ==
  ASSUME NEW a \in Apps
  PROVE  resolve_application_family(a) \subseteq Apps /\ a \in resolve_application_family(a)
BY DEF resolve_application_family

Routed == UNION {ROUTING(r) : r \in Reasons}

\* What reasons ask for are categories (REASON_ROUTING), and all of it is routed.
LEMMA ReasonsAskForCategories ==
  ASSUME NEW rs \in SUBSET Reasons
  PROVE  /\ target_doc_types_for_reasons(rs) \subseteq Categories
         /\ target_doc_types_for_reasons(rs) \subseteq Routed
         /\ Routed \subseteq Categories
<1>1. \A r \in Reasons : ROUTING(r) \subseteq Categories
  BY ReasonAssumption DEF ROUTING, Categories
<1> QED BY <1>1 DEF target_doc_types_for_reasons, Routed

\* One depth for all the reasons, or every category: a document that every
\* reason reads is read whatever the reasons are (refresh_depth_for_reasons).
LEMMA SharedIsInDepth ==
  ASSUME NEW d \in Shared, NEW rs \in SUBSET Reasons
  PROVE  Category[d] \in refresh_depth_for_reasons(rs)
<1> DEFINE D == {DepthOf(r) : r \in rs}
<1>1. CASE Cardinality(D) = 1
  <2>1. D # {}
    BY <1>1, FS_EmptySet
  <2>2. PICK s \in rs : DepthOf(s) \in D
    BY <2>1
  <2>3. Category[d] \in DepthOf(s)
    BY <2>2 DEF Shared
  <2>4. refresh_depth_for_reasons(rs) = UNION D
    BY <1>1 DEF refresh_depth_for_reasons
  <2> QED BY <2>2, <2>3, <2>4
<1>2. CASE Cardinality(D) # 1
  <2>1. refresh_depth_for_reasons(rs) = Categories
    BY <1>2 DEF refresh_depth_for_reasons
  <2> QED BY <2>1, PortalAssumption DEF Shared
<1> QED BY <1>1, <1>2

\* The outcome of a family is one its members had, and it clears the request
\* only when every member's does (_OUTCOME_PRIORITY).
LEMMA OverallIsOfMembers ==
  ASSUME daily.outcomes \subseteq Outcomes, daily.outcomes # {}
  PROVE  /\ Overall \in daily.outcomes
         /\ Overall \in CLEARING_OUTCOMES => daily.outcomes \subseteq CLEARING_OUTCOMES
<1> DEFINE P == _OUTCOME_PRIORITY
           S == {i \in 1..4 : P[i] \in daily.outcomes}
<1>1. /\ P[1] = "portal_unavailable" /\ P[2] = "acquisition_incomplete"
      /\ P[3] = "new_material_evidence" /\ P[4] = "checked_no_new_evidence"
  BY DEF _OUTCOME_PRIORITY
<1> HIDE DEF P
<1>2. 1 \in S \/ 2 \in S \/ 3 \in S \/ 4 \in S
  BY <1>1 DEF Outcomes, CLEARING_OUTCOMES
<1>3. \E x \in S : \A y \in S : x <= y
  <2>1. CASE 1 \in S
    BY <2>1
  <2>2. CASE 1 \notin S /\ 2 \in S
    <3>1. \A y \in S : 2 <= y
      BY <2>2
    <3> QED BY <2>2, <3>1
  <2>3. CASE 1 \notin S /\ 2 \notin S /\ 3 \in S
    <3>1. \A y \in S : 3 <= y
      BY <2>3
    <3> QED BY <2>3, <3>1
  <2>4. CASE 1 \notin S /\ 2 \notin S /\ 3 \notin S
    <3>1. 4 \in S /\ \A y \in S : 4 <= y
      BY <2>4, <1>2
    <3> QED BY <3>1
  <2> QED BY <2>1, <2>2, <2>3, <2>4
<1>4. PICK m \in S : m = Min(S) /\ \A y \in S : m <= y
  BY <1>3 DEF Min
<1>5. Overall = P[m]
  BY <1>4 DEF Overall, P
<1>6. P[m] \in daily.outcomes
  BY <1>4
<1>7. P[m] \in CLEARING_OUTCOMES => m >= 3
  <2>1. m \in 1..4
    BY <1>4
  <2> QED BY <2>1, <1>1 DEF CLEARING_OUTCOMES
<1>8. m >= 3 => daily.outcomes \subseteq CLEARING_OUTCOMES
  <2>1. m >= 3 => 1 \notin S /\ 2 \notin S
    BY <1>4
  <2>2. 1 \notin S => "portal_unavailable" \notin daily.outcomes
    BY <1>1
  <2>3. 2 \notin S => "acquisition_incomplete" \notin daily.outcomes
    BY <1>1
  <2> QED BY <2>1, <2>2, <2>3 DEF Outcomes
<1> QED BY <1>5, <1>6, <1>7, <1>8

(***************************************************************************)
(* The types.                                                              *)
(***************************************************************************)

\* Nothing under way has the types of a pass and of a run (a new council run).
LEMMA NothingIsTyped ==
  /\ NoPass \in Passes /\ NoRun \in DailyRuns
  /\ NoPass.app = 0 /\ NoPass.rows = {} /\ NoPass.complete /\ NoPass.fresh = {}
  /\ NoRun.stage = "idle" /\ NoRun.queue = {} /\ NoRun.target = 0 /\ NoRun.family = {}
  /\ NoRun.pass = NoPass /\ NoRun.known = {} /\ NoRun.outcomes = {}
<1>1. NoPass \in Passes
  BY DEF NoPass, Passes
<1>2. ClosedCircuit \in Circuits
  BY DEF ClosedCircuit, Circuits
<1>3. NoRun \in DailyRuns
  BY <1>1, <1>2 DEF NoRun, DailyRuns, Circuits
<1> QED BY <1>1, <1>3 DEF NoPass, NoRun

\* What is wanted now are categories that reasons route to, or all of them.
LEMMA WantedAreCategories ==
  ASSUME EvidenceTypeOK, daily.stage = "documents" \/ daily.target # 0
  PROVE  Wanted \subseteq Categories
<1>1. CASE daily.stage = "documents"
  BY <1>1 DEF Wanted
<1>2. CASE daily.stage # "documents"
  <2>1. daily.target \in Apps
    BY <1>2 DEF EvidenceTypeOK, DailyRuns
  <2>2. app[daily.target].reasons \in SUBSET Reasons
    BY <2>1 DEF EvidenceTypeOK, Evidence
  <2> QED BY <1>2, <2>2, ReasonsAskForCategories DEF Wanted
<1> QED BY <1>1, <1>2

\* The pass that opens has its types (the register page was listed).
LEMMA PassOpens ==
  ASSUME EvidenceTypeOK, NEW a \in Apps, OpenPass(a)
  PROVE  /\ daily' \in DailyRuns
         /\ daily'.stage = daily.stage /\ daily'.queue = daily.queue
         /\ daily'.target = daily.target /\ daily'.family = daily.family
         /\ daily'.outcomes = daily.outcomes /\ daily'.known = daily.known
         /\ daily'.breaker.open = daily.breaker.open
         /\ daily'.pass.app = a /\ daily'.pass.rows = Listed(a, Wanted) \ stored
         /\ daily'.pass.complete /\ daily'.pass.fresh = {}
<1> DEFINE b == record_success(daily.breaker)
           R == Listed(a, Wanted) \ stored
           p == [NoPass EXCEPT !.app = a, !.rows = R]
<1>1. daily \in DailyRuns /\ daily.breaker \in Circuits
  BY DEF EvidenceTypeOK, DailyRuns, Circuits
<1>2. b \in Circuits /\ b.open = daily.breaker.open
  BY <1>1, BreakerKept
<1>3. R \in SUBSET Docs
  BY DEF Listed, EvidenceTypeOK
<1>4. daily' = [daily EXCEPT !.breaker = b, !.pass = p]
  BY DEF OpenPass
<1> HIDE DEF R
<1>5. /\ p \in Passes /\ p.app = a /\ p.rows = R
      /\ p.complete = NoPass.complete /\ p.fresh = NoPass.fresh
  BY <1>3, NothingIsTyped DEF Passes
<1> HIDE DEF b, p
<1>6. daily' \in DailyRuns
  BY <1>1, <1>2, <1>4, <1>5 DEF DailyRuns, Circuits
<1>7. /\ daily'.stage = daily.stage /\ daily'.queue = daily.queue
      /\ daily'.target = daily.target /\ daily'.family = daily.family
      /\ daily'.outcomes = daily.outcomes /\ daily'.known = daily.known
      /\ daily'.breaker = b /\ daily'.pass = p
  BY <1>1, <1>4 DEF DailyRuns
<1> QED BY <1>2, <1>5, <1>6, <1>7, NothingIsTyped DEF R

\* A member is settled: the run keeps its types, its outcome is one of the
\* outcomes, and the members left stay unless the circuit is open
\* (_refresh_one_application).
LEMMA MemberSettles ==
  ASSUME EvidenceTypeOK, NEW m, NEW o \in Outcomes, NEW b \in Circuits, Settle(m, o, b)
  PROVE  /\ daily' \in DailyRuns
         /\ daily'.stage = daily.stage /\ daily'.queue = daily.queue
         /\ daily'.target = daily.target /\ daily'.known = daily.known
         /\ daily'.pass = NoPass /\ daily'.breaker = b
         /\ daily'.family = IF b.open THEN {} ELSE daily.family \ {m}
         /\ o \in daily'.outcomes /\ daily.outcomes \subseteq daily'.outcomes
         /\ ~b.open => daily'.outcomes = daily.outcomes \cup {o}
         /\ b.open /\ daily.family \ {m} # {} => "portal_unavailable" \in daily'.outcomes
         /\ b.open /\ daily.family \ {m} = {} => daily'.outcomes = daily.outcomes \cup {o}
<1> DEFINE left == daily.family \ {m}
           f == IF b.open THEN {} ELSE left
           os == daily.outcomes \cup {o} \cup
                   (IF b.open /\ left # {} THEN {"portal_unavailable"} ELSE {})
<1>1. daily \in DailyRuns
  BY DEF EvidenceTypeOK
<1>2. f \in SUBSET Apps
  BY <1>1 DEF DailyRuns
<1>3. os \in SUBSET Outcomes
  BY <1>1 DEF DailyRuns, Outcomes
<1>4. daily' = [daily EXCEPT !.pass = NoPass, !.breaker = b, !.family = f, !.outcomes = os]
  BY <1>1 DEF Settle, DailyRuns
<1> HIDE DEF f, os
<1>5. daily' \in DailyRuns
  BY <1>1, <1>2, <1>3, <1>4, NothingIsTyped DEF DailyRuns, Circuits
<1>6. /\ daily'.stage = daily.stage /\ daily'.queue = daily.queue
      /\ daily'.target = daily.target /\ daily'.known = daily.known
      /\ daily'.pass = NoPass /\ daily'.breaker = b
      /\ daily'.family = f /\ daily'.outcomes = os
  BY <1>1, <1>4 DEF DailyRuns
<1> QED BY <1>5, <1>6 DEF f, os

\* One row of the pass: it is done with, and in hand if the portal answered.
LEMMA RowIsDone ==
  ASSUME EvidenceTypeOK, NEW d \in Docs, DownloadRow(d)
  PROVE  /\ daily' \in DailyRuns
         /\ daily'.stage = daily.stage /\ daily'.queue = daily.queue
         /\ daily'.target = daily.target /\ daily'.known = daily.known
         /\ daily'.family = daily.family /\ daily'.outcomes = daily.outcomes
         /\ daily'.breaker = Record(daily.breaker, Answer(d))
         /\ daily'.pass.app = daily.pass.app
         /\ daily'.pass.rows = daily.pass.rows \ {d}
         /\ Answer(d) = "ok" => /\ daily'.pass.fresh = daily.pass.fresh \cup {d}
                                /\ daily'.pass.complete = daily.pass.complete
                                /\ owed' = owed
         /\ Answer(d) # "ok" => /\ daily'.pass.fresh = daily.pass.fresh
                                /\ ~daily'.pass.complete /\ owed' = owed \cup {d}
<1> DEFINE b == Record(daily.breaker, Answer(d))
           rs == daily.pass.rows \ {d}
           fs == daily.pass.fresh \cup {d}
           p == [daily.pass EXCEPT !.rows = rs, !.fresh = fs]
           q == [daily.pass EXCEPT !.rows = rs, !.complete = FALSE]
           done == [daily EXCEPT !.pass.rows = @ \ {d}, !.breaker = Record(@, Answer(d))]
           taken == [daily.pass EXCEPT !.rows = rs]
<1>1. daily \in DailyRuns /\ daily.breaker \in Circuits /\ daily.pass \in Passes
  BY DEF EvidenceTypeOK, DailyRuns, Circuits
<1>2. b \in Circuits
  BY <1>1, BreakerKept
<1>3. p \in Passes /\ q \in Passes
  <2>1. rs \in SUBSET Docs /\ fs \in SUBSET Docs
    BY <1>1 DEF Passes
  <2> HIDE DEF rs, fs
  <2> QED BY <1>1, <2>1 DEF Passes
<1>4. /\ Answer(d) = "ok" => daily' = [daily EXCEPT !.pass = p, !.breaker = b]
      /\ Answer(d) # "ok" => daily' = [daily EXCEPT !.pass = q, !.breaker = b]
  <2>1. done = [daily EXCEPT !.pass = taken, !.breaker = b]
    BY <1>1 DEF DailyRuns
  <2>2. /\ Answer(d) = "ok" => daily' = [done EXCEPT !.pass.fresh = @ \cup {d}]
        /\ Answer(d) # "ok" => daily' = [done EXCEPT !.pass.complete = FALSE]
    BY DEF DownloadRow
  <2> HIDE DEF done, taken, b
  <2>3. done.pass = taken /\ done.pass.fresh = daily.pass.fresh
    BY <1>1, <2>1 DEF DailyRuns, Passes, taken
  <2>4. /\ Answer(d) = "ok" => daily' = [done EXCEPT !.pass = [taken EXCEPT !.fresh = fs]]
        /\ Answer(d) # "ok" => daily' = [done EXCEPT !.pass = [taken EXCEPT !.complete = FALSE]]
    BY <2>2, <2>3
  <2>5. [taken EXCEPT !.fresh = fs] = p /\ [taken EXCEPT !.complete = FALSE] = q
    BY <1>1 DEF Passes, taken
  <2> HIDE DEF p, q, fs
  <2>6. \A x : [done EXCEPT !.pass = x] = [daily EXCEPT !.pass = x, !.breaker = b]
    BY <1>1, <2>1 DEF DailyRuns
  <2> QED BY <2>4, <2>5, <2>6
<1>6. PICK r \in {p, q} : /\ daily' = [daily EXCEPT !.pass = r, !.breaker = b]
                          /\ r = IF Answer(d) = "ok" THEN p ELSE q
  BY <1>4
<1> HIDE DEF b, p, q
<1>7. daily' \in DailyRuns
  BY <1>1, <1>2, <1>3, <1>6 DEF DailyRuns, Circuits
<1>8. /\ daily'.stage = daily.stage /\ daily'.queue = daily.queue
      /\ daily'.target = daily.target /\ daily'.known = daily.known
      /\ daily'.family = daily.family /\ daily'.outcomes = daily.outcomes
      /\ daily'.breaker = b /\ daily'.pass = r
  BY <1>1, <1>6 DEF DailyRuns
<1>9. /\ r.app = daily.pass.app /\ r.rows = rs
      /\ Answer(d) = "ok" => /\ r.fresh = daily.pass.fresh \cup {d}
                             /\ r.complete = daily.pass.complete
      /\ Answer(d) # "ok" => r.fresh = daily.pass.fresh /\ ~r.complete
  BY <1>1, <1>6 DEF p, q, Passes
<1>10. IF Answer(d) = "ok" THEN owed' = owed ELSE owed' = owed \cup {d}
  BY DEF DownloadRow
<1> QED BY <1>7, <1>8, <1>9, <1>10 DEF b

\* What the job's session keeps of documents has its types (application.documents).
LEMMA KeepingTypes ==
  ASSUME EvidenceTypeOK, NEW as \in SUBSET Apps
  PROVE  /\ Loaded(as) \subseteq Docs
         /\ DOMAIN Keeping(as) = DOMAIN intel.docs \cup as
         /\ DOMAIN Keeping(as) \subseteq Apps
         /\ Keeping(as) \in [DOMAIN Keeping(as) -> SUBSET Docs]
         /\ \A a \in as \cup DOMAIN intel.docs :
              Keeping(as)[a] = IF a \in DOMAIN intel.docs THEN intel.docs[a] ELSE DocumentsOf({a})
<1>1. /\ DOMAIN intel.docs \subseteq Apps /\ stored \subseteq Docs
      /\ \A a \in DOMAIN intel.docs : intel.docs[a] \subseteq Docs
  BY DEF EvidenceTypeOK
<1>2. \A a \in Apps : DocumentsOf({a}) \subseteq Docs
  BY <1>1 DEF DocumentsOf
<1>3. \A bs \in SUBSET Apps : Loaded(bs) \subseteq Docs
  <2> DEFINE k(a) == IF a \in DOMAIN intel.docs THEN intel.docs[a] ELSE DocumentsOf({a})
  <2>1. \A a \in Apps : k(a) \subseteq Docs
    BY <1>1, <1>2
  <2>2. \A bs \in SUBSET Apps : Loaded(bs) = UNION {k(a) : a \in bs}
    BY DEF Loaded
  <2> HIDE DEF k
  <2> SUFFICES ASSUME NEW bs \in SUBSET Apps, NEW d \in Loaded(bs) PROVE d \in Docs
    OBVIOUS
  <2>3. PICK a \in bs : d \in k(a)
    BY <2>2
  <2> QED BY <2>1, <2>3
<1>4. \A a \in Apps : Loaded({a}) = IF a \in DOMAIN intel.docs THEN intel.docs[a]
                                    ELSE DocumentsOf({a})
  BY DEF Loaded
<1>5. DOMAIN Keeping(as) = DOMAIN intel.docs \cup as
  BY DEF Keeping
<1>6. \A a \in DOMAIN intel.docs \cup as : Keeping(as)[a] = Loaded({a})
  BY DEF Keeping
<1>7. Keeping(as) = [a \in DOMAIN intel.docs \cup as |-> Keeping(as)[a]]
  BY DEF Keeping
<1>8. \A a \in DOMAIN intel.docs \cup as : Keeping(as)[a] \in SUBSET Docs
  BY <1>1, <1>3, <1>6
<1>9. Keeping(as) \in [DOMAIN intel.docs \cup as -> SUBSET Docs]
  BY <1>7, <1>8
<1> QED BY <1>1, <1>3, <1>4, <1>5, <1>6, <1>9

\* The initial state has its types.
LEMMA TypesInit == Init => EvidenceTypeOK
<1> SUFFICES ASSUME Init PROVE EvidenceTypeOK
  OBVIOUS
<1>1. stored \subseteq Docs /\ owed \subseteq Docs
  BY DEF Init
<1>2. portal \in [listed : SUBSET Docs, up : BOOLEAN, broken : SUBSET (Docs \cup Apps)]
  BY <1>1 DEF Init
<1>3. app \in [Apps -> Evidence]
  <2>1. \A a \in Apps : NewApplication(a) \in Evidence
    BY DEF NewApplication, Evidence
  <2> QED BY <2>1 DEF Init
<1>4. scheme \in [Apps -> [exists : BOOLEAN, read : SUBSET Docs]]
  BY DEF Init
<1>5. daily \in DailyRuns
  BY NothingIsTyped DEF Init
<1>6. intel \in Jobs
  <2>1. /\ NoJob.stage = "idle" /\ NoJob.todo = {} /\ NoJob.at = 0 /\ NoJob.read = {}
        /\ NoJob.loaded = <<>> /\ NoJob.docs = <<>>
    BY DEF NoJob
  <2>2. intel = NoJob
    BY DEF Init
  <2>3. NoJob \in [stage : {"idle", "refresh", "extract"}, todo : SUBSET Apps,
                   loaded : {<<>>}, docs : {<<>>}, at : Apps \cup {0}, read : SUBSET Docs]
    BY DEF NoJob
  <2>4. /\ intel \in [stage : {"idle", "refresh", "extract"}, todo : SUBSET Apps,
                      loaded : {<<>>}, docs : {<<>>}, at : Apps \cup {0}, read : SUBSET Docs]
        /\ intel.loaded = <<>> /\ intel.docs = <<>>
    BY <2>1, <2>2, <2>3
  <2> QED BY <2>4 DEF Jobs
<1>7. /\ DOMAIN intel.loaded \subseteq Apps /\ intel.loaded \in [DOMAIN intel.loaded -> LoadedRow]
      /\ DOMAIN intel.docs \subseteq Apps /\ intel.docs \in [DOMAIN intel.docs -> SUBSET Docs]
  <2>1. intel.loaded = <<>> /\ intel.docs = <<>>
    BY DEF Init, NoJob
  <2>2. DOMAIN <<>> = {} /\ <<>> \in [DOMAIN <<>> -> LoadedRow]
        /\ <<>> \in [DOMAIN <<>> -> SUBSET Docs]
    OBVIOUS
  <2> QED BY <2>1, <2>2
<1>8. spent \in [changes : Nat, outages : Nat, crashes : Nat, errors : Nat]
  BY DEF Init
<1>9. /\ found \in [Apps -> SUBSET Docs] /\ handed \in [Apps -> SUBSET Docs]
      /\ asked \in [Apps -> SUBSET Categories]
  BY DEF Init
<1> QED BY <1>1, <1>2, <1>3, <1>4, <1>5, <1>6, <1>7, <1>8, <1>9 DEF EvidenceTypeOK

\* A step of the portal, or one that changes the daily run only, keeps the types
\* if the run's are kept.
LEMMA RunOnly ==
  ASSUME EvidenceTypeOK, daily' \in DailyRuns,
         portal' \in [listed : SUBSET Docs, up : BOOLEAN, broken : SUBSET (Docs \cup Apps)],
         spent' \in [changes : Nat, outages : Nat, crashes : Nat, errors : Nat],
         app' \in [Apps -> Evidence], stored' \subseteq Docs, owed' \subseteq Docs,
         found' \in [Apps -> SUBSET Docs], handed' \in [Apps -> SUBSET Docs],
         asked' \in [Apps -> SUBSET Categories], UNCHANGED <<scheme, intel>>
  PROVE  EvidenceTypeOK'
BY DEF EvidenceTypeOK, Jobs, DailyRuns, Passes

\* A step of the job keeps the types if its own are kept.
LEMMA JobOnly ==
  ASSUME EvidenceTypeOK, app' \in [Apps -> Evidence],
         scheme' \in [Apps -> [exists : BOOLEAN, read : SUBSET Docs]],
         intel' \in [stage : {"idle", "refresh", "extract"}, todo : SUBSET Apps,
                     loaded : {intel'.loaded}, docs : {intel'.docs},
                     at : Apps \cup {0}, read : SUBSET Docs],
         DOMAIN intel'.loaded \subseteq Apps,
         intel'.loaded \in [DOMAIN intel'.loaded -> LoadedRow],
         DOMAIN intel'.docs \subseteq Apps,
         intel'.docs \in [DOMAIN intel'.docs -> SUBSET Docs],
         spent' \in [changes : Nat, outages : Nat, crashes : Nat, errors : Nat],
         UNCHANGED <<portal, stored, daily, history>>
  PROVE  EvidenceTypeOK'
BY DEF EvidenceTypeOK, Jobs, DailyRuns, Passes, history

\* The steps of the portal, and the killed run, keep the types.
LEMMA TypesOfPortal ==
  ASSUME EvidenceTypeOK, Breaks \/ Heals \/ Killed \/ \E d \in Docs : Publish(d)
  PROVE  EvidenceTypeOK'
<1> DEFINE Portals == [listed : SUBSET Docs, up : BOOLEAN, broken : SUBSET (Docs \cup Apps)]
           Bounds  == [changes : Nat, outages : Nat, crashes : Nat, errors : Nat]
<1>1. /\ portal \in Portals /\ spent \in Bounds /\ daily \in DailyRuns
      /\ app \in [Apps -> Evidence] /\ stored \subseteq Docs /\ owed \subseteq Docs
      /\ found \in [Apps -> SUBSET Docs] /\ handed \in [Apps -> SUBSET Docs]
      /\ asked \in [Apps -> SUBSET Categories]
  BY DEF EvidenceTypeOK
<1>2. UNCHANGED <<app, stored, scheme, intel, history>>
  BY DEF Breaks, Heals, Killed, Publish
<1>3. portal' \in Portals /\ spent' \in Bounds /\ daily' \in DailyRuns
  <2>1. CASE Breaks
    <3>1. spent' \in Bounds /\ daily' = daily
      BY <2>1, <1>1 DEF Breaks
    <3>2. /\ \/ portal' = [portal EXCEPT !.up = FALSE]
             \/ \E x \in Docs \cup Apps : portal' = [portal EXCEPT !.broken = @ \cup {x}]
      BY <2>1, PortalAssumption DEF Breaks
    <3>3. CASE portal' = [portal EXCEPT !.up = FALSE]
      BY <1>1, <3>1, <3>3
    <3>4. ASSUME NEW x \in Docs \cup Apps, portal' = [portal EXCEPT !.broken = @ \cup {x}]
          PROVE  portal' \in Portals
      BY <1>1, <3>4
    <3> QED BY <1>1, <3>1, <3>2, <3>3, <3>4
  <2>2. CASE Heals
    <3>1. \/ portal' = [portal EXCEPT !.up = TRUE]
          \/ \E x \in portal.broken : portal' = [portal EXCEPT !.broken = @ \ {x}]
      BY <2>2 DEF Heals
    <3>2. CASE portal' = [portal EXCEPT !.up = TRUE]
      BY <1>1, <2>2, <3>2 DEF Heals
    <3>3. ASSUME NEW x \in portal.broken, portal' = [portal EXCEPT !.broken = @ \ {x}]
          PROVE  portal' \in Portals
      BY <1>1, <3>3
    <3> QED BY <1>1, <2>2, <3>1, <3>2, <3>3 DEF Heals
  <2>3. CASE Killed
    BY <2>3, <1>1, NothingIsTyped DEF Killed
  <2>4. CASE \E d \in Docs : Publish(d)
    BY <2>4, <1>1 DEF Publish
  <2> QED BY <2>1, <2>2, <2>3, <2>4
<1> QED BY <1>1, <1>2, <1>3, RunOnly DEF history

\* The steps of the daily run keep the types: the scrape, the document stage,
\* the refresh.
LEMMA TypesOfRun ==
  ASSUME EvidenceTypeOK, daily.target # 0 /\ daily.family = {} => daily.outcomes # {},
         \/ RunStep
         \/ \E a \in Apps, rs \in (SUBSET Reasons) \ {{}} : _upsert_scraped_application(a, rs)
  PROVE  EvidenceTypeOK'
<1> DEFINE Bounds == [changes : Nat, outages : Nat, crashes : Nat, errors : Nat]
<1>1. /\ portal \in [listed : SUBSET Docs, up : BOOLEAN, broken : SUBSET (Docs \cup Apps)]
      /\ spent \in Bounds /\ daily \in DailyRuns
      /\ app \in [Apps -> Evidence] /\ stored \subseteq Docs /\ owed \subseteq Docs
      /\ found \in [Apps -> SUBSET Docs] /\ handed \in [Apps -> SUBSET Docs]
      /\ asked \in [Apps -> SUBSET Categories]
  BY DEF EvidenceTypeOK
<1>2. /\ daily.pass \in Passes /\ daily.breaker \in Circuits /\ daily.target \in Apps \cup {0}
      /\ daily.family \subseteq Apps /\ daily.queue \subseteq Apps
  BY <1>1 DEF DailyRuns, Circuits
<1>3. ASSUME daily' \in DailyRuns, UNCHANGED <<portal, app, stored, scheme, intel, spent, history>>
      PROVE  EvidenceTypeOK'
  BY <1>1, <1>3, RunOnly DEF history
<1>4. CASE StartRun
  <2>1. daily' \in DailyRuns
    BY <1>1, <1>4, NothingIsTyped DEF StartRun, DailyRuns
  <2> QED BY <2>1, <1>3, <1>4 DEF StartRun
<1>5. CASE \E a \in Apps, rs \in (SUBSET Reasons) \ {{}} : _upsert_scraped_application(a, rs)
  <2>1. PICK a \in Apps, rs \in (SUBSET Reasons) \ {{}} : _upsert_scraped_application(a, rs)
    BY <1>5
  <2>2. daily' \in DailyRuns
    BY <1>1, <2>1 DEF _upsert_scraped_application, DailyRuns
  <2>3. app' \in [Apps -> Evidence] /\ spent' \in Bounds
    <3> DEFINE n == spent.changes + 1
               r == [app[a] EXCEPT !.required = TRUE, !.reasons = rs, !.requested = n]
    <3>1. n \in Nat /\ spent' = [spent EXCEPT !.changes = n]
      <4>1. spent' = [spent EXCEPT !.changes = @ + 1]
        BY <2>1 DEF _upsert_scraped_application
      <4> QED BY <1>1, <4>1
    <3>2. spent' \in Bounds
      BY <1>1, <3>1
    <3>3. app' = [app EXCEPT ![a] = r]
      BY <1>1, <2>1 DEF _upsert_scraped_application
    <3> HIDE DEF n
    <3>4. app[a] \in Evidence
      BY <1>1
    <3>5. r \in Evidence
      BY <3>1, <3>4 DEF Evidence
    <3> HIDE DEF r
    <3> QED BY <1>1, <3>2, <3>3, <3>5
  <2>4. asked' \in [Apps -> SUBSET Categories]
    BY <1>1, <2>1, ReasonsAskForCategories DEF _upsert_scraped_application
  <2> QED BY <1>1, <2>1, <2>2, <2>3, <2>4, RunOnly DEF _upsert_scraped_application
<1>6. CASE BeginDocuments
  <2>1. {a \in Apps : DOCUMENT_DISCOVERY_ELIGIBLE(a)} \subseteq Apps
    OBVIOUS
  <2>2. daily' \in DailyRuns
    BY <1>1, <1>6, <2>1 DEF BeginDocuments, DailyRuns
  <2> QED BY <2>2, <1>3, <1>6 DEF BeginDocuments
<1>7. CASE BeginRefresh
  <2>1. select_refresh_candidates \subseteq Apps
    BY DEF select_refresh_candidates
  <2>2. daily' \in DailyRuns
    BY <1>1, <1>7, <2>1 DEF BeginRefresh, DailyRuns
  <2> QED BY <2>2, <1>3, <1>7 DEF BeginRefresh
<1>8. CASE EndRun
  BY <1>3, <1>8, NothingIsTyped DEF EndRun
<1>9. CASE \E a \in Apps : stage_documents(a)
  <2>1. PICK a \in Apps : stage_documents(a)
    BY <1>9
  <2> DEFINE skip == [daily EXCEPT !.queue = @ \ {a}]
  <2>2. skip \in DailyRuns /\ skip.breaker \in Circuits
    BY <1>1 DEF DailyRuns, Circuits
  <2>3. CASE daily' = skip
    BY <2>1, <2>2, <2>3, <1>3 DEF stage_documents
  <2>4. CASE OpenPass(a)
    BY <2>1, <2>4, <1>3, PassOpens DEF stage_documents
  <2>5. CASE daily' = [skip EXCEPT !.breaker = record_failure(@, Answer(a))]
    <3>1. record_failure(skip.breaker, Answer(a)) \in Circuits
      BY <2>2, BreakerKept
    <3>2. daily' \in DailyRuns
      <4> HIDE DEF skip
      <4> QED BY <2>2, <2>5, <3>1 DEF DailyRuns, Circuits
    <3> QED BY <2>1, <3>2, <1>3 DEF stage_documents
  <2> QED BY <2>1, <2>3, <2>4, <2>5 DEF stage_documents
<1>10. CASE \E a \in Apps : RefreshBegins(a)
  <2>1. PICK a \in Apps : RefreshBegins(a)
    BY <1>10
  <2>2. daily' \in DailyRuns
    BY <1>1, <2>1, FamilyIsOfApps DEF RefreshBegins, DailyRuns
  <2> QED BY <2>1, <2>2, <1>3 DEF RefreshBegins
<1>11. CASE \E a \in Apps : _refresh_one_application(a)
  <2>1. PICK a \in Apps : _refresh_one_application(a)
    BY <1>11
  <2>2. UNCHANGED <<portal, app, stored, scheme, intel, spent, history>>
    BY <2>1 DEF _refresh_one_application
  <2>3. CASE OpenPass(a)
    BY <2>2, <2>3, <1>3, PassOpens
  <2>4. ASSUME ~OpenPass(a)
        PROVE  \E o \in Outcomes, b \in Circuits : Settle(a, o, b)
    <3>1. record_failure(daily.breaker, Answer(a)) \in Circuits
      BY <1>2, BreakerKept
    <3>2. {"portal_unavailable", "acquisition_incomplete"} \subseteq Outcomes
      BY DEF Outcomes
    <3> QED BY <2>1, <2>4, <1>2, <3>1, <3>2 DEF _refresh_one_application
  <2>5. CASE \E o \in Outcomes, b \in Circuits : Settle(a, o, b)
    BY <2>2, <2>5, <1>3, MemberSettles
  <2> QED BY <2>3, <2>4, <2>5
<1>12. CASE \E d \in Docs : DownloadRow(d)
  <2>1. PICK d \in Docs : DownloadRow(d)
    BY <1>12
  <2>2. daily' \in DailyRuns /\ owed' \subseteq Docs
    BY <1>1, <2>1, RowIsDone
  <2> QED BY <1>1, <2>1, <2>2, RunOnly DEF DownloadRow
<1>13. CASE SavePass
  <2> DEFINE a == daily.pass.app
  <2>1. stored' \subseteq Docs /\ owed' \subseteq Docs
    BY <1>1, <1>2, <1>13 DEF SavePass, Passes
  <2>2. app' \in [Apps -> Evidence]
    <3>1. app' = app \/ app' = [app EXCEPT ![a].checked = TRUE, ![a].legacy = FALSE]
      BY <1>13 DEF SavePass
    <3> HIDE DEF a
    <3> DEFINE r == [app[a] EXCEPT !.checked = TRUE, !.legacy = FALSE]
    <3>2. app' = app \/ app' = [app EXCEPT ![a] = r]
      BY <1>1, <3>1
    <3>3. ASSUME a \in Apps PROVE r \in Evidence
      <4>1. app[a] \in Evidence
        BY <1>1, <3>3
      <4> QED BY <4>1 DEF Evidence
    <3> HIDE DEF r
    <3> QED BY <1>1, <3>2, <3>3
  <2>3. CASE daily.stage = "documents"
    <3>1. daily' = [daily EXCEPT !.queue = @ \ {a}, !.pass = NoPass] /\ found' = found
      BY <1>13, <2>3 DEF SavePass
    <3>2. daily' \in DailyRuns
      BY <1>1, <3>1, NothingIsTyped DEF DailyRuns
    <3> QED BY <1>1, <1>13, <2>1, <2>2, <3>1, <3>2, RunOnly DEF SavePass
  <2>4. CASE daily.stage # "documents"
    <3>1. PICK o \in Outcomes : Settle(a, o, daily.breaker)
      BY <1>13, <2>4 DEF SavePass, Outcomes, CLEARING_OUTCOMES
    <3>2. daily' \in DailyRuns
      BY <1>2, <3>1, MemberSettles
    <3>3. found' \in [Apps -> SUBSET Docs]
      BY <1>1, <1>2, <1>13, <2>4 DEF SavePass, Passes
    <3> QED BY <1>1, <1>13, <2>1, <2>2, <3>2, <3>3, RunOnly DEF SavePass
  <2> QED BY <2>3, <2>4
<1>14. CASE RefreshAnswers
  <2>1. daily' \in DailyRuns
    BY <1>1, <1>14 DEF RefreshAnswers, DailyRuns
  <2>2. found' \in [Apps -> SUBSET Docs] /\ handed' \in [Apps -> SUBSET Docs]
    BY <1>1, <1>14 DEF RefreshAnswers
  <2>3. asked' \in [Apps -> SUBSET Categories]
    BY <1>1, <1>14 DEF RefreshAnswers
  <2>4. app' \in [Apps -> Evidence]
    <3>1. Overall \in Outcomes
      BY <1>1, <1>14, OverallIsOfMembers DEF RefreshAnswers, DailyRuns
    <3> DEFINE a == daily.target
               q == app[a].required /\ ~(Overall \in CLEARING_OUTCOMES)
               c == IF Overall = "new_material_evidence" THEN app[a].changed + 1 ELSE app[a].changed
               r == [app[a] EXCEPT !.outcome = Overall, !.required = q, !.changed = c]
    <3>2. a \in Apps /\ app[a] \in Evidence
      BY <1>1, <1>2, <1>14 DEF RefreshAnswers
    <3>3. c \in Nat /\ q \in BOOLEAN
      BY <3>2 DEF Evidence
    <3>4. app' = [app EXCEPT ![a] = r]
      BY <1>1, <1>14 DEF RefreshAnswers
    <3> HIDE DEF q, c
    <3>5. r \in Evidence
      BY <3>1, <3>2, <3>3 DEF Evidence
    <3> HIDE DEF r
    <3> QED BY <1>1, <3>2, <3>4, <3>5
  <2> QED BY <1>1, <1>14, <2>1, <2>2, <2>3, <2>4, RunOnly DEF RefreshAnswers
<1> QED BY <1>4, <1>5, <1>6, <1>7, <1>8, <1>9, <1>10, <1>11, <1>12, <1>13, <1>14 DEF RunStep

\* One column of an application changes (the watermark, or the outcome of the
\* extraction): the columns keep their types.
LEMMA ColumnsTyped ==
  ASSUME app \in [Apps -> Evidence], NEW a \in Apps, NEW x,
         \/ x \in Nat /\ app' = [app EXCEPT ![a].processed = x]
         \/ /\ x \in {"none", "no_usable_text", "failed"}
            /\ app' = [app EXCEPT ![a].extraction = x]
  PROVE  app' \in [Apps -> Evidence]
<1>1. app[a] \in Evidence
  OBVIOUS
<1>2. CASE x \in Nat /\ app' = [app EXCEPT ![a].processed = x]
  <2> DEFINE r == [app[a] EXCEPT !.processed = x]
  <2>1. app' = [app EXCEPT ![a] = r]
    BY <1>2
  <2>2. r \in Evidence
    BY <1>1, <1>2 DEF Evidence
  <2> HIDE DEF r
  <2> QED BY <2>1, <2>2
<1>3. CASE x \in {"none", "no_usable_text", "failed"} /\ app' = [app EXCEPT ![a].extraction = x]
  <2> DEFINE r == [app[a] EXCEPT !.extraction = x]
  <2>1. app' = [app EXCEPT ![a] = r]
    BY <1>3
  <2>2. r \in Evidence
    BY <1>1, <1>3 DEF Evidence
  <2> HIDE DEF r
  <2> QED BY <2>1, <2>2
<1> QED BY <1>2, <1>3

\* The steps of Intelligence Processing keep the types.
LEMMA TypesOfJob ==
  ASSUME EvidenceTypeOK, JobStep \/ LlmFails,
         intel.stage = "refresh" /\ intel.at # 0 => intel.at \in DOMAIN intel.loaded
  PROVE  EvidenceTypeOK'
<1> DEFINE Schemes == [exists : BOOLEAN, read : SUBSET Docs]
           Bounds  == [changes : Nat, outages : Nat, crashes : Nat, errors : Nat]
           Shape(ld, ds) == [stage : {"idle", "refresh", "extract"}, todo : SUBSET Apps,
                             loaded : {ld}, docs : {ds}, at : Apps \cup {0}, read : SUBSET Docs]
           Loads(ld) == DOMAIN ld \subseteq Apps /\ ld \in [DOMAIN ld -> LoadedRow]
           Kept(ds)  == DOMAIN ds \subseteq Apps /\ ds \in [DOMAIN ds -> SUBSET Docs]
<1>1. /\ app \in [Apps -> Evidence] /\ scheme \in [Apps -> Schemes] /\ spent \in Bounds
      /\ intel \in Shape(intel.loaded, intel.docs) /\ Loads(intel.loaded) /\ Kept(intel.docs)
  BY DEF EvidenceTypeOK, Jobs
<1>2. ASSUME app' \in [Apps -> Evidence], scheme' \in [Apps -> Schemes],
             NEW ld, NEW ds, Loads(ld), Kept(ds), intel' \in Shape(ld, ds), spent' \in Bounds,
             UNCHANGED <<portal, stored, daily, history>>
      PROVE  EvidenceTypeOK'
  <2>1. intel'.loaded = ld /\ intel'.docs = ds
    BY <1>2
  <2> QED BY <1>2, <2>1, JobOnly
<1>3. DOMAIN <<>> = {} /\ Loads(<<>>) /\ Kept(<<>>)
  OBVIOUS
<1>4. NoJob \in Shape(<<>>, <<>>)
  BY DEF NoJob
<1>5. CASE SelectIntelligenceRefresh
  <2> DEFINE C == {a \in Apps : INTELLIGENCE_REFRESH_ELIGIBLE(a)}
             ld == [a \in C |-> [changed |-> app[a].changed, reasons |-> app[a].reasons]]
  <2>1. Loads(ld)
    <3>1. \A a \in C : [changed |-> app[a].changed, reasons |-> app[a].reasons] \in LoadedRow
      BY <1>1 DEF Evidence, LoadedRow
    <3> QED BY <3>1
  <2>2. intel' = [NoJob EXCEPT !.stage = "refresh", !.todo = C, !.loaded = ld]
    BY <1>5 DEF SelectIntelligenceRefresh
  <2>3. C \subseteq Apps
    OBVIOUS
  <2>4. intel' \in Shape(ld, <<>>)
    <3> HIDE DEF C, ld
    <3> QED BY <1>4, <2>2, <2>3
  <2>5. UNCHANGED <<portal, app, stored, scheme, daily, spent, history>>
    BY <1>5 DEF SelectIntelligenceRefresh
  <2> HIDE DEF ld, Loads, Kept, Shape, Schemes, Bounds
  <2> QED BY <1>1, <1>2, <1>3, <2>1, <2>4, <2>5
<1>6. CASE SelectExtraction
  <2> DEFINE C == {a \in Apps : EXTRACTION_ELIGIBLE(a)}
  <2>1. intel' = [intel EXCEPT !.stage = "extract", !.loaded = <<>>, !.todo = C]
    BY <1>6 DEF SelectExtraction
  <2>2. C \subseteq Apps
    OBVIOUS
  <2>3. intel' \in Shape(<<>>, intel.docs)
    <3> HIDE DEF C
    <3> QED BY <1>1, <2>1, <2>2
  <2>4. UNCHANGED <<portal, app, stored, scheme, daily, spent, history>>
    BY <1>6 DEF SelectExtraction
  <2> HIDE DEF Loads, Kept, Shape, Schemes, Bounds
  <2> QED BY <1>1, <1>2, <1>3, <2>3, <2>4
<1>7. CASE \E a \in Apps : ReadsEvidence(a)
  <2>1. PICK a \in Apps : ReadsEvidence(a)
    BY <1>7
  <2> DEFINE K == Keeping(resolve_application_family(a))
             E == EvidenceOf(a)
  <2>2. Kept(K)
    BY FamilyIsOfApps, KeepingTypes
  <2>3. E \subseteq Docs
    BY FamilyIsOfApps, KeepingTypes DEF EvidenceOf
  <2>4. \/ intel' = [intel EXCEPT !.docs = K, !.todo = @ \ {a}]
        \/ intel' = [intel EXCEPT !.docs = K, !.at = a, !.read = E]
    BY <1>1, <2>1 DEF ReadsEvidence
  <2>5. intel' \in Shape(intel.loaded, K)
    <3> HIDE DEF K, E
    <3>1. CASE intel' = [intel EXCEPT !.docs = K, !.todo = @ \ {a}]
      BY <1>1, <3>1
    <3>2. CASE intel' = [intel EXCEPT !.docs = K, !.at = a, !.read = E]
      BY <1>1, <2>3, <3>2
    <3> QED BY <2>4, <3>1, <3>2
  <2>6. UNCHANGED <<portal, app, stored, scheme, daily, spent, history>>
    BY <2>1 DEF ReadsEvidence
  <2> HIDE DEF K, Loads, Kept, Shape, Schemes, Bounds
  <2> QED BY <1>1, <1>2, <2>2, <2>5, <2>6
<1>8. CASE \E a \in Apps : ReadsText(a)
  <2>1. PICK a \in Apps : ReadsText(a)
    BY <1>8
  <2> DEFINE K == Keeping({a})
             T == Loaded({a}) \cap Readable
  <2>2. Kept(K) /\ T \subseteq Docs
    BY KeepingTypes
  <2>3. \/ /\ intel' = [intel EXCEPT !.docs = K, !.todo = @ \ {a}]
           /\ app' = [app EXCEPT ![a].extraction = "no_usable_text"]
        \/ intel' = [intel EXCEPT !.docs = K, !.at = a, !.read = T] /\ app' = app
    BY <1>1, <2>1 DEF ReadsText
  <2>4. intel' \in Shape(intel.loaded, K)
    <3> HIDE DEF K, T
    <3>1. CASE intel' = [intel EXCEPT !.docs = K, !.todo = @ \ {a}]
      BY <1>1, <3>1
    <3>2. CASE intel' = [intel EXCEPT !.docs = K, !.at = a, !.read = T]
      BY <1>1, <2>2, <3>2
    <3> QED BY <2>3, <3>1, <3>2
  <2>5. app' \in [Apps -> Evidence]
    BY <1>1, <2>3, ColumnsTyped
  <2>6. UNCHANGED <<portal, stored, scheme, daily, spent, history>>
    BY <2>1 DEF ReadsText
  <2> HIDE DEF K, Loads, Kept, Shape, Schemes, Bounds
  <2> QED BY <1>1, <1>2, <2>2, <2>4, <2>5, <2>6
<1>9. CASE LlmAnswers
  <2> DEFINE a == intel.at
             s == [exists |-> TRUE, read |-> scheme[a].read \cup intel.read]
  <2>1. a \in Apps /\ intel.read \subseteq Docs
    BY <1>1, <1>9 DEF LlmAnswers
  <2>2. s \in Schemes
    BY <1>1, <2>1
  <2>3. scheme' = [scheme EXCEPT ![a] = s]
    BY <1>1, <2>1, <1>9 DEF LlmAnswers
  <2>4. scheme' \in [Apps -> Schemes]
    <3> HIDE DEF s, a
    <3> QED BY <1>1, <2>2, <2>3
  <2>5. app' \in [Apps -> Evidence]
    <3>1. CASE intel.stage = "refresh"
      <4>1. LoadedWatermark(a) \in Nat
        BY <1>1, <1>9, <3>1 DEF LlmAnswers, LoadedWatermark, LoadedRow
      <4>2. app' = [app EXCEPT ![a].processed = LoadedWatermark(a)]
        BY <1>9, <3>1 DEF LlmAnswers
      <4> QED BY <1>1, <2>1, <4>1, <4>2, ColumnsTyped
    <3>2. CASE intel.stage # "refresh"
      <4>1. app' = [app EXCEPT ![a].extraction = "none"]
        BY <1>9, <3>2 DEF LlmAnswers
      <4> QED BY <1>1, <2>1, <4>1, ColumnsTyped
    <3> QED BY <3>1, <3>2
  <2>6. intel' \in Shape(intel.loaded, intel.docs)
    <3>1. intel' = [intel EXCEPT !.todo = @ \ {a}, !.at = 0, !.read = {}]
      BY <1>9 DEF LlmAnswers
    <3> HIDE DEF a
    <3> QED BY <1>1, <3>1
  <2>7. UNCHANGED <<portal, stored, daily, spent, history>>
    BY <1>9 DEF LlmAnswers
  <2> HIDE DEF Loads, Kept, Shape, Schemes, Bounds
  <2> QED BY <1>1, <1>2, <2>4, <2>5, <2>6, <2>7
<1>10. CASE LlmFails
  <2> DEFINE a == intel.at
  <2>1. app' = app \/ app' = [app EXCEPT ![a].extraction = "failed"]
    BY <1>10 DEF LlmFails
  <2>2. app' \in [Apps -> Evidence]
    <3>1. a \in Apps
      BY <1>1, <1>10 DEF LlmFails
    <3> QED BY <1>1, <2>1, <3>1, ColumnsTyped
  <2>3. intel' = [intel EXCEPT !.todo = @ \ {a}, !.at = 0, !.read = {}]
    BY <1>10 DEF LlmFails
  <2>4. intel' \in Shape(intel.loaded, intel.docs)
    <3> HIDE DEF a
    <3> QED BY <1>1, <2>3
  <2>5. spent' = [spent EXCEPT !.errors = @ + 1]
    BY <1>10 DEF LlmFails
  <2>6. spent' \in Bounds
    BY <1>1, <2>5
  <2>7. UNCHANGED <<portal, stored, scheme, daily, history>>
    BY <1>10 DEF LlmFails
  <2> HIDE DEF Loads, Kept, Shape, Schemes, Bounds
  <2> QED BY <1>1, <1>2, <2>2, <2>4, <2>6, <2>7
<1>11. CASE EndJob
  <2>1. intel' \in Shape(<<>>, <<>>)
    BY <1>4, <1>11 DEF EndJob
  <2>2. UNCHANGED <<portal, app, stored, scheme, daily, spent, history>>
    BY <1>11 DEF EndJob
  <2> HIDE DEF Loads, Kept, Shape, Schemes, Bounds
  <2> QED BY <1>1, <1>2, <1>3, <2>1, <2>2
<1> QED BY <1>5, <1>6, <1>7, <1>8, <1>9, <1>10, <1>11 DEF JobStep

(***************************************************************************)
(* The acquisition: what a pass, a queue and a family have come to.        *)
(***************************************************************************)

\* A member that was checked without a failure has a register, and what it
\* listed in the wanted categories when the run began, or some pass failed to
\* get, is stored.
Reached(m) ==
  /\ m \in HasUrl
  /\ \A d \in daily.known \cup owed : Owner[d] = m /\ Category[d] \in Wanted => d \in stored

\* The pass under way: whose it is, that it has taken in all the register
\* listed, and that an open circuit has marked it.
PassHolds ==
  daily.pass # NoPass =>
    /\ daily.stage = "documents" => daily.pass.app \in daily.queue
    /\ daily.stage # "documents" => daily.target # 0 /\ daily.pass.app \in daily.family
    /\ daily.pass.app \in Apps \cap HasUrl
    /\ daily.pass.rows \cap stored = {} /\ daily.pass.rows \subseteq portal.listed
    /\ \A d \in daily.pass.rows \cup daily.pass.fresh :
         Owner[d] = daily.pass.app /\ Category[d] \in Wanted
    /\ daily.pass.complete =>
         /\ ~daily.breaker.open
         /\ \A d \in daily.known \cup owed :
              Owner[d] = daily.pass.app /\ Category[d] \in Wanted
                => d \in stored \cup daily.pass.rows \cup daily.pass.fresh

\* What waits in a stage's queue is still eligible for it, and a refresh goes
\* on to its next member only with a closed circuit.
QueueHolds ==
  /\ daily.stage = "documents" => \A a \in daily.queue : DOCUMENT_DISCOVERY_ELIGIBLE(a)
  /\ daily.stage = "refresh" => \A a \in daily.queue : app[a].required /\ a # daily.target
  /\ daily.target # 0 => daily.stage = "refresh" /\ app[daily.target].required
  /\ daily.target = 0 => daily.family = {}
  /\ daily.stage \notin {"documents", "refresh"} => daily.pass = NoPass
  /\ daily.pass = NoPass /\ daily.family # {} => ~daily.breaker.open
  /\ \A a \in Apps : app[a].required => app[a].reasons # {}

\* The refresh under way: as long as only clearing outcomes were met, every
\* member that is done was reached.
FamilyHolds ==
  daily.target # 0 =>
    /\ daily.family \subseteq resolve_application_family(daily.target)
    /\ daily.outcomes = {} => daily.family = resolve_application_family(daily.target)
    /\ daily.outcomes \subseteq CLEARING_OUTCOMES =>
         \A m \in resolve_application_family(daily.target) \ daily.family : Reached(m)

\* What is owed or known was listed; what is owed is not stored.
OwedHolds == owed \cup daily.known \subseteq portal.listed /\ owed \cap stored = {}

AcquisitionHolds == PassHolds /\ QueueHolds /\ FamilyHolds /\ OwedHolds

\* The job is at a candidate it has loaded.
JobWaits ==
  /\ intel.stage # "refresh" => DOMAIN intel.loaded = {}
  /\ intel.stage = "refresh" => intel.todo \subseteq DOMAIN intel.loaded
  /\ intel.at # 0 => intel.at \in intel.todo

AcquisitionInv == EvidenceTypeOK /\ AcquisitionHolds /\ JobWaits

\* What is wanted depends on the stage and on the reasons of the target.
LEMMA WantedStays ==
  ASSUME EvidenceTypeOK, daily.stage = "documents" \/ daily.target # 0,
         daily'.stage = daily.stage, daily'.target = daily.target,
         \A a \in Apps : app'[a].reasons = app[a].reasons
  PROVE  Wanted' = Wanted
<1>1. daily.target \in Apps \cup {0}
  BY DEF EvidenceTypeOK, DailyRuns
<1> QED BY <1>1 DEF Wanted

\* A step of the portal or of the job leaves the acquisition as it was.
LEMMA AcquisitionUntouched ==
  ASSUME EvidenceTypeOK, AcquisitionHolds, UNCHANGED <<daily, stored, owed>>,
         portal.listed \subseteq portal'.listed,
         \A a \in Apps : /\ app'[a].required = app[a].required
                         /\ app'[a].reasons = app[a].reasons
                         /\ app'[a].checked = app[a].checked /\ app'[a].legacy = app[a].legacy
  PROVE  AcquisitionHolds'
<1>1. /\ daily.queue \subseteq Apps /\ daily.target \in Apps \cup {0}
  BY DEF EvidenceTypeOK, DailyRuns
<1>2. daily.stage = "documents" \/ daily.target # 0 => Wanted' = Wanted
  BY WantedStays
<1>3. PassHolds'
  BY <1>2 DEF AcquisitionHolds, PassHolds
<1>4. QueueHolds'
  BY <1>1 DEF AcquisitionHolds, QueueHolds, DOCUMENT_DISCOVERY_ELIGIBLE
<1>5. FamilyHolds'
  BY <1>2 DEF AcquisitionHolds, FamilyHolds, Reached
<1>6. OwedHolds'
  BY DEF AcquisitionHolds, OwedHolds
<1> QED BY <1>3, <1>4, <1>5, <1>6 DEF AcquisitionHolds

\* Outside its two stages the run has nothing under way.
LEMMA NothingUnderWay ==
  ASSUME daily'.stage \notin {"documents", "refresh"}, daily'.target = 0, daily'.family = {},
         daily'.pass = NoPass, OwedHolds',
         \A a \in Apps : app'[a].required => app'[a].reasons # {}
  PROVE  AcquisitionHolds'
<1>1. PassHolds' /\ FamilyHolds'
  BY DEF PassHolds, FamilyHolds
<1>2. QueueHolds'
  BY DEF QueueHolds
<1> QED BY <1>1, <1>2 DEF AcquisitionHolds

\* A pass opens over what the register lists now: all that was known or owed.
LEMMA OpenPassHolds ==
  ASSUME EvidenceTypeOK, AcquisitionHolds, NEW a \in Apps \cap HasUrl, OpenPass(a),
         ~daily.breaker.open, UNCHANGED <<portal, app, stored, owed>>,
         daily.stage = "documents" => a \in daily.queue,
         daily.stage # "documents" => daily.target # 0 /\ a \in daily.family
  PROVE  AcquisitionHolds'
<1>1. /\ daily'.stage = daily.stage /\ daily'.queue = daily.queue
      /\ daily'.target = daily.target /\ daily'.family = daily.family
      /\ daily'.outcomes = daily.outcomes /\ daily'.known = daily.known
      /\ daily'.breaker.open = daily.breaker.open
      /\ daily'.pass.app = a /\ daily'.pass.rows = Listed(a, Wanted) \ stored
      /\ daily'.pass.complete /\ daily'.pass.fresh = {}
  BY PassOpens
<1>2. Wanted' = Wanted
  BY <1>1, WantedStays
<1>3. owed \cup daily.known \subseteq portal.listed
  BY DEF AcquisitionHolds, OwedHolds
<1>4. PassHolds'
  BY <1>1, <1>2, <1>3 DEF PassHolds, Listed
<1>5. QueueHolds'
  BY <1>1 DEF AcquisitionHolds, QueueHolds, DOCUMENT_DISCOVERY_ELIGIBLE
<1>6. FamilyHolds'
  BY <1>1, <1>2 DEF AcquisitionHolds, FamilyHolds, Reached
<1>7. OwedHolds'
  BY <1>1 DEF AcquisitionHolds, OwedHolds
<1> QED BY <1>4, <1>5, <1>6, <1>7 DEF AcquisitionHolds

\* A member settles: with a clearing outcome it was reached.
LEMMA SettleHolds ==
  ASSUME EvidenceTypeOK, AcquisitionHolds, daily.target # 0,
         NEW m \in daily.family, NEW o \in Outcomes, NEW b \in Circuits, Settle(m, o, b),
         UNCHANGED portal, stored \subseteq stored', OwedHolds',
         \A d \in owed' : d \in owed \/ Owner[d] = m,
         \A a \in Apps : app'[a].required = app[a].required /\ app'[a].reasons = app[a].reasons,
         o \in CLEARING_OUTCOMES =>
           /\ m \in HasUrl
           /\ \A d \in daily.known \cup owed' :
                Owner[d] = m /\ Category[d] \in Wanted => d \in stored'
  PROVE  AcquisitionHolds'
<1>1. /\ daily'.stage = daily.stage /\ daily'.queue = daily.queue
      /\ daily'.target = daily.target /\ daily'.known = daily.known
      /\ daily'.pass = NoPass /\ daily'.breaker = b
      /\ daily'.family = IF b.open THEN {} ELSE daily.family \ {m}
      /\ o \in daily'.outcomes /\ daily.outcomes \subseteq daily'.outcomes
      /\ b.open /\ daily.family \ {m} # {} => "portal_unavailable" \in daily'.outcomes
  BY MemberSettles
<1>2. Wanted' = Wanted
  BY <1>1, WantedStays
<1>3. daily.queue \subseteq Apps /\ daily.target \in Apps /\ daily.stage = "refresh"
  BY DEF EvidenceTypeOK, DailyRuns, AcquisitionHolds, QueueHolds
<1>4. PassHolds'
  BY <1>1 DEF PassHolds
<1>5. QueueHolds'
  BY <1>1, <1>3 DEF AcquisitionHolds, QueueHolds
<1>6. FamilyHolds'
  <2> DEFINE F == resolve_application_family(daily.target)
  <2>1. daily'.family \subseteq F /\ daily'.outcomes # {}
    BY <1>1 DEF AcquisitionHolds, FamilyHolds
  <2>2. ASSUME daily'.outcomes \subseteq CLEARING_OUTCOMES, NEW n \in F, n \notin daily'.family
        PROVE  Reached(n)'
    <3>1. "portal_unavailable" \notin CLEARING_OUTCOMES
      BY DEF CLEARING_OUTCOMES
    <3>2. o \in CLEARING_OUTCOMES /\ daily.outcomes \subseteq CLEARING_OUTCOMES
      BY <1>1, <2>2
    <3>3. n = m \/ n \notin daily.family
      BY <1>1, <2>2, <3>1
    <3>4. CASE n = m
      BY <1>1, <1>2, <3>2, <3>4 DEF Reached
    <3>5. CASE n # m /\ n \notin daily.family
      <4>1. Reached(n)
        BY <3>2, <3>5, <2>2 DEF AcquisitionHolds, FamilyHolds
      <4> QED BY <1>1, <1>2, <3>5, <4>1 DEF Reached
    <3> QED BY <3>3, <3>4, <3>5
  <2> QED BY <1>1, <2>1, <2>2 DEF FamilyHolds
<1> QED BY <1>4, <1>5, <1>6 DEF AcquisitionHolds

\* A row is downloaded or owed (discover_and_store_documents_for_application).
LEMMA DownloadRowHolds ==
  ASSUME EvidenceTypeOK, AcquisitionHolds, NEW d \in Docs, DownloadRow(d)
  PROVE  AcquisitionHolds'
<1>1. /\ daily'.stage = daily.stage /\ daily'.queue = daily.queue
      /\ daily'.target = daily.target /\ daily'.known = daily.known
      /\ daily'.family = daily.family /\ daily'.outcomes = daily.outcomes
      /\ daily'.breaker = Record(daily.breaker, Answer(d))
      /\ daily'.pass.app = daily.pass.app
      /\ daily'.pass.rows = daily.pass.rows \ {d}
      /\ Answer(d) = "ok" => /\ daily'.pass.fresh = daily.pass.fresh \cup {d}
                             /\ daily'.pass.complete = daily.pass.complete
                             /\ owed' = owed
      /\ Answer(d) # "ok" => /\ daily'.pass.fresh = daily.pass.fresh
                             /\ ~daily'.pass.complete /\ owed' = owed \cup {d}
  BY RowIsDone
<1>2. /\ d \in daily.pass.rows /\ ~daily.breaker.open
      /\ UNCHANGED <<portal, app, stored>>
  BY DEF DownloadRow
<1>3. daily.pass # NoPass /\ daily'.pass # NoPass
  <2>1. daily.pass # NoPass
    BY <1>2, NothingIsTyped
  <2>2. daily.pass.app \in Apps
    BY <2>1 DEF AcquisitionHolds, PassHolds
  <2> QED BY <1>1, <2>1, <2>2, NothingIsTyped, IdAssumption
<1>4. /\ daily.stage = "documents" => daily.pass.app \in daily.queue
      /\ daily.stage # "documents" => daily.target # 0 /\ daily.pass.app \in daily.family
      /\ daily.pass.app \in Apps \cap HasUrl
      /\ daily.pass.rows \cap stored = {} /\ daily.pass.rows \subseteq portal.listed
      /\ \A x \in daily.pass.rows \cup daily.pass.fresh :
           Owner[x] = daily.pass.app /\ Category[x] \in Wanted
      /\ daily.pass.complete =>
           \A x \in daily.known \cup owed :
              Owner[x] = daily.pass.app /\ Category[x] \in Wanted
                => x \in stored \cup daily.pass.rows \cup daily.pass.fresh
  BY <1>3 DEF AcquisitionHolds, PassHolds
<1>5. Wanted' = Wanted
  BY <1>1, <1>2, <1>4, WantedStays
<1>6. Answer(d) = "ok" => ~daily'.breaker.open
  <2>1. daily.breaker \in Circuits
    BY DEF EvidenceTypeOK, DailyRuns, Circuits
  <2> QED BY <1>1, <1>2, <2>1, BreakerKept
<1>7. PassHolds'
  <2>1. CASE Answer(d) = "ok"
    BY <1>1, <1>2, <1>4, <1>5, <1>6, <2>1 DEF PassHolds
  <2>2. CASE Answer(d) # "ok"
    BY <1>1, <1>2, <1>4, <1>5, <2>2 DEF PassHolds
  <2> QED BY <2>1, <2>2
<1>8. QueueHolds'
  BY <1>1, <1>2, <1>3, <1>4 DEF AcquisitionHolds, QueueHolds, DOCUMENT_DISCOVERY_ELIGIBLE
<1>9. FamilyHolds'
  <2>1. ASSUME NEW m, m \notin daily.family, daily.target # 0, Reached(m) PROVE Reached(m)'
    <3>1. daily.stage # "documents"
      BY <2>1 DEF AcquisitionHolds, QueueHolds
    <3>2. \A x \in owed' : x \in owed \/ Owner[x] # m
      BY <1>1, <1>2, <1>4, <2>1, <3>1
    <3> QED BY <1>1, <1>2, <1>5, <2>1, <3>2 DEF Reached
  <2> QED BY <1>1, <2>1 DEF AcquisitionHolds, FamilyHolds
<1>10. OwedHolds'
  BY <1>1, <1>2, <1>4 DEF AcquisitionHolds, OwedHolds
<1> QED BY <1>7, <1>8, <1>9, <1>10 DEF AcquisitionHolds

\* The pass ends, in either stage: what it has is stored, what it left is owed.
LEMMA SavePassHolds ==
  ASSUME EvidenceTypeOK, AcquisitionHolds, SavePass
  PROVE  AcquisitionHolds'
<1> DEFINE a == daily.pass.app
<1>1. /\ daily.pass # NoPass /\ (daily.pass.rows = {} \/ daily.breaker.open)
      /\ stored' = stored \cup daily.pass.fresh
      /\ owed' = (owed \cup daily.pass.rows) \ stored'
      /\ app' = IF daily.pass.complete THEN [app EXCEPT ![a].checked = TRUE, ![a].legacy = FALSE]
                ELSE app
      /\ UNCHANGED portal
  BY DEF SavePass, Completes
<1>2. /\ daily.stage = "documents" => a \in daily.queue
      /\ daily.stage # "documents" => daily.target # 0 /\ a \in daily.family
      /\ a \in Apps \cap HasUrl
      /\ daily.pass.rows \cap stored = {} /\ daily.pass.rows \subseteq portal.listed
      /\ \A x \in daily.pass.rows \cup daily.pass.fresh : Owner[x] = a /\ Category[x] \in Wanted
      /\ daily.pass.complete =>
           /\ ~daily.breaker.open
           /\ \A x \in daily.known \cup owed :
                Owner[x] = a /\ Category[x] \in Wanted
                  => x \in stored \cup daily.pass.rows \cup daily.pass.fresh
  BY <1>1 DEF AcquisitionHolds, PassHolds
<1>3. /\ daily \in DailyRuns /\ daily.breaker \in Circuits /\ app \in [Apps -> Evidence]
      /\ daily.queue \subseteq Apps
  BY DEF EvidenceTypeOK, DailyRuns, Circuits
<1>4. \A x \in Apps :
        /\ app'[x].required = app[x].required /\ app'[x].reasons = app[x].reasons
        /\ x # a => app'[x] = app[x]
  <2>1. app' = [app EXCEPT ![a] = [app[a] EXCEPT !.checked = TRUE, !.legacy = FALSE]] \/ app' = app
    BY <1>1, <1>2, <1>3
  <2>2. app[a] \in Evidence
    BY <1>2, <1>3
  <2>3. /\ [app[a] EXCEPT !.checked = TRUE, !.legacy = FALSE].required = app[a].required
        /\ [app[a] EXCEPT !.checked = TRUE, !.legacy = FALSE].reasons = app[a].reasons
    BY <2>2 DEF Evidence
  <2> QED BY <1>2, <1>3, <2>1, <2>3
<1>5. owed' \cap stored' = {} /\ owed' \cup daily.known \subseteq portal.listed
  BY <1>1, <1>2 DEF AcquisitionHolds, OwedHolds
<1>6. CASE daily.stage = "documents"
  <2>1. daily' = [daily EXCEPT !.queue = @ \ {a}, !.pass = NoPass]
    BY <1>6 DEF SavePass
  <2>2. /\ daily'.stage = daily.stage /\ daily'.queue = daily.queue \ {a}
        /\ daily'.target = daily.target /\ daily'.known = daily.known
        /\ daily'.family = daily.family /\ daily'.pass = NoPass
    BY <1>3, <2>1 DEF DailyRuns
  <2>3. daily.target = 0 /\ daily.family = {}
    BY <1>6 DEF AcquisitionHolds, QueueHolds
  <2>4. PassHolds' /\ FamilyHolds' /\ OwedHolds'
    BY <1>1, <1>5, <2>2, <2>3 DEF PassHolds, FamilyHolds, OwedHolds
  <2>5. QueueHolds'
    BY <1>3, <1>4, <1>6, <2>2, <2>3 DEF AcquisitionHolds, QueueHolds, DOCUMENT_DISCOVERY_ELIGIBLE
  <2> QED BY <2>4, <2>5 DEF AcquisitionHolds
<1>7. CASE daily.stage # "documents"
  <2>1. PICK o \in Outcomes :
          /\ Settle(a, o, daily.breaker)
          /\ o \in CLEARING_OUTCOMES => daily.pass.complete
    <3>1. Settle(a, IF ~Completes THEN "acquisition_incomplete"
                    ELSE IF daily.pass.fresh # {} THEN "new_material_evidence"
                    ELSE "checked_no_new_evidence", daily.breaker)
      BY <1>7 DEF SavePass
    <3> QED BY <3>1 DEF Outcomes, CLEARING_OUTCOMES, Completes
  <2>2. daily'.known = daily.known
    BY <1>3, <2>1, MemberSettles
  <2>3. OwedHolds'
    BY <1>1, <1>5, <2>2 DEF OwedHolds
  <2>4. \A x \in owed' : x \in owed \/ Owner[x] = a
    BY <1>1, <1>2
  <2>5. o \in CLEARING_OUTCOMES =>
          /\ a \in HasUrl
          /\ \A d \in daily.known \cup owed' :
               Owner[d] = a /\ Category[d] \in Wanted => d \in stored'
    BY <1>1, <1>2, <2>1
  <2> HIDE DEF a
  <2> QED BY <1>1, <1>2, <1>3, <1>4, <1>7, <2>1, <2>3, <2>4, <2>5, SettleHolds
<1> QED BY <1>6, <1>7

\* Every step of the daily run keeps the acquisition, its scrape included.
LEMMA AcquisitionStep ==
  ASSUME EvidenceTypeOK, AcquisitionHolds,
         \/ RunStep \/ Killed
         \/ \E a \in Apps, rs \in (SUBSET Reasons) \ {{}} : _upsert_scraped_application(a, rs)
  PROVE  AcquisitionHolds'
<1>1. /\ daily \in DailyRuns /\ daily.breaker \in Circuits /\ app \in [Apps -> Evidence]
      /\ daily.queue \subseteq Apps /\ daily.target \in Apps \cup {0}
  BY DEF EvidenceTypeOK, DailyRuns, Circuits
<1>2. OwedHolds /\ owed \subseteq portal.listed /\ owed \cap stored = {}
  BY DEF AcquisitionHolds, OwedHolds
<1>3. \A a \in Apps : app[a].required => app[a].reasons # {}
  BY DEF AcquisitionHolds, QueueHolds
<1>4. CASE StartRun
  <2>1. /\ daily'.stage = "scrape" /\ daily'.target = 0 /\ daily'.family = {}
        /\ daily'.pass = NoPass /\ daily'.known = portal.listed
    BY <1>4, NothingIsTyped DEF StartRun, DailyRuns
  <2>2. OwedHolds'
    BY <1>2, <1>4, <2>1 DEF StartRun, OwedHolds, history
  <2> QED BY <1>3, <1>4, <2>1, <2>2, NothingUnderWay DEF StartRun
<1>5. CASE EndRun \/ Killed
  <2>1. daily' = NoRun /\ UNCHANGED <<portal, app, stored, owed>>
    BY <1>5 DEF EndRun, Killed, history
  <2>2. OwedHolds'
    BY <1>2, <2>1, NothingIsTyped DEF OwedHolds
  <2> QED BY <1>3, <2>1, <2>2, NothingIsTyped, NothingUnderWay
<1>6. CASE \E a \in Apps, rs \in (SUBSET Reasons) \ {{}} : _upsert_scraped_application(a, rs)
  <2>1. PICK a \in Apps, rs \in (SUBSET Reasons) \ {{}} : _upsert_scraped_application(a, rs)
    BY <1>6
  <2>2. /\ daily'.stage = "scrape" /\ daily.stage = "scrape" /\ daily'.target = daily.target
        /\ daily'.family = daily.family /\ daily'.pass = daily.pass /\ daily'.known = daily.known
    BY <1>1, <2>1 DEF _upsert_scraped_application, DailyRuns
  <2>3. daily.target = 0 /\ daily.family = {} /\ daily.pass = NoPass
    BY <2>2 DEF AcquisitionHolds, QueueHolds
  <2>4. OwedHolds'
    BY <1>2, <2>1, <2>2 DEF _upsert_scraped_application, OwedHolds
  <2>5. \A x \in Apps : app'[x].required => app'[x].reasons # {}
    <3>1. app' = [app EXCEPT ![a].required = TRUE, ![a].reasons = rs,
                             ![a].requested = spent.changes + 1]
      BY <2>1 DEF _upsert_scraped_application
    <3>2. app[a] \in Evidence
      BY <1>1
    <3>3. app'[a].reasons = rs /\ \A x \in Apps \ {a} : app'[x] = app[x]
      BY <1>1, <3>1, <3>2 DEF Evidence
    <3>4. rs # {}
      OBVIOUS
    <3>5. \A x \in Apps : x # a => (app'[x].required => app'[x].reasons # {})
      BY <1>3, <3>3
    <3>6. app'[a].reasons # {}
      BY <3>3, <3>4
    <3> QED BY <3>5, <3>6
  <2> QED BY <2>2, <2>3, <2>4, <2>5, NothingUnderWay
<1>7. CASE BeginDocuments
  <2>1. /\ daily'.stage = "documents" /\ daily'.target = daily.target
        /\ daily'.family = daily.family /\ daily'.pass = daily.pass /\ daily'.known = daily.known
        /\ daily'.queue = {a \in Apps : DOCUMENT_DISCOVERY_ELIGIBLE(a)}
        /\ daily.stage = "scrape" /\ UNCHANGED <<portal, app, stored, owed>>
    BY <1>1, <1>7 DEF BeginDocuments, DailyRuns, history
  <2>2. daily.target = 0 /\ daily.family = {} /\ daily.pass = NoPass
    BY <2>1 DEF AcquisitionHolds, QueueHolds
  <2>3. PassHolds' /\ FamilyHolds' /\ OwedHolds'
    BY <1>2, <2>1, <2>2 DEF PassHolds, FamilyHolds, OwedHolds
  <2>4. QueueHolds'
    BY <1>3, <2>1, <2>2 DEF QueueHolds, DOCUMENT_DISCOVERY_ELIGIBLE
  <2> QED BY <2>3, <2>4 DEF AcquisitionHolds
<1>8. CASE BeginRefresh
  <2>1. /\ daily'.stage = "refresh" /\ daily'.target = daily.target
        /\ daily'.family = daily.family /\ daily'.pass = daily.pass /\ daily'.known = daily.known
        /\ daily'.queue = select_refresh_candidates
        /\ daily.stage = "documents" /\ UNCHANGED <<portal, app, stored, owed>>
        /\ daily.pass = NoPass
    BY <1>1, <1>8 DEF BeginRefresh, DailyRuns, history
  <2>2. daily.target = 0 /\ daily.family = {}
    BY <2>1 DEF AcquisitionHolds, QueueHolds
  <2>3. PassHolds' /\ FamilyHolds' /\ OwedHolds'
    BY <1>2, <2>1, <2>2 DEF PassHolds, FamilyHolds, OwedHolds
  <2>4. \A a \in select_refresh_candidates : a \in Apps /\ app[a].required
    BY DEF select_refresh_candidates
  <2>5. QueueHolds'
    BY <1>3, <2>1, <2>2, <2>4, IdAssumption DEF QueueHolds
  <2> QED BY <2>3, <2>5 DEF AcquisitionHolds
<1>9. CASE \E a \in Apps : stage_documents(a)
  <2>1. PICK a \in Apps : stage_documents(a)
    BY <1>9
  <2>2. /\ daily.stage = "documents" /\ daily.pass = NoPass /\ ~daily.breaker.open
        /\ a \in daily.queue /\ UNCHANGED <<portal, app, stored, owed>>
    BY <2>1 DEF stage_documents, Continues, history
  <2>3. daily.target = 0 /\ daily.family = {}
    BY <2>2 DEF AcquisitionHolds, QueueHolds
  <2>4. CASE a \in HasUrl /\ OpenPass(a)
    BY <2>2, <2>4, OpenPassHolds
  <2>5. CASE ~(a \in HasUrl /\ OpenPass(a))
    <3>1. /\ daily'.stage = daily.stage /\ daily'.queue = daily.queue \ {a}
          /\ daily'.target = daily.target /\ daily'.family = daily.family
          /\ daily'.pass = daily.pass /\ daily'.known = daily.known
      BY <1>1, <2>1, <2>5 DEF stage_documents, DailyRuns
    <3>2. PassHolds' /\ FamilyHolds' /\ OwedHolds'
      BY <1>2, <2>2, <2>3, <3>1 DEF PassHolds, FamilyHolds, OwedHolds
    <3>3. QueueHolds'
      BY <2>2, <2>3, <3>1 DEF AcquisitionHolds, QueueHolds, DOCUMENT_DISCOVERY_ELIGIBLE
    <3> QED BY <3>2, <3>3 DEF AcquisitionHolds
  <2> QED BY <2>4, <2>5
<1>10. CASE \E a \in Apps : RefreshBegins(a)
  <2>1. PICK a \in Apps : RefreshBegins(a)
    BY <1>10
  <2>2. /\ daily.stage = "refresh" /\ daily.target = 0 /\ ~daily.breaker.open
        /\ a \in daily.queue /\ UNCHANGED <<portal, app, stored, owed>>
        /\ daily' = [daily EXCEPT !.target = a, !.queue = @ \ {a}, !.outcomes = {},
                                  !.family = resolve_application_family(a)]
    BY <2>1 DEF RefreshBegins, Continues, history
  <2>3. daily.pass = NoPass /\ app[a].required
    BY <2>2 DEF AcquisitionHolds, PassHolds, QueueHolds
  <2>4. /\ daily'.stage = "refresh" /\ daily'.target = a /\ daily'.queue = daily.queue \ {a}
        /\ daily'.outcomes = {} /\ daily'.family = resolve_application_family(a)
        /\ daily'.pass = NoPass /\ daily'.known = daily.known
        /\ daily'.breaker = daily.breaker
    BY <1>1, <2>2, <2>3 DEF DailyRuns
  <2>5. PassHolds' /\ FamilyHolds' /\ OwedHolds'
    BY <1>2, <2>2, <2>4 DEF PassHolds, FamilyHolds, OwedHolds
  <2>6. QueueHolds'
    BY <1>3, <2>2, <2>3, <2>4, IdAssumption DEF AcquisitionHolds, QueueHolds
  <2> QED BY <2>5, <2>6 DEF AcquisitionHolds
<1>11. CASE \E a \in Apps : _refresh_one_application(a)
  <2>1. PICK a \in Apps : _refresh_one_application(a)
    BY <1>11
  <2>2. /\ daily.target # 0 /\ daily.pass = NoPass /\ a \in daily.family
        /\ UNCHANGED <<portal, app, stored, owed>>
    BY <2>1 DEF _refresh_one_application, history
  <2>3. daily.stage = "refresh" /\ ~daily.breaker.open
    BY <2>2 DEF AcquisitionHolds, QueueHolds
  <2>4. CASE a \in HasUrl /\ OpenPass(a)
    BY <2>2, <2>3, <2>4, OpenPassHolds
  <2>5. CASE ~(a \in HasUrl /\ OpenPass(a))
    <3>1. record_failure(daily.breaker, Answer(a)) \in Circuits
      BY <1>1, BreakerKept
    <3>2. PICK o \in {"portal_unavailable", "acquisition_incomplete"}, b \in Circuits :
            Settle(a, o, b)
      BY <1>1, <2>1, <2>5, <3>1 DEF _refresh_one_application
    <3>3. o \in Outcomes /\ o \notin CLEARING_OUTCOMES
      BY <3>2 DEF Outcomes, CLEARING_OUTCOMES
    <3>4. daily'.known = daily.known
      BY <3>2, <3>3, MemberSettles
    <3>5. OwedHolds'
      BY <1>2, <2>2, <3>4 DEF OwedHolds
    <3> QED BY <2>2, <3>2, <3>3, <3>5, SettleHolds
  <2> QED BY <2>4, <2>5
<1>12. CASE \E d \in Docs : DownloadRow(d)
  BY <1>12, DownloadRowHolds
<1>13. CASE SavePass
  BY <1>13, SavePassHolds
<1>14. CASE RefreshAnswers
  <2> DEFINE a == daily.target
  <2>1. /\ daily.target # 0 /\ daily.pass = NoPass /\ daily.family = {}
        /\ daily' = [daily EXCEPT !.target = 0, !.outcomes = {}]
        /\ UNCHANGED <<portal, stored, owed>>
    BY <1>14 DEF RefreshAnswers
  <2>2. /\ daily'.stage = daily.stage /\ daily'.target = 0 /\ daily'.queue = daily.queue
        /\ daily'.family = {} /\ daily'.pass = NoPass /\ daily'.known = daily.known
    BY <1>1, <2>1 DEF DailyRuns
  <2>3. daily.stage = "refresh" /\ a \in Apps
    BY <1>1, <2>1 DEF AcquisitionHolds, QueueHolds
  <2>4. /\ app'[a].required => app[a].required
        /\ app'[a].reasons = app[a].reasons /\ \A x \in Apps \ {a} : app'[x] = app[x]
    <3>1. app[a] \in Evidence
      BY <1>1, <2>3
    <3> QED BY <1>1, <1>14, <2>3, <3>1 DEF RefreshAnswers, Evidence
  <2>5. PassHolds' /\ FamilyHolds' /\ OwedHolds'
    BY <1>2, <2>1, <2>2 DEF PassHolds, FamilyHolds, OwedHolds
  <2>6. QueueHolds'
    BY <1>1, <1>3, <2>2, <2>3, <2>4, IdAssumption DEF AcquisitionHolds, QueueHolds
  <2> QED BY <2>5, <2>6 DEF AcquisitionHolds
<1> QED BY <1>4, <1>5, <1>6, <1>7, <1>8, <1>9, <1>10, <1>11, <1>12, <1>13, <1>14 DEF RunStep

\* The job changes two columns only: the outcome of the extraction, and the
\* watermark, to the stamp it loaded.
LEMMA JobColumns ==
  ASSUME EvidenceTypeOK, JobStep \/ LlmFails
  PROVE  /\ UNCHANGED <<portal, stored, daily, history>>
         /\ \A a \in Apps :
              /\ app'[a].required = app[a].required /\ app'[a].reasons = app[a].reasons
              /\ app'[a].checked = app[a].checked /\ app'[a].legacy = app[a].legacy
              /\ app'[a].changed = app[a].changed
              /\ \/ app'[a].processed = app[a].processed
                 \/ /\ LlmAnswers /\ intel.stage = "refresh" /\ intel.at = a
                    /\ app'[a].processed = intel.loaded[a].changed
<1>1. app \in [Apps -> Evidence]
  BY DEF EvidenceTypeOK
<1>2. UNCHANGED <<portal, stored, daily, history>>
  BY DEF JobStep, LlmFails, SelectIntelligenceRefresh, SelectExtraction, LlmAnswers, EndJob,
         ReadsEvidence, ReadsText
<1>3. \/ app' = app
      \/ \E x \in Apps \cup {0}, e \in {"none", "no_usable_text", "failed"} :
           app' = [app EXCEPT ![x].extraction = e]
      \/ /\ LlmAnswers /\ intel.stage = "refresh"
         /\ app' = [app EXCEPT ![intel.at].processed = intel.loaded[intel.at].changed]
  <2>1. intel.at \in Apps \cup {0}
    BY DEF EvidenceTypeOK, Jobs
  <2>2. CASE SelectIntelligenceRefresh \/ SelectExtraction \/ EndJob
             \/ \E a \in Apps : ReadsEvidence(a)
    BY <2>2 DEF SelectIntelligenceRefresh, SelectExtraction, EndJob, ReadsEvidence
  <2>3. CASE LlmAnswers
    BY <2>1, <2>3 DEF LlmAnswers, LoadedWatermark
  <2>4. CASE LlmFails
    BY <2>1, <2>4 DEF LlmFails
  <2>5. CASE \E a \in Apps : ReadsText(a)
    BY <2>5 DEF ReadsText
  <2> QED BY <2>2, <2>3, <2>4, <2>5 DEF JobStep
<1>4. SUFFICES ASSUME NEW a \in Apps
      PROVE  /\ app'[a].required = app[a].required /\ app'[a].reasons = app[a].reasons
             /\ app'[a].checked = app[a].checked /\ app'[a].legacy = app[a].legacy
             /\ app'[a].changed = app[a].changed
             /\ \/ app'[a].processed = app[a].processed
                \/ /\ LlmAnswers /\ intel.stage = "refresh" /\ intel.at = a
                   /\ app'[a].processed = intel.loaded[a].changed
  BY <1>2
<1>5. app[a] \in Evidence
  BY <1>1
<1>6. \/ app'[a] = app[a]
      \/ \E e \in {"none", "no_usable_text", "failed"} :
           app'[a] = [app[a] EXCEPT !.extraction = e]
      \/ /\ LlmAnswers /\ intel.stage = "refresh" /\ intel.at = a
         /\ app'[a] = [app[a] EXCEPT !.processed = intel.loaded[a].changed]
  BY <1>1, <1>3
<1> QED BY <1>5, <1>6 DEF Evidence

\* The invariant of the acquisition holds at first and is kept by every step.
LEMMA AcquisitionInitially == Init => AcquisitionInv
<1> SUFFICES ASSUME Init PROVE AcquisitionInv
  OBVIOUS
<1>1. EvidenceTypeOK
  BY TypesInit
<1>2. daily = NoRun /\ owed = {} /\ \A a \in Apps : app[a] = NewApplication(a)
  BY DEF Init
<1>3. \A a \in Apps : ~app[a].required
  <2>1. \A a \in Apps : NewApplication(a).required = FALSE
    BY DEF NewApplication
  <2> QED BY <1>2, <2>1
<1>4. PassHolds /\ FamilyHolds /\ QueueHolds
  BY <1>2, <1>3, NothingIsTyped DEF PassHolds, FamilyHolds, QueueHolds
<1>5. OwedHolds
  BY <1>2, NothingIsTyped DEF OwedHolds
<1>6. JobWaits
  <2>1. intel.loaded = <<>> /\ intel.at = 0 /\ intel.stage = "idle"
    BY DEF Init, NoJob
  <2>2. DOMAIN <<>> = {}
    OBVIOUS
  <2> QED BY <2>1, <2>2 DEF JobWaits
<1> QED BY <1>1, <1>4, <1>5, <1>6 DEF AcquisitionInv, AcquisitionHolds

\* The job is never at a candidate it has not loaded.
LEMMA JobWaitsStep ==
  ASSUME EvidenceTypeOK, JobWaits, JobStep \/ LlmFails
  PROVE  JobWaits'
<1>1. /\ intel.todo \subseteq Apps
      /\ intel \in [stage : {"idle", "refresh", "extract"}, todo : SUBSET Apps,
                    loaded : {intel.loaded}, docs : {intel.docs},
                    at : Apps \cup {0}, read : SUBSET Docs]
  BY DEF EvidenceTypeOK, Jobs
<1>2. DOMAIN <<>> = {}
  OBVIOUS
<1>3. CASE SelectIntelligenceRefresh
  <2> DEFINE C == {a \in Apps : INTELLIGENCE_REFRESH_ELIGIBLE(a)}
             ld == [a \in C |-> [changed |-> app[a].changed, reasons |-> app[a].reasons]]
  <2>1. intel' = [NoJob EXCEPT !.stage = "refresh", !.todo = C, !.loaded = ld]
    BY <1>3 DEF SelectIntelligenceRefresh
  <2>2. NoJob \in [stage : {"idle"}, todo : {{}}, loaded : {<<>>}, docs : {<<>>}, at : {0},
                   read : {{}}]
    BY DEF NoJob
  <2>3. DOMAIN ld = C
    OBVIOUS
  <2> HIDE DEF C, ld
  <2>4. intel'.stage = "refresh" /\ intel'.todo = C /\ intel'.loaded = ld /\ intel'.at = 0
    BY <2>1, <2>2
  <2> QED BY <2>3, <2>4 DEF JobWaits
<1>4. CASE SelectExtraction
  <2> DEFINE C == {a \in Apps : EXTRACTION_ELIGIBLE(a)}
  <2>1. /\ intel' = [intel EXCEPT !.stage = "extract", !.loaded = <<>>, !.todo = C]
        /\ intel.stage = "refresh" /\ intel.todo = {}
    BY <1>4 DEF SelectExtraction
  <2> HIDE DEF C
  <2>2. intel'.stage = "extract" /\ intel'.loaded = <<>> /\ intel'.at = intel.at
    BY <1>1, <2>1
  <2> QED BY <1>2, <2>1, <2>2 DEF JobWaits
<1>5. CASE \E a \in Apps : ReadsEvidence(a) \/ ReadsText(a)
  <2>1. PICK a \in Apps : ReadsEvidence(a) \/ ReadsText(a)
    BY <1>5
  <2>2. \E K, E : \/ intel' = [intel EXCEPT !.docs = K, !.todo = @ \ {a}]
                  \/ intel' = [intel EXCEPT !.docs = K, !.at = a, !.read = E]
    BY <1>1, <2>1 DEF ReadsEvidence, ReadsText
  <2>3. intel.at = 0 /\ a \in intel.todo
    BY <2>1 DEF ReadsEvidence, ReadsText
  <2>4. /\ intel'.stage = intel.stage /\ intel'.loaded = intel.loaded
        /\ \/ intel'.at = 0 /\ intel'.todo \subseteq intel.todo
           \/ intel'.at = a /\ intel'.todo = intel.todo
    BY <1>1, <2>2, <2>3
  <2> QED BY <2>3, <2>4 DEF JobWaits
<1>6. CASE LlmAnswers \/ LlmFails
  <2>1. intel' = [intel EXCEPT !.todo = @ \ {intel.at}, !.at = 0, !.read = {}]
    BY <1>6 DEF LlmAnswers, LlmFails
  <2>2. /\ intel'.stage = intel.stage /\ intel'.loaded = intel.loaded /\ intel'.at = 0
        /\ intel'.todo \subseteq intel.todo
    BY <1>1, <2>1
  <2> QED BY <2>2 DEF JobWaits
<1>7. CASE EndJob
  <2>1. intel'.stage = "idle" /\ intel'.loaded = <<>> /\ intel'.at = 0
    BY <1>7 DEF EndJob, NoJob
  <2> QED BY <1>2, <2>1 DEF JobWaits
<1> QED BY <1>3, <1>4, <1>5, <1>6, <1>7 DEF JobStep

\* Every step keeps the acquisition, and the types with it.
LEMMA AcquisitionInductive == AcquisitionInv /\ [Next]_vars => AcquisitionInv'
<1> SUFFICES ASSUME AcquisitionInv, [Next]_vars PROVE AcquisitionInv'
  OBVIOUS
<1>1. EvidenceTypeOK /\ AcquisitionHolds /\ JobWaits
  BY DEF AcquisitionInv
<1>2. CASE UNCHANGED vars
  <2>1. EvidenceTypeOK'
    BY <1>1, <1>2 DEF vars, EvidenceTypeOK, Jobs, DailyRuns, Passes
  <2>2. AcquisitionHolds'
    BY <1>1, <1>2, AcquisitionUntouched DEF vars
  <2>3. JobWaits'
    BY <1>1, <1>2 DEF vars, JobWaits
  <2> QED BY <2>1, <2>2, <2>3 DEF AcquisitionInv
<1>3. CASE Breaks \/ Heals \/ \E d \in Docs : Publish(d)
  <2>1. UNCHANGED <<app, stored, scheme, daily, intel, history>>
    BY <1>3 DEF Breaks, Heals, Publish
  <2>2. portal.listed \subseteq portal'.listed
    <3>1. portal \in [listed : SUBSET Docs, up : BOOLEAN, broken : SUBSET (Docs \cup Apps)]
      BY <1>1 DEF EvidenceTypeOK
    <3>2. \/ portal' = [portal EXCEPT !.up = FALSE] \/ portal' = [portal EXCEPT !.up = TRUE]
          \/ \E x : portal' = [portal EXCEPT !.broken = @ \cup {x}]
          \/ \E x : portal' = [portal EXCEPT !.broken = @ \ {x}]
          \/ \E d : portal' = [portal EXCEPT !.listed = @ \cup {d}]
      BY <1>3 DEF Breaks, Heals, Publish
    <3> QED BY <3>1, <3>2
  <2>3. AcquisitionHolds'
    BY <1>1, <2>1, <2>2, AcquisitionUntouched DEF history
  <2>4. JobWaits'
    BY <1>1, <2>1 DEF JobWaits
  <2> QED BY <1>1, <1>3, <2>3, <2>4, TypesOfPortal DEF AcquisitionInv
<1>4. CASE \/ RunStep \/ Killed
           \/ \E a \in Apps, rs \in (SUBSET Reasons) \ {{}} : _upsert_scraped_application(a, rs)
  <2>1. daily.target # 0 /\ daily.family = {} => daily.outcomes # {}
    <3>1. daily.target \in Apps \cup {0}
      BY <1>1 DEF EvidenceTypeOK, DailyRuns
    <3> QED BY <1>1, <3>1, FamilyIsOfApps DEF AcquisitionHolds, FamilyHolds
  <2>2. EvidenceTypeOK'
    BY <1>1, <1>4, <2>1, TypesOfRun, TypesOfPortal
  <2>3. AcquisitionHolds'
    BY <1>1, <1>4, AcquisitionStep
  <2>4. UNCHANGED intel
    BY <1>4 DEF RunStep, Killed, _upsert_scraped_application, StartRun, BeginDocuments, SavePass,
                BeginRefresh, RefreshAnswers, EndRun, stage_documents, RefreshBegins,
                _refresh_one_application, DownloadRow
  <2>5. JobWaits'
    BY <1>1, <2>4 DEF JobWaits
  <2> QED BY <2>2, <2>3, <2>5 DEF AcquisitionInv
<1>5. CASE JobStep \/ LlmFails
  <2>1. EvidenceTypeOK'
    <3>1. intel.stage = "refresh" /\ intel.at # 0 => intel.at \in DOMAIN intel.loaded
      BY <1>1 DEF JobWaits
    <3> QED BY <1>1, <1>5, <3>1, TypesOfJob
  <2>2. AcquisitionHolds'
    BY <1>1, <1>5, JobColumns, AcquisitionUntouched DEF history
  <2> QED BY <1>1, <1>5, <2>1, <2>2, JobWaitsStep DEF AcquisitionInv
<1> QED BY <1>2, <1>3, <1>4, <1>5 DEF Next

\* Every variable of the evidence pipeline keeps its shape.
THEOREM EvidenceTypesHold == Spec => []EvidenceTypeOK
<1>1. AcquisitionInv => EvidenceTypeOK
  BY DEF AcquisitionInv
<1> QED BY <1>1, AcquisitionInitially, AcquisitionInductive, PTL DEF Spec

\* A circuit that opens in the middle of a pass leaves a pass that is not complete
\* (the break of the row loop in discover_and_store_documents_for_application).
THEOREM AnOpenCircuitIsIncomplete == Spec => []BreakLeavesIncomplete
<1>1. AcquisitionInv => BreakLeavesIncomplete
  BY DEF AcquisitionInv, AcquisitionHolds, PassHolds, BreakLeavesIncomplete
<1> QED BY <1>1, AcquisitionInitially, AcquisitionInductive, PTL DEF Spec

\* Which steps touch what eligibility and requests are decided by.
LEMMA RequestsChange ==
  ASSUME AcquisitionInv, Next
  PROVE  \/ /\ \A a \in Apps :
                 /\ app[a].required => app'[a].required
                 /\ app'[a].checked = app[a].checked /\ app'[a].legacy = app[a].legacy
            /\ owed' = owed
         \/ \E d \in Docs : DownloadRow(d)
         \/ SavePass
         \/ RefreshAnswers
<1>1. EvidenceTypeOK /\ app \in [Apps -> Evidence]
  BY DEF AcquisitionInv, EvidenceTypeOK
<1>2. CASE \/ Breaks \/ Heals \/ Killed \/ StartRun \/ BeginDocuments \/ BeginRefresh \/ EndRun
           \/ \E d \in Docs : Publish(d)
           \/ \E a \in Apps : stage_documents(a) \/ RefreshBegins(a) \/ _refresh_one_application(a)
  <2>1. UNCHANGED <<app, owed>>
    BY <1>2 DEF Breaks, Heals, Killed, StartRun, BeginDocuments, BeginRefresh, EndRun, Publish,
                stage_documents, RefreshBegins, _refresh_one_application, history
  <2> QED BY <2>1
<1>3. CASE JobStep \/ LlmFails
  BY <1>1, <1>3, JobColumns DEF history
<1>4. CASE \E a \in Apps, rs \in (SUBSET Reasons) \ {{}} : _upsert_scraped_application(a, rs)
  <2>1. PICK a \in Apps, rs \in (SUBSET Reasons) \ {{}} : _upsert_scraped_application(a, rs)
    BY <1>4
  <2>2. /\ app' = [app EXCEPT ![a].required = TRUE, ![a].reasons = rs,
                              ![a].requested = spent.changes + 1]
        /\ owed' = owed
    BY <2>1 DEF _upsert_scraped_application
  <2>3. app[a] \in Evidence
    BY <1>1
  <2>4. /\ app'[a].required = TRUE /\ app'[a].checked = app[a].checked
        /\ app'[a].legacy = app[a].legacy /\ \A x \in Apps \ {a} : app'[x] = app[x]
    BY <1>1, <2>2, <2>3 DEF Evidence
  <2>5. app'[a].required
    BY <2>4
  <2> QED BY <2>2, <2>4, <2>5
<1> QED BY <1>2, <1>3, <1>4 DEF Next, RunStep

\* A pass that is saved changes, of the columns, only its own application's stamp.
LEMMA SavedColumns ==
  ASSUME AcquisitionInv, SavePass
  PROVE  /\ daily.pass.app \in Apps
         /\ \A x \in Apps :
              /\ app'[x].required = app[x].required /\ app'[x].reasons = app[x].reasons
              /\ x # daily.pass.app \/ ~daily.pass.complete => app'[x] = app[x]
<1> DEFINE a == daily.pass.app
<1>1. app \in [Apps -> Evidence]
  BY DEF AcquisitionInv, EvidenceTypeOK
<1>2. a \in Apps
  BY DEF AcquisitionInv, AcquisitionHolds, PassHolds, SavePass
<1>3. \/ app' = [app EXCEPT ![a] = [app[a] EXCEPT !.checked = TRUE, !.legacy = FALSE]]
         /\ daily.pass.complete
      \/ app' = app
  BY <1>1, <1>2 DEF SavePass, Completes
<1>4. app[a] \in Evidence
  BY <1>1, <1>2
<1>5. /\ [app[a] EXCEPT !.checked = TRUE, !.legacy = FALSE].required = app[a].required
      /\ [app[a] EXCEPT !.checked = TRUE, !.legacy = FALSE].reasons = app[a].reasons
  BY <1>4 DEF Evidence
<1> QED BY <1>1, <1>2, <1>3, <1>5

\* A request is answered: only its own flag changes, and it is cleared only when
\* every member of its family was reached.
LEMMA AnswersClear ==
  ASSUME AcquisitionInv, RefreshAnswers
  PROVE  /\ daily.target \in Apps
         /\ \A x \in Apps : /\ app'[x].checked = app[x].checked
                            /\ app'[x].legacy = app[x].legacy
                            /\ x # daily.target => app'[x].required = app[x].required
         /\ \/ app'[daily.target].required = app[daily.target].required
            \/ /\ Wanted = target_doc_types_for_reasons(app[daily.target].reasons)
               /\ \A m \in resolve_application_family(daily.target) : Reached(m)
<1> DEFINE a == daily.target
           clears == Overall \in CLEARING_OUTCOMES
<1>1. /\ app \in [Apps -> Evidence] /\ a \in Apps /\ daily.family = {}
      /\ daily.outcomes \subseteq Outcomes /\ a # 0
  BY DEF AcquisitionInv, EvidenceTypeOK, DailyRuns, RefreshAnswers
<1>2. app[a] \in Evidence
  BY <1>1
<1>3. /\ app'[a].required = (app[a].required /\ ~clears)
      /\ app'[a].checked = app[a].checked /\ app'[a].legacy = app[a].legacy
      /\ \A x \in Apps \ {a} : app'[x] = app[x]
  BY <1>1, <1>2 DEF RefreshAnswers, Evidence
<1>4. CASE ~clears
  <2>1. app'[a].required = app[a].required
    BY <1>2, <1>3, <1>4 DEF Evidence
  <2> QED BY <1>1, <1>3, <2>1
<1>5. CASE clears
  <2>1. /\ daily.stage = "refresh"
        /\ daily.outcomes = {} => daily.family = resolve_application_family(a)
        /\ daily.outcomes \subseteq CLEARING_OUTCOMES =>
             \A m \in resolve_application_family(a) \ daily.family : Reached(m)
    BY <1>1 DEF AcquisitionInv, AcquisitionHolds, QueueHolds, FamilyHolds
  <2>2. daily.outcomes # {}
    BY <1>1, <2>1, FamilyIsOfApps
  <2>3. daily.outcomes \subseteq CLEARING_OUTCOMES
    BY <1>1, <1>5, <2>2, OverallIsOfMembers
  <2>4. \A m \in resolve_application_family(a) : Reached(m)
    BY <1>1, <2>1, <2>3
  <2>5. Wanted = target_doc_types_for_reasons(app[a].reasons)
    BY <2>1 DEF Wanted
  <2> QED BY <1>1, <1>3, <2>4, <2>5
<1> QED BY <1>4, <1>5

\* A request is cleared only by a check that reached everything: every member
\* of the family has a register, and what those registers listed in the wanted
\* categories when the run began is stored (refresh_material_evidence).
THEOREM AClearedRequestWasChecked == Spec => ClearedByACompleteCheck
<1>1. AcquisitionInv /\ [Next]_vars => [ClearsCompletely]_vars
  <2> SUFFICES ASSUME AcquisitionInv, [Next]_vars, ~(UNCHANGED vars),
                      NEW a \in Apps, app[a].required, ~app'[a].required
               PROVE  LET wanted == target_doc_types_for_reasons(app[a].reasons)
                          family == resolve_application_family(a)
                      IN  /\ family \subseteq HasUrl
                          /\ {d \in daily.known : Owner[d] \in family /\ Category[d] \in wanted}
                               \subseteq stored
    BY DEF ClearsCompletely
  <2>1. Next
    OBVIOUS
  <2>2. ~SavePass
    BY SavedColumns
  <2>3. ~(\E d \in Docs : DownloadRow(d))
    BY DEF DownloadRow
  <2>4. RefreshAnswers
    BY <2>1, <2>2, <2>3, RequestsChange
  <2>5. /\ a = daily.target
        /\ Wanted = target_doc_types_for_reasons(app[a].reasons)
        /\ \A m \in resolve_application_family(a) : Reached(m)
    BY <2>4, AnswersClear
  <2> QED BY <2>5 DEF Reached
<1> QED BY <1>1, AcquisitionInitially, AcquisitionInductive, PTL DEF Spec, ClearedByACompleteCheck

\* A document that a pass listed and did not get, of a category that every
\* reason looks for, is tried again: its application stays eligible for routine
\* discovery, or an open request covers it (models.py).
THEOREM WhatEveryReasonWantsIsWanted == Spec => []SharedIsStillWanted
<1> DEFINE Inv == AcquisitionInv /\ SharedIsStillWanted
<1>1. Init => Inv
  BY AcquisitionInitially DEF Init, SharedIsStillWanted
<1>2. Inv /\ [Next]_vars => Inv'
  <2> SUFFICES ASSUME AcquisitionInv, SharedIsStillWanted, [Next]_vars
               PROVE  SharedIsStillWanted'
    BY AcquisitionInductive
  <2>1. /\ \A d \in owed : InEveryScope(d) => StillWanted(d)
        /\ owed \subseteq Docs /\ owed' \subseteq Docs /\ \A d \in Docs : Owner[d] \in Apps
    BY AcquisitionInductive, PortalAssumption
      DEF SharedIsStillWanted, AcquisitionInv, EvidenceTypeOK
  <2> SUFFICES ASSUME NEW d \in owed', InEveryScope(d) PROVE StillWanted(d)'
    BY DEF SharedIsStillWanted, InEveryScope
  <2>2. d \in Docs /\ Owner[d] \in Apps
    BY <2>1
  <2>3. ASSUME d \in owed,
               app'[Owner[d]].checked = app[Owner[d]].checked,
               app'[Owner[d]].legacy = app[Owner[d]].legacy,
               \A a \in Apps : app[a].required /\ Owner[d] \in resolve_application_family(a)
                               => app'[a].required
        PROVE  StillWanted(d)'
    BY <2>1, <2>3 DEF StillWanted, DOCUMENT_DISCOVERY_ELIGIBLE, Flagged
  <2>4. CASE UNCHANGED vars
    BY <2>3, <2>4 DEF vars
  <2>5. CASE /\ \A a \in Apps :
                  /\ app[a].required => app'[a].required
                  /\ app'[a].checked = app[a].checked /\ app'[a].legacy = app[a].legacy
             /\ owed' = owed
    BY <2>2, <2>3, <2>5
  <2>6. ASSUME daily.pass # NoPass, Owner[d] = daily.pass.app,
               app'[Owner[d]].checked = app[Owner[d]].checked,
               app'[Owner[d]].legacy = app[Owner[d]].legacy,
               \A a \in Apps : app[a].required => app'[a].required
        PROVE  StillWanted(d)'
    <3>1. CASE daily.stage = "documents"
      <4>1. DOCUMENT_DISCOVERY_ELIGIBLE(Owner[d])
        BY <2>6, <3>1 DEF AcquisitionInv, AcquisitionHolds, PassHolds, QueueHolds
      <4> QED BY <2>6, <4>1 DEF StillWanted, DOCUMENT_DISCOVERY_ELIGIBLE
    <3>2. CASE daily.stage # "documents"
      <4>1. /\ daily.target \in Apps /\ app[daily.target].required
            /\ Owner[d] \in resolve_application_family(daily.target)
        BY <2>6, <3>2 DEF AcquisitionInv, AcquisitionHolds, PassHolds, QueueHolds, FamilyHolds,
                          EvidenceTypeOK, DailyRuns
      <4> QED BY <2>6, <4>1 DEF StillWanted, Flagged
    <3> QED BY <3>1, <3>2
  <2>7. CASE \E x \in Docs : DownloadRow(x)
    <3>1. PICK x \in Docs : DownloadRow(x)
      BY <2>7
    <3>2. app' = app /\ x \in daily.pass.rows /\ owed' \subseteq owed \cup {x}
      BY <3>1 DEF DownloadRow
    <3>3. CASE d \in owed
      BY <2>3, <3>2, <3>3
    <3>4. CASE d = x
      <4>1. daily.pass # NoPass
        BY <3>2, NothingIsTyped
      <4>2. Owner[x] = daily.pass.app
        BY <3>2, <4>1 DEF AcquisitionInv, AcquisitionHolds, PassHolds
      <4> QED BY <2>6, <3>2, <3>4, <4>1, <4>2
    <3> QED BY <3>2, <3>3, <3>4
  <2>8. CASE SavePass
    <3> DEFINE a == daily.pass.app
    <3>1. /\ daily.pass # NoPass /\ (daily.pass.rows = {} \/ daily.breaker.open)
          /\ stored' = stored \cup daily.pass.fresh
          /\ owed' = (owed \cup daily.pass.rows) \ stored'
      BY <2>8 DEF SavePass
    <3>2. /\ a \in Apps
          /\ \A x \in Apps : /\ app'[x].required = app[x].required
                             /\ x # a \/ ~daily.pass.complete => app'[x] = app[x]
      BY <2>8, SavedColumns
    <3>3. CASE d \in owed /\ (Owner[d] # a \/ ~daily.pass.complete)
      BY <2>2, <2>3, <3>2, <3>3
    <3>4. CASE d \in owed /\ Owner[d] = a /\ daily.pass.complete
      <4>1. /\ ~daily.breaker.open
            /\ Category[d] \in Wanted => d \in stored \cup daily.pass.rows \cup daily.pass.fresh
        BY <3>1, <3>4 DEF AcquisitionInv, AcquisitionHolds, PassHolds
      <4>2. d \notin stored' /\ daily.pass.rows = {}
        BY <3>1, <4>1
      <4>3. Category[d] \notin Wanted
        BY <3>1, <4>1, <4>2
      <4>4. daily.stage # "documents"
        BY <2>2, <4>3, PortalAssumption DEF Wanted
      <4>5. /\ daily.target \in Apps /\ app[daily.target].required
            /\ Owner[d] \in resolve_application_family(daily.target)
        BY <3>1, <3>4, <4>4 DEF AcquisitionInv, AcquisitionHolds, PassHolds, QueueHolds,
                                FamilyHolds, EvidenceTypeOK, DailyRuns
      <4> QED BY <3>2, <4>5 DEF StillWanted, Flagged
    <3>5. CASE d \in daily.pass.rows
      <4>1. Owner[d] = a
        BY <3>1, <3>5 DEF AcquisitionInv, AcquisitionHolds, PassHolds
      <4>2. ~daily.pass.complete
        BY <3>1, <3>5 DEF AcquisitionInv, AcquisitionHolds, PassHolds
      <4> QED BY <2>2, <2>6, <3>1, <3>2, <4>1, <4>2
    <3> QED BY <3>1, <3>3, <3>4, <3>5
  <2>9. CASE RefreshAnswers
    <3> DEFINE a == daily.target
    <3>1. d \in owed
      BY <2>9 DEF RefreshAnswers
    <3>2. /\ a \in Apps
          /\ \A x \in Apps : /\ app'[x].checked = app[x].checked
                             /\ app'[x].legacy = app[x].legacy
                             /\ x # a => app'[x].required = app[x].required
          /\ \/ app'[a].required = app[a].required
             \/ /\ Wanted = target_doc_types_for_reasons(app[a].reasons)
                /\ \A m \in resolve_application_family(a) : Reached(m)
      BY <2>9, AnswersClear
    <3>3. CASE app'[a].required = app[a].required
      BY <2>2, <2>3, <3>1, <3>2, <3>3
    <3>4. CASE /\ Wanted = target_doc_types_for_reasons(app[a].reasons)
               /\ \A m \in resolve_application_family(a) : Reached(m)
      <4>1. app[a].reasons # {} /\ app[a].reasons \subseteq Reasons
        BY <2>9, <3>2 DEF AcquisitionInv, AcquisitionHolds, QueueHolds, EvidenceTypeOK, Evidence,
                          RefreshAnswers
      <4>2. Category[d] \in Wanted
        BY <2>2, <3>4, <4>1 DEF InEveryScope, target_doc_types_for_reasons
      <4>3. d \notin stored
        BY <3>1 DEF AcquisitionInv, AcquisitionHolds, OwedHolds
      <4>4. Owner[d] \notin resolve_application_family(a)
        BY <3>1, <3>4, <4>2, <4>3 DEF Reached
      <4> QED BY <2>2, <2>3, <3>1, <3>2, <4>4
    <3> QED BY <3>2, <3>3, <3>4
  <2> QED BY <2>4, <2>5, <2>7, <2>8, <2>9, RequestsChange
<1>3. Inv => SharedIsStillWanted
  OBVIOUS
<1> HIDE DEF Inv
<1> QED BY <1>1, <1>2, <1>3, PTL DEF Spec

(***************************************************************************)
(* The handover: from a refresh that stored evidence to the intelligence   *)
(* that has read it.                                                       *)
(***************************************************************************)

\* What refreshes found for an application is stored, of its family and of a
\* category that some reason routes to.
FoundHolds ==
  \A a \in Apps : \A d \in found[a] \cup handed[a] :
    d \in stored /\ Owner[d] \in resolve_application_family(a) /\ Category[d] \in Routed

\* The watermark trails the stamp; without intelligence there is none.
WatermarkHolds ==
  \A a \in Apps : /\ app[a].processed <= app[a].changed
                  /\ ~scheme[a].exists => app[a].processed = 0

\* Where the stamp the job loaded is still the newest, the documents its session
\* keeps have all that was handed over; what it is reading has what of that every
\* reason reads.
Current(a) == intel.loaded[a].changed = app[a].changed
SessionHolds ==
  \A a \in DOMAIN intel.loaded :
    /\ intel.loaded[a].changed <= app[a].changed /\ scheme[a].exists
    /\ Current(a) => \A d \in handed[a] :
                       Owner[d] \in DOMAIN intel.docs => d \in intel.docs[Owner[d]]
    /\ Current(a) /\ intel.at = a => handed[a] \cap Readable \cap Shared \subseteq intel.read

HandoverHolds == FoundHolds /\ WatermarkHolds /\ SessionHolds /\ SharedIsRead
HandoverInv == AcquisitionInv /\ HandoverHolds

\* Where neither the documents found nor the stamps change, the handover stays.
LEMMA HandoverUntouched ==
  ASSUME EvidenceTypeOK, HandoverHolds, UNCHANGED <<scheme, intel, handed>>,
         stored \subseteq stored', FoundHolds',
         \A a \in Apps : app'[a].changed = app[a].changed /\ app'[a].processed = app[a].processed
  PROVE  HandoverHolds'
<1>1. DOMAIN intel.loaded \subseteq Apps
  BY DEF EvidenceTypeOK
<1>2. WatermarkHolds'
  BY DEF HandoverHolds, WatermarkHolds
<1>3. SessionHolds'
  BY <1>1 DEF HandoverHolds, SessionHolds, Current
<1>4. SharedIsRead'
  BY DEF HandoverHolds, SharedIsRead
<1> QED BY <1>2, <1>3, <1>4 DEF HandoverHolds

\* The pass of a refresh adds what it stored to what was found for the request.
LEMMA SavePassHandover ==
  ASSUME AcquisitionInv, HandoverHolds, SavePass
  PROVE  HandoverHolds'
<1> DEFINE t == daily.target
           fresh == daily.pass.fresh
<1>1. EvidenceTypeOK /\ found \in [Apps -> SUBSET Docs] /\ app \in [Apps -> Evidence]
  BY DEF AcquisitionInv, EvidenceTypeOK
<1>2. stored' = stored \cup fresh /\ UNCHANGED <<scheme, intel, handed>>
  BY DEF SavePass
<1>3. \/ found' = found
      \/ /\ daily.stage # "documents" /\ found' = [found EXCEPT ![t] = @ \cup fresh]
  BY DEF SavePass
<1>4. daily.stage # "documents" =>
        /\ t \in Apps
        /\ \A d \in fresh : Owner[d] \in resolve_application_family(t) /\ Category[d] \in Routed
  <2> SUFFICES ASSUME daily.stage # "documents", daily.pass # NoPass
               PROVE  /\ t \in Apps
                      /\ \A d \in fresh : /\ Owner[d] \in resolve_application_family(t)
                                          /\ Category[d] \in Routed
    BY DEF SavePass
  <2>1. /\ t \in Apps /\ daily.pass.app \in resolve_application_family(t)
        /\ \A d \in fresh : Owner[d] = daily.pass.app /\ Category[d] \in Wanted
    BY DEF AcquisitionInv, AcquisitionHolds, PassHolds, FamilyHolds, EvidenceTypeOK, DailyRuns
  <2>2. app[t].reasons \in SUBSET Reasons
    BY <1>1, <2>1 DEF Evidence
  <2>3. Wanted \subseteq Routed
    BY <2>2, ReasonsAskForCategories DEF Wanted
  <2> QED BY <2>1, <2>3
<1>5. FoundHolds'
  BY <1>1, <1>2, <1>3, <1>4 DEF HandoverHolds, FoundHolds
<1>6. \A a \in Apps : app'[a].changed = app[a].changed /\ app'[a].processed = app[a].processed
  <2> DEFINE p == daily.pass.app
  <2>1. \/ app' = [app EXCEPT ![p] = [app[p] EXCEPT !.checked = TRUE, !.legacy = FALSE]]
        \/ app' = app
    BY <1>1, SavedColumns DEF SavePass
  <2>2. p \in Apps /\ app[p] \in Evidence
    BY <1>1, SavedColumns
  <2>3. /\ [app[p] EXCEPT !.checked = TRUE, !.legacy = FALSE].changed = app[p].changed
        /\ [app[p] EXCEPT !.checked = TRUE, !.legacy = FALSE].processed = app[p].processed
    BY <2>2 DEF Evidence
  <2> QED BY <1>1, <2>1, <2>2, <2>3
<1> QED BY <1>1, <1>2, <1>5, <1>6, HandoverUntouched

\* An answer with new evidence stamps the application: what was processed, and
\* what the job has loaded, is behind it.
LEMMA AnswerHandover ==
  ASSUME AcquisitionInv, HandoverHolds, RefreshAnswers
  PROVE  HandoverHolds'
<1> DEFINE a == daily.target
           new == Overall = "new_material_evidence"
<1>1. /\ EvidenceTypeOK /\ app \in [Apps -> Evidence] /\ a \in Apps
      /\ found \in [Apps -> SUBSET Docs] /\ handed \in [Apps -> SUBSET Docs]
      /\ DOMAIN intel.loaded \subseteq Apps /\ intel.loaded \in [DOMAIN intel.loaded -> LoadedRow]
  BY DEF AcquisitionInv, EvidenceTypeOK, DailyRuns, RefreshAnswers
<1>2. UNCHANGED <<stored, scheme, intel>>
  BY DEF RefreshAnswers
<1>3. \A x \in Apps : x # a => app'[x] = app[x] /\ handed'[x] = handed[x]
  BY <1>1 DEF RefreshAnswers
<1>4. /\ app'[a].processed = app[a].processed
      /\ new => app'[a].changed = app[a].changed + 1
      /\ ~new => app'[a].changed = app[a].changed /\ handed'[a] = handed[a]
  <2>1. app[a] \in Evidence
    BY <1>1
  <2> QED BY <1>1, <2>1 DEF RefreshAnswers, Evidence
<1>5. \A x \in Apps : /\ found'[x] \subseteq found[x]
                      /\ handed'[x] \subseteq handed[x] \cup found[x]
  BY <1>1 DEF RefreshAnswers
<1>6. \A x \in Apps : app[x].processed \in Nat /\ app[x].changed \in Nat
  BY <1>1 DEF Evidence
<1>7. FoundHolds'
  BY <1>2, <1>5 DEF HandoverHolds, FoundHolds
<1>8. WatermarkHolds'
  <2> SUFFICES ASSUME NEW x \in Apps
               PROVE  app'[x].processed <= app'[x].changed
                      /\ (~scheme'[x].exists => app'[x].processed = 0)
    BY DEF WatermarkHolds
  <2>1. app[x].processed <= app[x].changed /\ (~scheme[x].exists => app[x].processed = 0)
    BY DEF HandoverHolds, WatermarkHolds
  <2> QED BY <1>1, <1>2, <1>3, <1>4, <1>6, <2>1
<1>9. SessionHolds'
  <2> SUFFICES ASSUME NEW x \in DOMAIN intel.loaded
               PROVE  /\ intel.loaded[x].changed <= app'[x].changed /\ scheme[x].exists
                      /\ intel.loaded[x].changed = app'[x].changed =>
                           /\ \A d \in handed'[x] :
                                Owner[d] \in DOMAIN intel.docs => d \in intel.docs[Owner[d]]
                           /\ intel.at = x =>
                                handed'[x] \cap Readable \cap Shared \subseteq intel.read
    BY <1>2 DEF SessionHolds, Current
  <2>1. /\ intel.loaded[x].changed <= app[x].changed /\ scheme[x].exists
        /\ intel.loaded[x].changed = app[x].changed =>
             /\ \A d \in handed[x] :
                  Owner[d] \in DOMAIN intel.docs => d \in intel.docs[Owner[d]]
             /\ intel.at = x => handed[x] \cap Readable \cap Shared \subseteq intel.read
    BY DEF HandoverHolds, SessionHolds, Current
  <2>2. x \in Apps /\ intel.loaded[x].changed \in Nat
    BY <1>1 DEF LoadedRow
  <2>3. CASE x = a /\ new
    BY <1>4, <1>6, <2>1, <2>2, <2>3
  <2>4. CASE ~(x = a /\ new)
    <3>1. app'[x].changed = app[x].changed /\ handed'[x] = handed[x]
      BY <1>3, <1>4, <2>2, <2>4
    <3> QED BY <2>1, <3>1
  <2> QED BY <2>3, <2>4
<1>10. SharedIsRead'
  <2> SUFFICES ASSUME NEW x \in Apps, scheme[x].exists,
                      app'[x].processed = app'[x].changed, app'[x].changed > 0
               PROVE  handed'[x] \cap Readable \cap Shared \subseteq scheme[x].read
    BY <1>2 DEF SharedIsRead
  <2>1. app[x].processed <= app[x].changed
    BY DEF HandoverHolds, WatermarkHolds
  <2>2. ~(x = a /\ new)
    BY <1>4, <1>6, <2>1
  <2>3. app'[x].changed = app[x].changed /\ handed'[x] = handed[x]
        /\ app'[x].processed = app[x].processed
    BY <1>3, <1>4, <2>2
  <2> QED BY <2>3 DEF HandoverHolds, SharedIsRead
<1> QED BY <1>7, <1>8, <1>9, <1>10 DEF HandoverHolds

\* The job reads: what it keeps and what it reads has all that was handed over
\* (refresh_intelligence_for_application).
LEMMA ReadsEvidenceHandover ==
  ASSUME AcquisitionInv, HandoverHolds, NEW a \in Apps, ReadsEvidence(a)
  PROVE  SessionHolds'
<1> DEFINE F == resolve_application_family(a)
           K == Keeping(F)
           E == EvidenceOf(a)
<1>1. /\ EvidenceTypeOK /\ DOMAIN intel.loaded \subseteq Apps
      /\ intel.loaded \in [DOMAIN intel.loaded -> LoadedRow]
      /\ intel \in [stage : {"idle", "refresh", "extract"}, todo : SUBSET Apps,
                    loaded : {intel.loaded}, docs : {intel.docs},
                    at : Apps \cup {0}, read : SUBSET Docs]
  BY DEF AcquisitionInv, EvidenceTypeOK, Jobs
<1>2. F \subseteq Apps /\ a \in F
  BY FamilyIsOfApps
<1>3. /\ intel.stage = "refresh" /\ intel.at = 0 /\ a \in DOMAIN intel.loaded
      /\ UNCHANGED <<portal, app, stored, scheme, daily, spent, history>>
  BY DEF ReadsEvidence, AcquisitionInv, JobWaits
<1>4. \/ intel' = [intel EXCEPT !.docs = K, !.todo = @ \ {a}]
      \/ intel' = [intel EXCEPT !.docs = K, !.at = a, !.read = E]
  BY <1>1 DEF ReadsEvidence
<1>5. /\ DOMAIN K = DOMAIN intel.docs \cup F
      /\ \A b \in F \cup DOMAIN intel.docs :
           K[b] = IF b \in DOMAIN intel.docs THEN intel.docs[b] ELSE DocumentsOf({b})
  BY <1>1, <1>2, KeepingTypes
<1> HIDE DEF K
<1>6. /\ intel'.loaded = intel.loaded /\ intel'.docs = K
      /\ (intel'.at = 0 \/ (intel'.at = a /\ intel'.read = E))
  <2> HIDE DEF E
  <2> QED BY <1>1, <1>3, <1>4
<1>7. \A x \in Apps : \A d \in handed[x] :
        /\ d \in stored /\ Owner[d] \in resolve_application_family(x) /\ Category[d] \in Routed
  BY DEF HandoverHolds, FoundHolds
<1>8. \A x \in DOMAIN intel.loaded : Current(x) =>
        \A d \in handed[x] : Owner[d] \in DOMAIN K => d \in K[Owner[d]]
  <2> SUFFICES ASSUME NEW x \in DOMAIN intel.loaded, Current(x), NEW d \in handed[x],
                      Owner[d] \in DOMAIN K
               PROVE  d \in K[Owner[d]]
    OBVIOUS
  <2>1. Owner[d] \in DOMAIN intel.docs => d \in intel.docs[Owner[d]]
    BY DEF HandoverHolds, SessionHolds
  <2>2. d \in DocumentsOf({Owner[d]})
    BY <1>1, <1>7 DEF DocumentsOf
  <2> QED BY <1>5, <2>1, <2>2
<1>9. Current(a) => handed[a] \cap Readable \cap Shared \subseteq E
  <2> SUFFICES ASSUME Current(a), NEW d \in handed[a], d \in Readable,
                      d \in Shared
               PROVE  d \in E
    OBVIOUS
  <2>1. Owner[d] \in F /\ Category[d] \in Routed /\ d \in stored
    BY <1>7
  <2>2. Category[d] \in refresh_depth_for_reasons(intel.loaded[a].reasons)
    <3>1. intel.loaded[a].reasons \in SUBSET Reasons
      BY <1>1, <1>3 DEF LoadedRow
    <3> QED BY <3>1, SharedIsInDepth
  <2>3. d \in Loaded(F)
    <3> DEFINE b == Owner[d]
               k == IF b \in DOMAIN intel.docs THEN intel.docs[b] ELSE DocumentsOf({b})
    <3>1. b \in DOMAIN intel.docs => d \in intel.docs[b]
      BY <1>3 DEF HandoverHolds, SessionHolds
    <3>2. d \in k
      BY <2>1, <3>1 DEF DocumentsOf
    <3>3. \A c \in F : (IF c \in DOMAIN intel.docs THEN intel.docs[c] ELSE DocumentsOf({c}))
                          \subseteq Loaded(F)
      BY DEF Loaded
    <3>4. k \subseteq Loaded(F)
      BY <2>1, <3>3
    <3> QED BY <3>2, <3>4
  <2> QED BY <2>2, <2>3 DEF EvidenceOf
<1> HIDE DEF E
<1>10. ASSUME NEW x \in DOMAIN intel.loaded
       PROVE  /\ intel.loaded[x].changed <= app[x].changed /\ scheme[x].exists
              /\ intel.loaded[x].changed = app[x].changed =>
                   /\ \A d \in handed[x] : Owner[d] \in DOMAIN K => d \in K[Owner[d]]
                   /\ intel'.at = x => handed[x] \cap Readable \cap Shared \subseteq intel'.read
  <2>1. intel.loaded[x].changed <= app[x].changed /\ scheme[x].exists
    BY DEF HandoverHolds, SessionHolds
  <2>2. x # 0
    BY <1>1, IdAssumption
  <2> QED BY <1>6, <1>8, <1>9, <2>1, <2>2 DEF Current
<1> QED BY <1>3, <1>6, <1>10 DEF SessionHolds, Current, history

\* Every step of Intelligence Processing keeps the handover.
LEMMA JobHandover ==
  ASSUME AcquisitionInv, HandoverHolds, JobStep \/ LlmFails
  PROVE  HandoverHolds'
<1>1. /\ EvidenceTypeOK /\ JobWaits /\ scheme \in [Apps -> [exists : BOOLEAN, read : SUBSET Docs]]
      /\ DOMAIN intel.loaded \subseteq Apps
      /\ intel \in [stage : {"idle", "refresh", "extract"}, todo : SUBSET Apps,
                    loaded : {intel.loaded}, docs : {intel.docs},
                    at : Apps \cup {0}, read : SUBSET Docs]
  BY DEF AcquisitionInv, EvidenceTypeOK, Jobs
<1>2. /\ UNCHANGED <<stored, found, handed>>
      /\ \A a \in Apps :
           /\ app'[a].changed = app[a].changed
           /\ \/ app'[a].processed = app[a].processed
              \/ /\ LlmAnswers /\ intel.stage = "refresh" /\ intel.at = a
                 /\ app'[a].processed = intel.loaded[a].changed
  BY <1>1, JobColumns DEF history
<1>3. /\ ~LlmAnswers => scheme' = scheme
      /\ LlmAnswers =>
           /\ intel.at \in Apps /\ scheme'[intel.at].exists = TRUE
           /\ scheme'[intel.at].read = scheme[intel.at].read \cup intel.read
           /\ \A x \in Apps : x # intel.at => scheme'[x] = scheme[x]
  <2>1. ~LlmAnswers => scheme' = scheme
    BY DEF JobStep, LlmFails, SelectIntelligenceRefresh, SelectExtraction, EndJob,
           ReadsEvidence, ReadsText
  <2>2. LlmAnswers => intel.at \in Apps
    BY <1>1 DEF LlmAnswers
  <2>3. ASSUME LlmAnswers
        PROVE  scheme' = [scheme EXCEPT ![intel.at] =
                            [exists |-> TRUE, read |-> scheme[intel.at].read \cup intel.read]]
    BY <1>1, <2>3 DEF LlmAnswers
  <2> QED BY <1>1, <2>1, <2>2, <2>3
<1>4. ASSUME NEW a \in Apps
      PROVE  /\ (scheme[a].exists => scheme'[a].exists) /\ scheme[a].read \subseteq scheme'[a].read
  BY <1>1, <1>3
<1>5. LlmAnswers /\ intel.stage = "refresh" => intel.at \in DOMAIN intel.loaded
  BY <1>1 DEF LlmAnswers, JobWaits
<1>6. FoundHolds'
  BY <1>2 DEF HandoverHolds, FoundHolds
<1>7. WatermarkHolds'
  <2> SUFFICES ASSUME NEW a \in Apps
               PROVE  app'[a].processed <= app'[a].changed
                      /\ (~scheme'[a].exists => app'[a].processed = 0)
    BY DEF WatermarkHolds
  <2>1. app[a].processed <= app[a].changed /\ (~scheme[a].exists => app[a].processed = 0)
    BY DEF HandoverHolds, WatermarkHolds
  <2>2. CASE app'[a].processed = app[a].processed
    BY <1>2, <1>4, <2>1, <2>2
  <2>3. CASE /\ LlmAnswers /\ intel.stage = "refresh" /\ intel.at = a
             /\ app'[a].processed = intel.loaded[a].changed
    <3>1. intel.loaded[a].changed <= app[a].changed
      BY <1>5, <2>3 DEF HandoverHolds, SessionHolds
    <3>2. scheme'[a].exists
      BY <1>3, <2>3
    <3> QED BY <1>2, <2>3, <3>1, <3>2
  <2> QED BY <1>2, <2>2, <2>3
<1>8. SharedIsRead'
  <2> SUFFICES ASSUME NEW a \in Apps, scheme'[a].exists,
                      app'[a].processed = app'[a].changed, app'[a].changed > 0
               PROVE  handed[a] \cap Readable \cap Shared \subseteq scheme'[a].read
    BY <1>2 DEF SharedIsRead
  <2>1. CASE app'[a].processed = app[a].processed
    <3>1. app[a].processed = app[a].changed /\ app[a].changed > 0
      BY <1>2, <2>1
    <3>2. scheme[a].exists
      BY <3>1 DEF HandoverHolds, WatermarkHolds
    <3>3. handed[a] \cap Readable \cap Shared \subseteq scheme[a].read
      BY <3>1, <3>2 DEF HandoverHolds, SharedIsRead
    <3> QED BY <1>4, <3>3
  <2>2. CASE /\ LlmAnswers /\ intel.stage = "refresh" /\ intel.at = a
             /\ app'[a].processed = intel.loaded[a].changed
    <3>1. Current(a)
      BY <1>2, <2>2 DEF Current
    <3>2. handed[a] \cap Readable \cap Shared \subseteq intel.read
      BY <1>5, <2>2, <3>1 DEF HandoverHolds, SessionHolds
    <3> QED BY <1>3, <2>2, <3>2
  <2> QED BY <1>2, <2>1, <2>2
<1>9. SessionHolds'
  <2>1. DOMAIN <<>> = {}
    OBVIOUS
  <2>2. CASE SelectIntelligenceRefresh
    <3> DEFINE C == {a \in Apps : INTELLIGENCE_REFRESH_ELIGIBLE(a)}
               ld == [a \in C |-> [changed |-> app[a].changed, reasons |-> app[a].reasons]]
    <3>1. /\ intel' = [NoJob EXCEPT !.stage = "refresh", !.todo = C, !.loaded = ld]
          /\ app' = app /\ scheme' = scheme
      BY <2>2 DEF SelectIntelligenceRefresh
    <3>2. NoJob \in [stage : {"idle"}, todo : {{}}, loaded : {<<>>}, docs : {<<>>}, at : {0},
                     read : {{}}]
      BY DEF NoJob
    <3>3. DOMAIN ld = C /\ \A a \in C : ld[a].changed = app[a].changed
      OBVIOUS
    <3>4. \A a \in C : a \in Apps /\ scheme[a].exists /\ app[a].changed \in Nat /\ a # 0
      <4>1. \A a \in Apps : app[a].changed \in Nat
        BY <1>1 DEF EvidenceTypeOK, Evidence
      <4> QED BY <4>1, IdAssumption DEF INTELLIGENCE_REFRESH_ELIGIBLE
    <3> HIDE DEF C, ld
    <3>5. intel'.loaded = ld /\ intel'.docs = <<>> /\ intel'.at = 0
      BY <3>1, <3>2
    <3> QED BY <2>1, <3>1, <3>3, <3>4, <3>5 DEF SessionHolds
  <2>3. CASE SelectExtraction
    <3> DEFINE C == {a \in Apps : EXTRACTION_ELIGIBLE(a)}
    <3>1. intel' = [intel EXCEPT !.stage = "extract", !.loaded = <<>>, !.todo = C]
      BY <2>3 DEF SelectExtraction
    <3> HIDE DEF C
    <3>2. intel'.loaded = <<>>
      BY <1>1, <3>1
    <3> QED BY <2>1, <3>2 DEF SessionHolds
  <2>4. CASE \E a \in Apps : ReadsEvidence(a)
    BY <2>4, ReadsEvidenceHandover
  <2>5. CASE \E a \in Apps : ReadsText(a)
    <3>1. PICK a \in Apps : ReadsText(a)
      BY <2>5
    <3>2. \E K, E : \/ intel' = [intel EXCEPT !.docs = K, !.todo = @ \ {a}]
                    \/ intel' = [intel EXCEPT !.docs = K, !.at = a, !.read = E]
      BY <1>1, <3>1 DEF ReadsText
    <3>3. intel'.loaded = intel.loaded
      BY <1>1, <3>2
    <3>4. DOMAIN intel.loaded = {}
      BY <1>1, <3>1 DEF ReadsText, JobWaits
    <3> QED BY <3>3, <3>4 DEF SessionHolds
  <2>6. CASE LlmAnswers \/ LlmFails
    <3>1. intel' = [intel EXCEPT !.todo = @ \ {intel.at}, !.at = 0, !.read = {}]
      BY <2>6 DEF LlmAnswers, LlmFails
    <3>2. intel'.loaded = intel.loaded /\ intel'.docs = intel.docs /\ intel'.at = 0
      BY <1>1, <3>1
    <3>3. \A a \in DOMAIN intel.loaded : a \in Apps /\ a # 0
      BY <1>1, IdAssumption
    <3> QED BY <1>2, <1>4, <3>2, <3>3 DEF HandoverHolds, SessionHolds, Current
  <2>7. CASE EndJob
    <3>1. intel'.loaded = <<>>
      BY <2>7 DEF EndJob, NoJob
    <3> QED BY <2>1, <3>1 DEF SessionHolds
  <2> QED BY <2>2, <2>3, <2>4, <2>5, <2>6, <2>7 DEF JobStep
<1> QED BY <1>6, <1>7, <1>8, <1>9 DEF HandoverHolds

\* The handover holds at first and is kept by every step of both jobs.
LEMMA HandoverInvariant == Spec => []HandoverInv
<1>1. Init => HandoverInv
  <2> SUFFICES ASSUME Init PROVE HandoverInv
    OBVIOUS
  <2>1. /\ found = [a \in Apps |-> {}] /\ handed = [a \in Apps |-> {}] /\ intel = NoJob
        /\ app = [a \in Apps |-> NewApplication(a)]
    BY DEF Init
  <2>2. \A a \in Apps : app[a].processed = 0 /\ app[a].changed = 0
    BY <2>1 DEF NewApplication
  <2>3. DOMAIN intel.loaded = {}
    <3>1. DOMAIN <<>> = {}
      OBVIOUS
    <3> QED BY <2>1, <3>1 DEF NoJob
  <2>4. FoundHolds /\ WatermarkHolds
    BY <2>1, <2>2 DEF FoundHolds, WatermarkHolds
  <2>5. SessionHolds
    BY <2>3 DEF SessionHolds
  <2>6. SharedIsRead
    BY <2>1 DEF SharedIsRead
  <2> QED BY <2>4, <2>5, <2>6, AcquisitionInitially DEF HandoverInv, HandoverHolds
<1>2. HandoverInv /\ [Next]_vars => HandoverInv'
  <2> SUFFICES ASSUME AcquisitionInv, HandoverHolds, [Next]_vars PROVE HandoverHolds'
    BY AcquisitionInductive DEF HandoverInv
  <2>1. EvidenceTypeOK /\ app \in [Apps -> Evidence]
    BY DEF AcquisitionInv, EvidenceTypeOK
  <2>2. ASSUME UNCHANGED <<scheme, intel, found, handed, stored>>,
               \A a \in Apps : /\ app'[a].changed = app[a].changed
                               /\ app'[a].processed = app[a].processed
        PROVE  HandoverHolds'
    <3>1. FoundHolds'
      BY <2>2 DEF HandoverHolds, FoundHolds
    <3> QED BY <2>1, <2>2, <3>1, HandoverUntouched
  <2>3. CASE UNCHANGED vars
    BY <2>2, <2>3 DEF vars
  <2>4. CASE \/ Breaks \/ Heals \/ Killed \/ StartRun \/ BeginDocuments \/ BeginRefresh \/ EndRun
             \/ \E d \in Docs : Publish(d) \/ DownloadRow(d)
             \/ \E a \in Apps : \/ stage_documents(a) \/ RefreshBegins(a)
                                \/ _refresh_one_application(a)
    <3>1. UNCHANGED <<app, scheme, intel, found, handed, stored>>
      BY <2>4 DEF Breaks, Heals, Killed, StartRun, BeginDocuments, BeginRefresh, EndRun, Publish,
                  DownloadRow, stage_documents, RefreshBegins, _refresh_one_application, history
    <3> QED BY <2>2, <3>1
  <2>5. CASE \E a \in Apps, rs \in (SUBSET Reasons) \ {{}} : _upsert_scraped_application(a, rs)
    <3>1. PICK a \in Apps, rs \in (SUBSET Reasons) \ {{}} : _upsert_scraped_application(a, rs)
      BY <2>5
    <3>2. /\ app' = [app EXCEPT ![a].required = TRUE, ![a].reasons = rs,
                                ![a].requested = spent.changes + 1]
          /\ UNCHANGED <<scheme, intel, found, handed, stored>>
      BY <3>1 DEF _upsert_scraped_application
    <3>3. app[a] \in Evidence
      BY <2>1
    <3>4. /\ app'[a].changed = app[a].changed /\ app'[a].processed = app[a].processed
          /\ \A x \in Apps \ {a} : app'[x] = app[x]
      BY <2>1, <3>2, <3>3 DEF Evidence
    <3>5. \A x \in Apps : /\ app'[x].changed = app[x].changed
                          /\ app'[x].processed = app[x].processed
      BY <3>4
    <3> QED BY <2>2, <3>2, <3>5
  <2> QED BY <2>3, <2>4, <2>5, SavePassHandover, AnswerHandover, JobHandover DEF Next, RunStep
<1> QED BY <1>1, <1>2, PTL DEF Spec

\* What was handed over and counts as processed has been read, if every reason
\* that occurs reads its category (intelligence_evidence_processed_at,
\* "successfully incorporated").
THEOREM WhatEveryReasonReadsIsRead == Spec => []SharedIsRead
<1>1. HandoverInv => SharedIsRead
  BY DEF HandoverInv, HandoverHolds
<1> QED BY <1>1, HandoverInvariant, PTL
=============================================================================
