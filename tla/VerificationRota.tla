---------------------------- MODULE VerificationRota ----------------------------
(***************************************************************************)
(* Which applications are verified when: the bounded daily selection by    *)
(* tier, cadence and age (select_verification_candidates and               *)
(* run_status_verification of app/pipeline/status_verification.py).  What  *)
(* one verification does is in StatusVerification.                         *)
(***************************************************************************)
EXTENDS Integers, Sequences, FiniteSets, SequencesExt, FiniteSetsExt

CONSTANTS
  Apps,        \* applications of one council, numbered by id
  Tier,        \* the tier of each, 1 to 4, while it is pending
  Broken,      \* applications whose own page can not be verified
  Cadence,     \* TIER_CADENCE_DAYS (7, 14, 30, 60)
  Limit,       \* MAX_STATUS_VERIFICATIONS_PER_COUNCIL_PER_RUN (10)
  MaxFailures, \* model bound: verifications that fail for a while
  MaxStops     \* model bound: runs cut short by an open circuit or a kill

Tiers == 1..4
LONG  == Max({Cadence[t] : t \in Tiers})   \* days after which age no longer matters

\* What is assumed of the constants; the module of a run states it as an ASSUME.
RotaAssumption ==
  /\ Apps \subseteq Nat /\ Tier \in [Apps -> Tiers] /\ Broken \subseteq Apps
  /\ Cadence \in [Tiers -> Nat \ {0}]
  /\ Limit \in Nat /\ {MaxFailures, MaxStops} \subseteq Nat

VARIABLES
  age,      \* days since status_verified_at, up to LONG
  verified, \* applications that have been verified, the oldest first
  decided,  \* applications with a decision: tier 5, never verified again
  queue,    \* candidates the run in progress has left
  today,    \* whether today's run has begun
  spent     \* what has been used of the model bounds

vars == <<age, verified, decided, queue, today, spent>>

Init ==
  /\ age = [a \in Apps |-> LONG] /\ verified = <<>> /\ decided = {}
  /\ queue = <<>> /\ today = FALSE
  /\ spent = [failures |-> 0, stops |-> 0]

(***************************************************************************)
(* select_verification_candidates.                                         *)
(***************************************************************************)

Eligible(t) ==
  {a \in Apps \ decided : Tier[a] = t /\ (a \in Range(verified) => age[a] >= Cadence[t])}

\* _tier_sort_key: never verified first, by id, then the oldest.
_tier_sort_key(a) ==
  IF a \in Range(verified) THEN Cardinality(Apps) + SelectInSeq(verified, LAMBDA x : x = a)
  ELSE Cardinality({b \in Apps : b < a})

InOrder(S) == SetToSortSeq(S, LAMBDA a, b : _tier_sort_key(a) < _tier_sort_key(b))

\* Mutant of Reserved: no place is kept for the lower tiers.
NoReserve == <<>>

\* One place for the oldest candidate of all lower tiers.
Reserved ==
  LET lower == UNION {Eligible(t) : t \in 2..4}
  IN  IF lower = {} THEN <<>> ELSE <<Head(InOrder(lower))>>

select_verification_candidates ==
  LET byTier == InOrder(Eligible(1)) \o InOrder(Eligible(2))
                  \o InOrder(Eligible(3)) \o InOrder(Eligible(4))
      others == SelectSeq(byTier, LAMBDA a : a \notin Range(Reserved))
      all    == Reserved \o others
  IN  SubSeq(all, 1, Min({Limit, Len(all)}))

(***************************************************************************)
(* run_status_verification.                                                *)
(***************************************************************************)
BeginRun ==
  /\ ~today /\ today' = TRUE
  /\ queue' = select_verification_candidates
  /\ UNCHANGED <<age, verified, decided, spent>>

\* Only a completed verification sets the stamp (COMPLETED_OUTCOMES).
Stamped(a) == a \notin Broken

Verify ==
  /\ queue # <<>> /\ queue' = Tail(queue)
  /\ LET a == Head(queue) IN
       IF Stamped(a)
       THEN /\ age' = [age EXCEPT ![a] = 0]
            /\ verified' = Append(SelectSeq(verified, LAMBDA b : b # a), a)
            /\ \/ UNCHANGED decided
               \/ decided' = decided \cup {a}
       ELSE UNCHANGED <<age, verified, decided>>
  /\ UNCHANGED <<today, spent>>

\* The page did not answer, or not usefully, this time.
Fails ==
  /\ queue # <<>> /\ queue' = Tail(queue)
  /\ spent.failures < MaxFailures /\ spent' = [spent EXCEPT !.failures = @ + 1]
  /\ UNCHANGED <<age, verified, decided, today>>

Stops ==
  /\ queue # <<>> /\ queue' = <<>>
  /\ spent.stops < MaxStops /\ spent' = [spent EXCEPT !.stops = @ + 1]
  /\ UNCHANGED <<age, verified, decided, today>>

NextDay ==
  /\ today /\ queue = <<>> /\ today' = FALSE
  /\ age' = [a \in Apps |-> Min({age[a] + 1, LONG})]
  /\ UNCHANGED <<verified, decided, queue, spent>>

Next == BeginRun \/ Verify \/ Fails \/ Stops \/ NextDay

Spec == Init /\ [][Next]_vars

\* A run a day, which goes on while it has candidates; pages that work answer
\* in the end.
FairSpec == Spec /\ WF_vars(BeginRun \/ Verify \/ NextDay)

(***************************************************************************)
(* Properties.                                                             *)
(***************************************************************************)
\* Every variable keeps its shape; a run has at most Limit candidates, all of
\* them different and pending when it began.
RotaTypeOK ==
  /\ age \in [Apps -> 0..LONG] /\ decided \subseteq Range(verified)
  /\ Range(verified) \subseteq Apps \ Broken /\ IsInjective(verified)
  /\ Range(queue) \subseteq Apps \ decided /\ IsInjective(queue) /\ Len(queue) <= Limit
  /\ today \in BOOLEAN

\* No pending application is starved, of whatever tier, behind however many of
\* higher ones: each is verified again and again until it is decided ("a Tier
\* 3/4 backlog is never permanently starved behind a large Tier 1/2
\* population", select_verification_candidates).
NoneIsStarved == \A a \in Apps \ Broken : []<>(age[a] = 0 \/ a \in decided)

=============================================================================
