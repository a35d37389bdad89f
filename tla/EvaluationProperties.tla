------------------------- MODULE EvaluationProperties -------------------------
(* What the claims of app/policy/agent_evaluation_persistence.py are for. *)
EXTENDS EvaluationClaims

ResultsOf(k) == {h \in history : h.key = k}

\* Every variable stays in its type.
TypeOK ==
  /\ claims \in [Keys -> Claim]
  /\ history \subseteq Entry
  /\ current \in Current
  /\ worker \in [Workers -> Worker]
  /\ lastId \in Nat /\ crashes \in Nat
  /\ runs \in [Keys -> Nat] /\ forced \in [Keys -> Nat] /\ late \subseteq Keys

\* AgentEvaluationClaim: "only one worker may own evaluation ... so two concurrent
\* workers can never both pay for the same evaluation".  Whatever crashes, expires, is
\* reclaimed or forced, two pay at once only if one of them has outlasted the expiry, or
\* if one that had done so settled the claim under the other.
OnePayer ==
  \A v, w \in Workers :
    /\ v # w /\ worker[v].pc \in Paying /\ worker[w].pc \in Paying
    /\ worker[v].key = worker[w].key
    => \/ worker[v].elapsed > Expiry \/ worker[w].elapsed > Expiry
       \/ worker[v].key \in late

\* A fingerprint is settled once, and once more per forced retake: no reclaim, crash or
\* race makes a settled evaluation be paid and recorded again, unless a worker recorded
\* what it had evaluated past the expiry of its claim.
SettledOnce == \A k \in Keys \ late : Cardinality(ResultsOf(k)) <= 1 + forced[k]

\* A settled claim names the committed history row of its own fingerprint, with the
\* same verdict: try_claim_evaluation's caller reads that row instead of evaluating.
ClaimNamesItsHistory ==
  \A k \in Keys :
    claims[k].status \in Terminal
      => \E h \in ResultsOf(k) : h.id = claims[k].history /\ h.result = claims[k].status

\* The current position is a committed successful evaluation, through concurrent
\* recorders of different fingerprints.
CurrentIsASuccess ==
  current.history # 0
    => \E h \in history : h.id = current.history /\ h.result = "completed"

\* "Denormalised copy of current_history_id's own evaluation_input_fingerprint": the
\* fingerprint column is that of the evaluation the position points at.
PositionKeepsItsFingerprint ==
  current.history # 0
    => \E h \in history : h.id = current.history /\ h.key = current.key

\* "a technical failure must never become, or silently erase, a commercial
\* recommendation": the position moves only together with a successful history row.
FailureKeepsPosition ==
  [][current'.history # current.history
       => \E h \in history' \ history : h.result = "completed" /\ h.id = current'.history]_vars

\* "last_attempt_status: the MOST RECENT attempt's own outcome": it is the outcome of
\* the attempt the row was last written by.
LastAttemptIsOneAttempt ==
  current.present => \E h \in history : h.id = current.lastId /\ h.result = current.lastResult

\* "one row per attempt": an evaluation that is paid and whose worker lives reaches the
\* history; record_evaluation_outcome never ends without it.
PaidResultIsRecorded ==
  [][\A w \in Workers :
       worker[w].pc = "locked" /\ worker'[w].pc = "idle"
         => \E h \in history' : h.id = worker[w].id]_vars
=============================================================================
