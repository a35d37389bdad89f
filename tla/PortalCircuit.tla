------------------------------ MODULE PortalCircuit ------------------------------
(***************************************************************************)
(* The portal circuit breaker of one council run                           *)
(* (app/pipeline/portal_circuit_breaker.py) and its acquisition health     *)
(* (app/pipeline/acquisition_health.py): values and operators, for the     *)
(* modules that keep one of each in their state.                           *)
(*                                                                         *)
(* A portal call answers "ok", fails with the host unreachable ("host"),   *)
(* or fails some other way ("error": 429, 404, a parsing error).           *)
(***************************************************************************)
EXTENDS Naturals

PORTAL_CIRCUIT_FAILURE_THRESHOLD == 3
Answers == {"ok", "host", "error"}

is_portal_host_failure(answer) == answer = "host"

ClosedCircuit == [failures |-> 0, open |-> FALSE]

\* Mutant of record_success: an answer does not end the count.
NeverResets(b) == b

record_success(b) == IF b.open THEN b ELSE [b EXCEPT !.failures = 0]

record_failure(b, answer) ==
  IF b.open \/ ~is_portal_host_failure(answer) THEN b
  ELSE [failures |-> b.failures + 1,
        open     |-> b.failures + 1 >= PORTAL_CIRCUIT_FAILURE_THRESHOLD]

Record(b, answer) == IF answer = "ok" THEN record_success(b) ELSE record_failure(b, answer)

(***************************************************************************)
(* classify() asks only whether a counter is positive, so each counter is  *)
(* the fact that it is.                                                    *)
(***************************************************************************)
NewHealth == [attempted |-> FALSE, completed |-> FALSE, parents |-> FALSE, documents |-> FALSE,
              refresh |-> FALSE, circuit |-> FALSE]

classify(h) ==
  IF h.attempted /\ ~h.completed THEN "failed"
  ELSE IF h.parents \/ h.documents \/ h.refresh \/ h.circuit THEN "partial"
  ELSE "success"
=============================================================================
