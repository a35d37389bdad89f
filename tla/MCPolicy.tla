-------------------------------- MODULE MCPolicy --------------------------------
(***************************************************************************)
(* The paid evaluations of one mandate and the baselines of mandates.  A   *)
(* behaviour belongs to one part, chosen at the start:                     *)
(*   claims   three workers, one fingerprint, evaluations that outlast     *)
(*            the expiry of their claims;                                  *)
(*   rollout  two operators at two mandates, one without the B1 fields,    *)
(*            through a policy deployment, and for the other an approved   *)
(*            correction and drifting rules;                               *)
(*   seeding  two operators at the two mandates, onboarded or never, while *)
(*            the universe of opportunities grows.                         *)
(***************************************************************************)
EXTENDS EvaluationProperties, MandateProperties, TLC

VARIABLE part

ASSUME MandateConstants == MandateAssumption

\* What keeps a part small.
Within ==
  CASE part = "claims"  -> stamp = 1 /\ \A m \in Mandates : mandates[m].baseline = NoBaseline
    [] part = "rollout" -> universe = 0 /\ \A m \in PreB1 : mandates[m].rules = "old"
    [] part = "seeding" -> /\ version = 1
                           /\ \A m \in Mandates : mandates[m].rules = "old"
                           /\ \A d \in reviewed : d.kind = "reonboard"

InitAll ==
  /\ Init /\ MandateInit
  /\ part \in {"claims", "rollout", "seeding"}
  /\ Within
  /\ part = "rollout" => \A m \in PreB1 : mandates[m].baseline # NoBaseline

\* Whose step it is.
NextAll ==
  /\ UNCHANGED part
  /\ \/ part = "claims" /\ Next /\ UNCHANGED mandateVars
     \/ part # "claims" /\ MandateNext /\ Within' /\ UNCHANGED vars

SpecAll == InitAll /\ [][NextAll]_<<part, vars, mandateVars>>

SameOperators == Permutations(Operators)
=============================================================================
