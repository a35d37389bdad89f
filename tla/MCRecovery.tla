-------------------------------- MODULE MCRecovery --------------------------------
(***************************************************************************)
(* Jobs that a process may leave in the middle.  A behaviour belongs to    *)
(* one part, chosen at the start, and the others keep their initial state: *)
(*   document   a document job of two downloads, over a file that had a    *)
(*              content and one that was not there: either process may be  *)
(*              killed, and every wait may reach its deadline;             *)
(*   rebuild    the batches of the rebuild, scaled from 25 applications to *)
(*              three and from 60 batches to four;                         *)
(*   identity   two workers that may lease one admission.                  *)
(***************************************************************************)
EXTENDS DocumentJob, HistoricalRebuild, NewIdentity

VARIABLE part

all == <<part, jobVars, rebuildVars, vars>>

InitAll ==
  /\ part \in {"document", "rebuild", "identity"}
  /\ JobInit /\ Init
  /\ RebuildInit /\ (part # "rebuild" => docs = [a \in Apps |-> Categories])

\* Whose behaviour it is.
OfDocument == part = "document" /\ UNCHANGED <<part, rebuildVars, vars>>
OfRebuild  == part = "rebuild" /\ UNCHANGED <<part, jobVars, vars>>
OfIdentity == part = "identity" /\ UNCHANGED <<part, jobVars, rebuildVars>>

NextAll ==
  \/ OfDocument /\ JobNext
  \/ OfRebuild /\ RebuildNext
  \/ OfIdentity /\ Next

\* What JobFairSpec assumes.
SpecAll ==
  /\ InitAll /\ [][NextAll]_all
  /\ WF_all(OfDocument /\ (ParentStep \/ BodyFails)) /\ WF_all(OfDocument /\ CustodianStep)
=============================================================================
