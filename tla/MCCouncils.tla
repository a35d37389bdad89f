------------------------------- MODULE MCCouncils -------------------------------
(***************************************************************************)
(* One council's run beside the daily job over all councils.  The two      *)
(* share no state: a behaviour belongs to one of them, chosen at the       *)
(* start, and the other keeps its initial state.                           *)
(*                                                                         *)
(* Applications are 1 and 2, each listed by the search of its month;       *)
(* papers 11 and 12, the first a form, are of application 1; anchor 3 has  *)
(* filing 31; 9 is the parent that application 2 cites.                    *)
(***************************************************************************)
EXTENDS CouncilRunProperties, DailyCouncils

VARIABLE part

ASSUME DailyConstants == DailyAssumption

all == <<part, vars, jobVars>>

InitAll ==
  /\ part \in {"run", "job"} /\ Init /\ JobInit
  /\ part = "job" => portal.listed = {}

\* Whose behaviour it is.
OfRun == part = "run" /\ UNCHANGED <<part, jobVars>>
OfJob == part = "job" /\ UNCHANGED <<part, vars>>

NextAll == (OfRun /\ Next) \/ (OfJob /\ JobNext)

\* What FairSpec and JobFairSpec assume, each of its own part.
SpecAll ==
  /\ InitAll /\ [][NextAll]_all
  /\ WF_all(OfRun /\ RunStep) /\ WF_all(OfRun /\ Heals)
  /\ WF_all(OfJob /\ JobStep) /\ WF_all(OfJob /\ _on_timeout)

NoOne    == {}
One      == {1}
Two      == {1, 2}
Own      == [a \in Apps |-> a]
OneCites == [a \in Apps |-> IF a = 2 THEN 9 ELSE 0]
SizeOf   == [p \in Parents |-> CASE p = 7 -> "few" [] p = 8 -> "enough" [] p = 9 -> "unstated"]
TwoPapers  == {11, 12}
OwnerOf  == [p \in Papers |-> p \div 10]
FormsOf  == {p \in Papers : p % 10 = 1}
Second   == {12}
Three    == {3}
Filing   == {31}
NamesOf  == [f \in Filings |-> f \div 10]
Some     == {SCRAPE, 1, 12, 9, 31}
=============================================================================
