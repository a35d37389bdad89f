------------------------------- MODULE MCEvidence -------------------------------
(***************************************************************************)
(* Two questions about the evidence pipeline in one run; which one a       *)
(* behaviour is of is chosen at the start.  Application 2 is a reserved-   *)
(* matters filing that cites application 1.                                *)
(*   pair    a decision notice for each, one change, one outage;           *)
(*           Intelligence Processing stays away;                           *)
(*   single  a decision notice and an agreement for application 1, both    *)
(*           jobs, a killed run or an outage, and a failing LLM call;      *)
(*           application 2 has nothing and never changes.                  *)
(***************************************************************************)
EXTENDS EvidencePipelineProperties

VARIABLE part

TwoApps   == {1, 2}
OwnerOf   == [d \in Docs |-> d \div 10]
Decisions == [d \in Docs |-> IF d % 10 = 1 THEN "decision_notice" ELSE "s106"]
Cites     == [a \in Apps |-> IF a = 2 THEN 1 ELSE 0]
Nobody    == {}

\* The second change of a behaviour asks for less than the first.
NthReason(n) == IF n = 1 THEN {"decision_granted"} ELSE {"decision_refused"}

all == <<part, vars>>

\* What keeps a part small.
Within ==
  CASE part = "pair"   -> /\ 12 \notin portal.listed /\ intel = NoJob
                          /\ spent.changes <= 1 /\ spent.crashes = 0
    [] part = "single" -> /\ 21 \notin portal.listed /\ ~app[2].required
                          /\ portal.broken \subseteq {1, 11} /\ spent.outages + spent.crashes <= 1
                          /\ app[1].required => app[1].reasons = NthReason(app[1].requested)

InitAll == part \in {"pair", "single"} /\ Init /\ Within

\* A step of the part's own.
Of(A) == UNCHANGED part /\ A /\ Within'

NextAll == Of(Next)

\* What FairSpec assumes.
SpecAll ==
  /\ InitAll /\ [][NextAll]_all
  /\ WF_all(Of(RunStep)) /\ WF_all(Of(JobStep)) /\ WF_all(Of(Heals))
=============================================================================
