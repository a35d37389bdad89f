------------------------------- MODULE MCPositions -------------------------------
(***************************************************************************)
(* What is told of a site: its planning position, the affordable housing   *)
(* of one application, and the changes of its opportunity.  A behaviour    *)
(* belongs to one part, chosen at the start, and the others keep their     *)
(* initial state:                                                          *)
(*   varied, whole, phased                                                 *)
(*               three or four applications of a site.  The three years of *)
(*               a permission are one day, the warning of 180 days is      *)
(*               none, the immaterial totals are 12 and 13;                *)
(*   affordable  five documents of one application, one of each type;      *)
(*   monitoring  two passes that overlap beside the rebaseline of o2 and   *)
(*               its rollback;                                             *)
(*   correction  two passes, one of which may fail, beside a reviewed      *)
(*               transition of three opportunities.                        *)
(***************************************************************************)
EXTENDS AffordablePosition, OpportunityMonitoring, PlanningPosition

VARIABLE part

\* One document of each type.
FiveTypes == <<"s106", "decision_notice", "officer_report", "planning_statement",
               "viability_affordable_housing">>

\* Of o2 the capacity is not exact.  The fix retires o1, baselines o2 in its place and
\* corrects the facts of o3.
Detectors == [o1 |-> "planning_delivery:site", o2 |-> "strategic_land:allocation",
              o3 |-> "strategic_land:allocation"]
Fixes     == {[retired |-> {"o1"}, replacement |-> {"o2"}, rebaseline |-> {"o3"}]}

\* 1 to 3: a permission and two variations that cite it and each other; 4 to 6: a
\* permission of "up to" some homes, a rival and a certificate; 7 to 10: the
\* permissions of two phases, one for both of them and details of the first, whose
\* documents tell of no homes.
Roles       == <<"full", "s73", "s73", "full", "full", "certificate",
                 "full", "full", "full", "amendment">>
PhasesNamed == <<{}, {}, {}, {}, {}, {}, {<<"1", "phase">>}, {<<"2", "phase">>},
                 {<<"1", "phase">>, <<"2", "phase">>}, {<<"1", "phase">>}>>
HomesStated == <<12, 0, 0, 0, 30, 0, 0, 0, 0, 0>>
Citations   == [a \in 1..10 |-> CASE a = 2 -> {1, 3} [] a = 3 -> {1, 2} [] OTHER -> {}]
DaysOf      == <<1, 1, 1, 2, 1, 2, 1, 1, 1, 2>>
TwoPhases   == {{"1", "2"}}

\* The applications, the totals and the last day of each part.
Site ==
  CASE part = "varied" -> [apps |-> 1..3, counts |-> {12, 13}, last |-> 3]
    [] part = "whole"  -> [apps |-> 4..6, counts |-> {12, 30}, last |-> 2]
    [] part = "phased" -> [apps |-> 7..10, counts |-> {12}, last |-> 2]
    [] OTHER           -> [apps |-> {}, counts |-> {}, last |-> 1]

\* What keeps the parts of the sites and of the monitoring apart.
Within ==
  /\ filed \subseteq Site.apps /\ today <= Site.last
  /\ \A a \in filed \ {10} : total_units[a] \in Site.counts \cup {None}
  /\ total_units[10] = None
  /\ CASE part = "monitoring" ->
            /\ stops = 0 /\ live \subseteq {"o2"} /\ fact["o1"] = 0 /\ fact["o3"] = 0
            /\ change.pc = "load" => change.entries # {}
       [] part = "correction" ->
            /\ ~v8 /\ live \in {{"o3"}, {"o2", "o3"}}
            /\ fact["o1"] = 0 /\ fact["o2"] = 0
       [] OTHER               -> live = {}

ASSUME PositionsConstants ==
  PositionAssumption /\ DocAssumption /\ ValueAssumption /\ RefreshReasonAssumption
  /\ MonitoringAssumption

all == <<part, positionVars, vars, monitoringVars>>

InitAll ==
  /\ part \in {"varied", "whole", "phased", "affordable", "monitoring", "correction"}
  /\ PositionInit /\ Init /\ MonitoringInit /\ Within

NextAll ==
  \/ /\ part \in {"varied", "whole", "phased"}
     /\ PositionNext /\ UNCHANGED <<part, vars, monitoringVars>> /\ Within'
  \/ part = "affordable" /\ Next /\ UNCHANGED <<part, positionVars, monitoringVars>>
  \/ /\ part \in {"monitoring", "correction"}
     /\ MonitoringNext /\ UNCHANGED <<part, positionVars, vars>> /\ Within'

SpecAll == InitAll /\ [][NextAll]_all
=============================================================================
