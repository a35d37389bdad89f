--------------------------------- MODULE MCStatus ---------------------------------
(***************************************************************************)
(* Status verification and the rota that orders it.  A behaviour belongs   *)
(* to one part, chosen at the start:                                       *)
(*   jobs    two verifiers of one application, no scrape;                  *)
(*   scrape  one verifier beside a scrape of the same row;                 *)
(*   rota    the daily selection.  Its cadence of 7, 14, 30 and 60 days is *)
(*           scaled to 1, 2, 3 and 4, its limit of 10 to 2.                *)
(*                                                                         *)
(* Pages are as the portals show them: a decision date comes with a        *)
(* decision.                                                               *)
(***************************************************************************)
EXTENDS VerificationProperties

CONSTANTS Limit, MaxFailures, MaxStops

VARIABLES part, age, verified, decided, queue, today, spent

Page(s, d, n) == [status |-> s, decision |-> d, date |-> n]

Awaiting    == Page("awaiting", "none", 0)
Recommended == Page("recommended", "none", 0)
Granted     == Page("decided", "granted", 1)
Refused     == Page("decided", "refused", 2)
Undated     == Page("decided", "refused", 0)
Unreadable  == Page("none", "none", 0)
Unclear     == Page("decided", "determined", 1)

Shown     == {Awaiting, Recommended, Granted, Refused, Undated, Unreadable, Unclear}
AllScopes == {COUPLED, PENDING_ONLY, DATE_ONLY}
Two       == {"daily", "ingestion"}

Rota == INSTANCE VerificationRota WITH
  Apps <- 1..5, Tier <- <<1, 1, 1, 3, 4>>, Broken <- {}, Cadence <- <<1, 2, 3, 4>>

ASSUME StatusConstants == VerificationAssumption /\ Rota!RotaAssumption

rotaVars == <<age, verified, decided, queue, today, spent>>
all      == <<part, vars, rotaVars>>

\* What keeps a part small.
Within ==
  CASE part = "jobs"   -> /\ scrape = NoScrape /\ \A i \in DOMAIN pages : pages[i] # Unreadable
                          /\ \A v \in Verifiers : job[v] = NoJob \/ job[v].scope = COUPLED
    [] part = "scrape" -> /\ job["ingestion"] = NoJob
                          /\ \A i \in DOMAIN pages :
                               pages[i] \in {Awaiting, Recommended, Granted, Unreadable}
    [] part = "rota"   -> TRUE

InitAll == part \in {"jobs", "scrape", "rota"} /\ Init /\ Rota!Init /\ Within

\* Whose behaviour it is.
OfRow  == part # "rota" /\ UNCHANGED <<part, rotaVars>>
OfRota == part = "rota" /\ UNCHANGED <<part, vars>>

NextAll == (OfRow /\ Next /\ Within') \/ (OfRota /\ Rota!Next)

\* What VerificationRota!FairSpec assumes.
SpecAll ==
  /\ InitAll /\ [][NextAll]_all
  /\ WF_all(OfRota /\ (Rota!BeginRun \/ Rota!Verify \/ Rota!NextDay))

\* No pending application is starved, of whatever tier, behind however many of
\* higher ones ("a Tier 3/4 backlog is never permanently starved behind a large
\* Tier 1/2 population", select_verification_candidates).
NoneIsStarved == part = "rota" => Rota!NoneIsStarved
=============================================================================
