------------------------------- MODULE CouncilRun -------------------------------
(***************************************************************************)
(* One council's daily run, stage by stage (main and the stage_ functions  *)
(* of app/pipeline/run_weekly.py): the scrape, missing parents, related    *)
(* filings, unit confirmation, documents and evidence refresh, all sharing *)
(* one circuit breaker and one acquisition health.                         *)
(*                                                                         *)
(* One step is one portal call, with the commit that follows it where one  *)
(* does.  A refresh is one call here: EvidencePipeline has its rows.       *)
(* Status verification is a module of its own.                             *)
(***************************************************************************)
EXTENDS PortalCircuit, FiniteSets

CONSTANTS
  Months,      \* months a run scrapes: 1 daily, more in a backfill
  Apps,        \* applications whose unit count is not known
  MonthOf,     \* the month whose search lists an application, 0 for one stored before
  Cites,       \* the parent reference an application cites, 0 for none
  Size,        \* what a parent's own proposal says: "enough", "few", "unstated"
  Unheld,      \* parent references the portal does not hold
  Papers,      \* forms and statements an application's register lists
  PaperOf,     \* the application of a paper
  Form,        \* the papers that are application forms
  Stating,     \* the papers that state a count of the threshold or more
  Requested,   \* applications with an evidence refresh request
  Anchors,     \* applications whose reference is searched for
  Filings,     \* filings the searches may list
  Names,       \* the anchor a filing names
  Breakable,   \* what may fail for itself while the portal is up
  Cooldown,    \* days before an anchor is searched again (30)
  MaxOutages,  \* model bound: times the portal goes down or something breaks
  MaxCrashes   \* model bound: killed runs

Parents == {Cites[a] : a \in Apps} \ {0}
PapersOf(a) == {p \in Papers : PaperOf[p] = a}
SCRAPE  == 0   \* the search pages of a month, as something that may break

ASSUME SizeAssumption == Months \in Nat \ {0} /\ Cooldown \in Nat \ {0}
ASSUME MonthAssumption == MonthOf \in [Apps -> 0..Months]
ASSUME CitedAssumption ==
  /\ Cites \in [Apps -> Nat] /\ Size \in [Parents -> {"enough", "few", "unstated"}]
  /\ Unheld \subseteq Parents /\ Requested \subseteq Apps
ASSUME PaperAssumption == 0 \notin Apps /\ PaperOf \in [Papers -> Apps] /\ Form \cup Stating \subseteq Papers
ASSUME FilingAssumption == Names \in [Filings -> Anchors]
ASSUME IdAssumption ==
  Breakable \subseteq {SCRAPE} \cup Apps \cup Parents \cup Papers \cup Anchors \cup Filings
ASSUME BoundAssumption == {MaxOutages, MaxCrashes} \subseteq Nat

VARIABLES
  portal,     \* whether it is up, what is broken, the filings it lists
  unit,       \* unit_confirmation_status of each application
  wait,       \* days before related_search_checked_at lets an anchor be searched
  held,       \* rows stored: applications, parents, filings, papers; which
              \* applications are stamped as documented, which are refreshed
  disk,       \* papers whose file is on this machine
  run,        \* the run in progress
  result,     \* the ScrapeRun status of the last run
  spent,      \* what has been used of the model bounds
  streak,     \* history: recorded host failures of this run since a call succeeded
  forgiven,   \* history: those before a success that the scrape does not record
  missed,     \* history: work the health counts that this run failed or skipped
  seen        \* history: filings a search has listed

vars == <<portal, unit, wait, held, disk, run, result, spent, streak, forgiven, missed, seen>>

\* What is in hand is a month with links to fetch, an anchor with the filings its search
\* listed, or an application with papers; got is fetched and not yet committed.
NoRun   == [stage |-> "idle", left |-> {}, breaker |-> ClosedCircuit, health |-> NewHealth,
            month |-> 0, links |-> {}, anchor |-> 0, rows |-> {}, app |-> 0, papers |-> {},
            got |-> {}, complete |-> FALSE]
NoRows  == [applications |-> {a \in Apps : MonthOf[a] = 0}, parents |-> {}, filings |-> {},
            papers |-> {}, documented |-> {}, refreshed |-> {}]

Init ==
  /\ \E fs \in SUBSET Filings : portal = [up |-> TRUE, broken |-> {}, listed |-> fs]
  /\ unit = [a \in Apps |-> "none"] /\ wait = [a \in Anchors |-> 0] /\ held = NoRows
  /\ disk = {} /\ run = NoRun /\ result = "none"
  /\ spent = [outages |-> 0, crashes |-> 0]
  /\ streak = 0 /\ forgiven = 0 /\ missed = {} /\ seen = {}

(***************************************************************************)
(* The portal.                                                             *)
(***************************************************************************)
Answer(x) == IF ~portal.up THEN "host" ELSE IF x \in portal.broken THEN "error" ELSE "ok"

Breaks ==
  /\ spent.outages < MaxOutages /\ spent' = [spent EXCEPT !.outages = @ + 1]
  /\ \/ portal.up /\ portal' = [portal EXCEPT !.up = FALSE]
     \/ \E x \in Breakable \ portal.broken : portal' = [portal EXCEPT !.broken = @ \cup {x}]
  /\ UNCHANGED <<unit, wait, held, disk, run, result, streak, forgiven, missed, seen>>

Heals ==
  /\ \/ ~portal.up /\ portal' = [portal EXCEPT !.up = TRUE]
     \/ \E x \in portal.broken : portal' = [portal EXCEPT !.broken = @ \ {x}]
  /\ UNCHANGED <<unit, wait, held, disk, run, result, spent, streak, forgiven, missed, seen>>

Publish(f) ==
  /\ f \notin portal.listed /\ portal' = [portal EXCEPT !.listed = @ \cup {f}]
  /\ UNCHANGED <<unit, wait, held, disk, run, result, spent, streak, forgiven, missed, seen>>

Continues == ~run.breaker.open

\* The history of a recorded call: a streak of host failures ends with a success; any
\* other failure is no evidence either way.
Called(answer) ==
  /\ streak' = CASE answer = "ok"    -> 0
                 [] answer = "host"  -> streak + 1
                 [] answer = "error" -> streak
  /\ forgiven' = IF answer = "ok" THEN 0 ELSE forgiven

\* A success that is not recorded ends the streak and leaves the count.
Unrecorded == streak' = 0 /\ forgiven' = forgiven + streak

(***************************************************************************)
(* stage_scrape: a month is searched, then each application it lists is    *)
(* fetched, then all that was fetched is stored.  A failed search is       *)
(* recorded in the breaker, the failure of one application nowhere, and no *)
(* success is.  Only the first month is the primary scrape.                *)
(***************************************************************************)
StartRun ==
  /\ run.stage = "idle"
  /\ run' = [NoRun EXCEPT !.stage = "scrape", !.left = 1..Months, !.health.attempted = TRUE]
  /\ wait' = [a \in Anchors |-> IF wait[a] = 0 THEN 0 ELSE wait[a] - 1]
  /\ disk' \in {disk, {}}
  /\ streak' = 0 /\ forgiven' = 0 /\ missed' = {}
  /\ UNCHANGED <<portal, unit, held, result, spent, seen>>

stage_scrape(m) ==
  /\ run.stage = "scrape" /\ run.month = 0 /\ Continues
  /\ m \in run.left /\ \A n \in run.left : m <= n
  /\ LET answer == Answer(SCRAPE)
         tried  == [run EXCEPT !.left = @ \ {m}]
     IN  IF answer = "ok"
         THEN /\ run' = [tried EXCEPT !.month = m, !.links = {a \in Apps : MonthOf[a] = m}]
              /\ Unrecorded /\ UNCHANGED missed
         ELSE /\ run' = [tried EXCEPT !.breaker = record_failure(@, answer)]
              /\ missed' = IF m = 1 THEN missed \cup {SCRAPE} ELSE missed
              /\ Called(answer)
  /\ UNCHANGED <<portal, unit, wait, held, disk, result, spent, seen>>

scrape_month(a) ==
  /\ a \in run.links
  /\ IF Answer(a) = "ok"
     THEN run' = [run EXCEPT !.links = @ \ {a}, !.got = @ \cup {a}] /\ Unrecorded
     ELSE run' = [run EXCEPT !.links = @ \ {a}] /\ UNCHANGED <<streak, forgiven>>
  /\ UNCHANGED <<portal, unit, wait, held, disk, result, spent, missed, seen>>

EndMonth ==
  /\ run.month # 0 /\ run.links = {}
  /\ held' = [held EXCEPT !.applications = @ \cup run.got]
  /\ run' = [run EXCEPT !.month = 0, !.got = {}, !.health.completed = @ \/ run.month = 1]
  /\ UNCHANGED <<portal, unit, wait, disk, result, spent, streak, forgiven, missed, seen>>

(***************************************************************************)
(* stage_fetch_missing_parents: a parent already stored needs no call; a   *)
(* parent's size settles the application that cites it.                    *)
(***************************************************************************)
Settled(a) ==
  IF unit[a] \notin {"none", "undetermined"} THEN unit[a]
  ELSE CASE Size[Cites[a]] = "few"      -> "confirmed_disqualified"
         [] Size[Cites[a]] = "enough"   -> "confirmed_qualifying"
         [] Size[Cites[a]] = "unstated" -> unit[a]

UseStoredParent(a) ==
  /\ run.stage = "parents" /\ a \in run.left /\ Continues
  /\ Cites[a] \in held.parents
  /\ unit' = [unit EXCEPT ![a] = Settled(a)]
  /\ run' = [run EXCEPT !.left = @ \ {a}]
  /\ UNCHANGED <<portal, wait, held, disk, result, spent, streak, forgiven, missed, seen>>

FetchParent(a) ==
  /\ run.stage = "parents" /\ a \in run.left /\ Continues
  /\ Cites[a] \notin held.parents
  /\ LET answer == Answer(Cites[a])
         tried  == [run EXCEPT !.left = @ \ {a}, !.breaker = Record(@, answer)]
         found  == answer = "ok" /\ Cites[a] \notin Unheld
     IN  /\ run' = [tried EXCEPT !.health.parents = @ \/ answer # "ok"]
         /\ held' = IF found THEN [held EXCEPT !.parents = @ \cup {Cites[a]}] ELSE held
         /\ unit' = IF found THEN [unit EXCEPT ![a] = Settled(a)] ELSE unit
         /\ missed' = IF answer = "ok" THEN missed ELSE missed \cup {a}
         /\ Called(answer)
  /\ UNCHANGED <<portal, wait, disk, result, spent, seen>>

(***************************************************************************)
(* stage_fetch_related_applications: the anchor is stamped when its search *)
(* answered, before the filings it listed are fetched.                     *)
(***************************************************************************)
\* Mutant of SearchedAgain: an anchor once searched is never searched again.
SearchedOnce == {a \in Anchors : \A f \in seen : Names[f] # a}

SearchedAgain == {a \in Anchors : wait[a] = 0}

SearchRelated(a) ==
  /\ run.stage = "related" /\ run.anchor = 0 /\ a \in run.left /\ Continues
  /\ LET answer == Answer(a)
         rows   == {f \in portal.listed : Names[f] = a} \ held.filings
         tried  == [run EXCEPT !.left = @ \ {a}, !.breaker = Record(@, answer)]
     IN  /\ IF answer = "ok"
            THEN /\ run' = [tried EXCEPT !.anchor = a, !.rows = rows]
                 /\ wait' = [wait EXCEPT ![a] = Cooldown]
                 /\ seen' = seen \cup rows
            ELSE run' = tried /\ UNCHANGED <<wait, seen>>
         /\ Called(answer)
  /\ UNCHANGED <<portal, unit, held, disk, result, spent, missed>>

FetchFiling(f) ==
  /\ run.stage = "related" /\ run.anchor # 0 /\ f \in run.rows /\ Continues
  /\ LET answer == Answer(f) IN
       /\ run' = [run EXCEPT !.rows = @ \ {f}, !.breaker = Record(@, answer)]
       /\ held' = IF answer = "ok" THEN [held EXCEPT !.filings = @ \cup {f}] ELSE held
       /\ Called(answer)
  /\ UNCHANGED <<portal, unit, wait, disk, result, spent, missed, seen>>

EndSearch ==
  /\ run.stage = "related" /\ run.anchor # 0 /\ (run.rows = {} \/ ~Continues)
  /\ run' = [run EXCEPT !.anchor = 0, !.rows = {}]
  /\ UNCHANGED <<portal, unit, wait, held, disk, result, spent, streak, forgiven, missed, seen>>

(***************************************************************************)
(* stage_confirm_units: the form, then the statement.  The circuit is      *)
(* looked at once for an application, not between its two papers: the      *)
(* listing that answered has ended any streak, so two cannot open it.      *)
(* _pick_confirmed_unit_count returns a count of the threshold or more, or *)
(* none, so this stage disqualifies nothing.                               *)
(***************************************************************************)
ListPapers(a) ==
  /\ run.stage = "units" /\ run.app = 0 /\ a \in run.left /\ Continues
  /\ LET answer == Answer(a)
         tried  == [run EXCEPT !.left = @ \ {a}, !.breaker = Record(@, answer)]
     IN  /\ run' = IF answer = "ok" THEN [tried EXCEPT !.app = a, !.papers = PapersOf(a)]
                   ELSE tried
         /\ Called(answer)
  /\ UNCHANGED <<portal, unit, wait, held, disk, result, spent, missed, seen>>

\* download_document: a file that is there already is not asked for.
Download(p) == IF p \in disk THEN "ok" ELSE Answer(p)
Kept(p)     == disk' = IF Download(p) = "ok" THEN disk \cup {p} ELSE disk

Counted(r) == [r EXCEPT !.app = 0, !.papers = {}]

Qualified == [unit EXCEPT ![run.app] = "confirmed_qualifying"]

ReadPaper(p) ==
  /\ run.stage = "units" /\ p \in run.papers /\ (p \in Form \/ run.papers \cap Form = {})
  /\ LET answer == Download(p)
         tried  == [run EXCEPT !.papers = @ \ {p}, !.breaker = Record(@, answer)]
     IN  /\ IF answer = "ok" /\ p \in Stating
            THEN /\ unit' = Qualified
                 /\ run' = Counted(tried)
            ELSE run' = tried /\ UNCHANGED unit
         /\ Called(answer)
  /\ Kept(p)
  /\ UNCHANGED <<portal, wait, held, result, spent, missed, seen>>

FindsNoCount ==
  /\ run.stage = "units" /\ run.app # 0 /\ run.papers = {}
  /\ unit' = [unit EXCEPT ![run.app] = "undetermined"]
  /\ run' = [run EXCEPT !.app = 0]
  /\ UNCHANGED <<portal, wait, held, disk, result, spent, streak, forgiven, missed, seen>>

(***************************************************************************)
(* stage_documents: the health counts the listing of an application's      *)
(* register and none of the downloads after it.  One failed download, and  *)
(* the application is not stamped; what was fetched is stored with the     *)
(* stamp, in one commit.                                                   *)
(***************************************************************************)
UNIT_GATE_PASSED == {a \in held.applications : unit[a] \in {"none", "confirmed_qualifying"}}

stage_documents(a) ==
  /\ run.stage = "documents" /\ run.app = 0 /\ a \in run.left /\ Continues
  /\ LET answer == Answer(a)
         tried  == [run EXCEPT !.left = @ \ {a}, !.breaker = Record(@, answer)]
     IN  /\ IF answer = "ok"
            THEN /\ run' = [tried EXCEPT !.app = a, !.papers = PapersOf(a) \ held.papers,
                                         !.complete = TRUE]
                 /\ UNCHANGED missed
            ELSE /\ run' = [tried EXCEPT !.health.documents = TRUE]
                 /\ missed' = missed \cup {a}
         /\ Called(answer)
  /\ UNCHANGED <<portal, unit, wait, held, disk, result, spent, seen>>

Acquire(p) ==
  /\ run.stage = "documents" /\ p \in run.papers /\ Continues
  /\ LET answer == Download(p)
         tried  == [run EXCEPT !.papers = @ \ {p}, !.breaker = Record(@, answer)]
     IN  /\ run' = IF answer = "ok" THEN [tried EXCEPT !.got = @ \cup {p}]
                   ELSE [tried EXCEPT !.complete = FALSE]
         /\ Called(answer)
  /\ Kept(p)
  /\ UNCHANGED <<portal, unit, wait, held, result, spent, missed, seen>>

EndDocuments ==
  /\ run.stage = "documents" /\ run.app # 0 /\ (run.papers = {} \/ ~Continues)
  /\ held' = [held EXCEPT !.papers = @ \cup run.got,
                          !.documented = IF run.complete THEN @ \cup {run.app} ELSE @]
  /\ run' = [run EXCEPT !.app = 0, !.papers = {}, !.got = {}, !.complete = FALSE]
  /\ missed' = missed \cup run.papers
  /\ UNCHANGED <<portal, unit, wait, disk, result, spent, streak, forgiven, seen>>

\* stage_evidence_refresh: a refresh whose answer is not a completed check is counted.
stage_evidence_refresh(a) ==
  /\ run.stage = "refresh" /\ a \in run.left /\ Continues
  /\ LET answer == Answer(a)
         tried  == [run EXCEPT !.left = @ \ {a}, !.breaker = Record(@, answer)]
     IN  /\ run' = [tried EXCEPT !.health.refresh = @ \/ answer # "ok"]
         /\ held' = IF answer = "ok" THEN [held EXCEPT !.refreshed = @ \cup {a}] ELSE held
         /\ missed' = IF answer = "ok" THEN missed ELSE missed \cup {a}
         /\ Called(answer)
  /\ UNCHANGED <<portal, unit, wait, disk, result, spent, seen>>

(***************************************************************************)
(* From stage to stage; the end of the run and its status.                 *)
(***************************************************************************)
After == [scrape |-> "parents", parents |-> "related", related |-> "units",
          units |-> "documents", documents |-> "refresh", refresh |-> "end"]

WorkOf(stage) == CASE stage = "parents"   -> {a \in held.applications : Cites[a] # 0}
                   [] stage = "related"   -> SearchedAgain
                   [] stage = "units"     -> {a \in held.applications : unit[a] = "none"}
                   [] stage = "documents" -> UNIT_GATE_PASSED \ held.documented
                   [] stage = "refresh"   -> (Requested \cap held.applications) \ held.refreshed
                   [] stage = "end"       -> {}

NextStage ==
  /\ run.stage \in DOMAIN After /\ run.month = 0 /\ run.anchor = 0 /\ run.app = 0
  /\ run.left = {} \/ ~Continues
  /\ run' = [run EXCEPT !.stage = After[@], !.left = WorkOf(After[run.stage])]
  /\ missed' = missed \cup run.left
  /\ UNCHANGED <<portal, unit, wait, held, disk, result, spent, streak, forgiven, seen>>

\* Mutant of RunHealth: the circuit is not told to the health.
UntoldHealth == run.health

RunHealth == [run.health EXCEPT !.circuit = run.breaker.open]

EndRun ==
  /\ run.stage = "end"
  /\ result' = classify(RunHealth) /\ run' = NoRun
  /\ UNCHANGED <<portal, unit, wait, held, disk, spent, streak, forgiven, missed, seen>>

\* The run is killed, or an exception ends it.
Killed ==
  /\ run.stage # "idle" /\ spent.crashes < MaxCrashes
  /\ spent' = [spent EXCEPT !.crashes = @ + 1]
  /\ result' = "failed" /\ run' = NoRun
  /\ UNCHANGED <<portal, unit, wait, held, disk, streak, forgiven, missed, seen>>

(***************************************************************************)
(* The specification.                                                      *)
(***************************************************************************)
RunStep ==
  \/ StartRun \/ EndMonth \/ EndSearch \/ FindsNoCount \/ EndDocuments \/ NextStage \/ EndRun
  \/ \E m \in 1..Months : stage_scrape(m)
  \/ \E a \in Apps : \/ scrape_month(a) \/ UseStoredParent(a) \/ FetchParent(a)
                     \/ ListPapers(a) \/ stage_documents(a) \/ stage_evidence_refresh(a)
  \/ \E a \in Anchors : SearchRelated(a)
  \/ \E f \in Filings : FetchFiling(f)
  \/ \E p \in Papers : ReadPaper(p) \/ Acquire(p)

Next == Breaks \/ Heals \/ RunStep \/ Killed \/ \E f \in Filings : Publish(f)

Spec == Init /\ [][Next]_vars

\* The run is scheduled daily and a started one goes on; outages end.
FairSpec == Spec /\ WF_vars(RunStep) /\ WF_vars(Heals)
=============================================================================
