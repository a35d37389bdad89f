------------------------- MODULE VerificationProperties -------------------------
(***************************************************************************)
(* What status verification promises.                                      *)
(***************************************************************************)
EXTENDS StatusVerification

PlanStates == TERMINAL_STATES \cup {"recommended", "unknown", "pending"}
Events     == [field : {"state"}, old : PlanStates, new : PlanStates]
              \cup [field : {"date"}, old : Dates, new : Dates]
Rows       == [status : Statuses \ {NONE}, decision : Decisions, date : Dates,
               verified : 0..clock, seen : 0..clock, meta : 0..clock]
Jobs       == [pc : {"fetching"}, scope : Scopes, prior : Rows]
              \cup [pc : {"answered"}, scope : Scopes, prior : Rows, page : 1..Len(pages)]
Scrapes    == [pc : {"listed"}, page : 1..Len(pages)]
              \cup [pc : {"selected"}, page : 1..Len(pages), copy : Rows]

\* Every variable keeps its shape; no stamp is later than the last commit, and
\* what a job holds is a row and a page that were there.
VerificationTypeOK ==
  /\ pages \in Seq(Pages) /\ Len(pages) >= 1
  /\ row \in Rows /\ job \in [Verifiers -> Jobs \cup {NoJob}]
  /\ scrape \in Scrapes \cup {NoScrape} /\ scraped \in BOOLEAN
  /\ log \in Seq(Events) /\ clock \in Nat /\ asof \in [Facts -> 1..Len(pages)]

\* A verifier never replaces a fact by one of an older page, whoever wrote the
\* row while it was fetching ("atomically guarded against stale results",
\* verify_application_status).
NothingOlderIsVerified ==
  [][scrape' = scrape => \A f \in Facts : asof'[f] >= asof[f]]_vars

StateEvents == {i \in DOMAIN log : log[i].field = "state"}

\* The planning state after the event at i of the log, and before all events.
EndsIn(i) == IF i = 0 THEN "pending" ELSE log[i].new

\* While only verifiers write, the lifecycle events of the planning state replay
\* to the row: each begins where the last one ended, each was committed once, none
\* is missing ("written only where a detector already established a genuine
\* change", ApplicationLifecycleEvent).
HistoryReplays ==
  ~scraped =>
    \A i \in {0} \cup StateEvents :
      /\ \A j \in StateEvents :
           i < j /\ (\A k \in StateEvents : k <= i \/ j <= k)
             => log[j].old = EndsIn(i) /\ log[j].new # EndsIn(i)
      /\ (\A k \in StateEvents : k <= i) => StateOf(row) = EndsIn(i)

\* The stored date is one the portal gave for the stored decision ("a changed
\* terminal outcome cannot borrow the prior decision's date").
DateBelongsToDecision ==
  row.date # 0 => \E i \in DOMAIN pages : /\ pages[i].date = row.date
                                          /\ Stated(pages[i]).decision = row.decision

-----------------------------------------------------------------------------
(* The inductive invariant behind NothingOlderIsVerified. *)

\* A row that is still as a verifier read it has facts of no later page than the verifier
\* fetches: whoever wrote since then left a stamp that the verifier has not seen.
PriorsAreDated ==
  \A v \in Verifiers :
    job[v] # NoJob /\ Reserved(job[v].prior) =>
      \A f \in Facts : asof[f] <= IF job[v].pc = "answered" THEN job[v].page ELSE Len(pages)

VerificationInv == VerificationTypeOK /\ PriorsAreDated
=============================================================================
