--------------------------- MODULE StatusVerification ---------------------------
(***************************************************************************)
(* Direct verification of one application's planning facts                 *)
(* (app/pipeline/status_verification.py), by several verifiers at a time,  *)
(* beside a scrape that writes the same row (_upsert_scraped_application). *)
(*                                                                         *)
(* A page of the portal states a status, a decision and a decision date,   *)
(* each of which may be absent.  Texts the verifier refuses on their own   *)
(* (negated, minded to, unparseable, of another reference or origin) are   *)
(* failed fetches here; unit counts and discovery rows are left out.       *)
(***************************************************************************)
EXTENDS Integers, Sequences

CONSTANTS
  Verifiers,   \* jobs that may verify the application at the same time
  Scopes,      \* kinds of evidence they fetch
  Scraping,    \* whether a scrape writes the row too
  Pages,       \* what the portal may show
  MaxPages,    \* model bound: versions of the page
  MaxCommits   \* model bound: committed writes

NONE     == "none"
Statuses  == {NONE, "awaiting", "recommended", "decided", "withdrawn"}
Decisions == {NONE, "granted", "refused", "withdrawn", "determined"}
Dates     == 0..2      \* decision dates; 0 is none
COUPLED   == "COUPLED"
PENDING_ONLY == "UNCHANGED_PENDING_STATUS_ONLY"
DATE_ONLY    == "FIELD_LEVEL_DATE_ONLY"
Facts        == {"status", "decision", "date"}

\* What is assumed of the constants; the module of a run states it as an ASSUME.
VerificationAssumption ==
  /\ Scopes \subseteq {COUPLED, PENDING_ONLY, DATE_ONLY} /\ Scraping \in BOOLEAN
  /\ Pages \subseteq [status : Statuses, decision : Decisions, date : Dates]
  /\ MaxPages \in Nat \ {0} /\ MaxCommits \in Nat

VARIABLES
  pages,   \* what the portal has shown, the current page last
  row,     \* the application: its facts, and verified, seen and meta stamps
  job,     \* the verifiers
  scrape,  \* the scrape
  log,     \* lifecycle events
  clock,   \* committed writes so far, the stamp of the last
  asof,    \* history: the page each fact was last taken from
  scraped  \* history: whether a scrape has written the row

vars == <<pages, row, job, scrape, log, clock, asof, scraped>>

NoJob    == [pc |-> "idle"]
NoScrape == [pc |-> "idle"]

Init ==
  /\ \E p \in Pages :
       /\ p.status = "awaiting" /\ p.decision = NONE
       /\ pages = <<p>>
       /\ row = [status |-> p.status, decision |-> NONE, date |-> 0,
                 verified |-> 0, seen |-> 0, meta |-> 0]
  /\ job = [v \in Verifiers |-> NoJob] /\ scrape = NoScrape
  /\ log = <<>> /\ clock = 0 /\ asof = [f \in Facts |-> 1] /\ scraped = FALSE

Publish(p) ==
  /\ Len(pages) < MaxPages /\ pages' = Append(pages, p)
  /\ UNCHANGED <<row, job, scrape, log, clock, asof, scraped>>

(***************************************************************************)
(* Planning states and material changes (material_change.py).              *)
(***************************************************************************)
TERMINAL_STATES == {"granted", "refused", "withdrawn"}

\* Withdrawal first, and a recommendation before the decision it recommends.
_classify_planning_state(decision, status) ==
  IF "withdrawn" \in {decision, status} THEN "withdrawn"
  ELSE IF status = "recommended" THEN "recommended"
  ELSE IF decision \in {"granted", "refused"} THEN decision
  ELSE IF status = "decided" THEN "unknown" ELSE "pending"

StateOf(r) == _classify_planning_state(r.decision, r.status)

\* Mutant of MaterialEvents: every write is recorded.
AlwaysRecorded(old, new) == <<[field |-> "state", old |-> StateOf(old), new |-> StateOf(new)]>>

\* A formal outcome that falls back to pending is portal noise, not an event.
MaterialEvents(old, new) ==
  IF \/ StateOf(old) = StateOf(new)
     \/ StateOf(old) \in TERMINAL_STATES /\ StateOf(new) = "pending"
  THEN <<>>
  ELSE <<[field |-> "state", old |-> StateOf(old), new |-> StateOf(new)]>>

\* record_decision_date_correction
DateEvent(old, new) ==
  IF new.date \in {0, old.date} THEN <<>>
  ELSE <<[field |-> "date", old |-> old.date, new |-> new.date]>>

(***************************************************************************)
(* verify_application_status.                                              *)
(***************************************************************************)
\* A withdrawn status without a decision is a decision to withdraw.
Stated(p) == IF p.status = "withdrawn" /\ p.decision = NONE
             THEN [p EXCEPT !.decision = "withdrawn"] ELSE p

\* The evidence is complete, does not contradict itself, and does not undo a
\* formal outcome or replace it by an earlier one.
CoupledAccepted(p, prior) ==
  LET old == StateOf(prior)
      new == StateOf(Stated(p))
  IN  /\ p.status # NONE \/ p.decision # NONE
      /\ p.status = "recommended" => p.decision \notin {"granted", "refused"}
      /\ p.status = "awaiting" /\ p.decision # NONE => new \notin TERMINAL_STATES
      /\ p.status = "withdrawn" => p.decision \in {NONE, "withdrawn"}
      /\ old \in TERMINAL_STATES /\ new \in TERMINAL_STATES \ {old} /\ prior.date # 0
           => p.date >= prior.date
      /\ old \in TERMINAL_STATES => new \in TERMINAL_STATES

Accepted(scope, p, prior) ==
  CASE scope = COUPLED      -> CoupledAccepted(p, prior)
    [] scope = PENDING_ONLY ->
         /\ p.status = "awaiting" /\ prior.status = "awaiting"
         /\ prior.decision = NONE /\ prior.date = 0
    [] scope = DATE_ONLY    -> p.date # 0

\* _upsert_scraped_application: what the page states is written, no more.
Merged(r, p) ==
  [r EXCEPT !.status   = IF p.status = NONE THEN @ ELSE p.status,
            !.decision = IF p.decision = NONE THEN @ ELSE p.decision,
            !.date     = IF p.date = 0 THEN @ ELSE p.date]

\* A changed outcome does not borrow the prior decision's date.
Verified(prior, p) ==
  LET new == Merged(prior, Stated(p))
  IN  IF new.decision # prior.decision /\ p.date = 0 THEN [new EXCEPT !.date = 0] ELSE new

VerifiedEvents(prior, new) ==
  MaterialEvents(prior, new)
    \o IF new.decision = prior.decision THEN DateEvent(prior, new) ELSE <<>>

\* The prior values are read before the page is fetched.
Snapshot(v, scope) ==
  /\ job[v].pc = "idle" /\ scope \in Scopes
  /\ job' = [job EXCEPT ![v] = [pc |-> "fetching", scope |-> scope, prior |-> row]]
  /\ UNCHANGED <<pages, row, scrape, log, clock, asof, scraped>>

Fetch(v) ==
  /\ job[v].pc = "fetching"
  /\ job' = [job EXCEPT ![v] = [pc |-> "answered", scope |-> @.scope, prior |-> @.prior,
                                page |-> Len(pages)]]
  /\ UNCHANGED <<pages, row, scrape, log, clock, asof, scraped>>

\* Not found, failed, refused or stale evidence, and a transaction that failed
\* or died, leave the row as it was.
GiveUp(v) ==
  /\ job[v].pc # "idle" /\ job' = [job EXCEPT ![v] = NoJob]
  /\ UNCHANGED <<pages, row, scrape, log, clock, asof, scraped>>

\* Mutant of Reserved: the facts are compared, the stamps are not.
FactsAreTheSame(prior) == \A f \in Facts : row[f] = prior[f]

\* The conditional UPDATE finds every column as it was before the fetch.
Reserved(prior) == row = prior

Commits(v, new, events, observed) ==
  /\ clock < MaxCommits /\ clock' = clock + 1
  /\ row' = new /\ log' = log \o events
  /\ asof' = [f \in Facts |-> IF f \in observed THEN job[v].page ELSE asof[f]]
  /\ job' = [job EXCEPT ![v] = NoJob]
  /\ UNCHANGED <<pages, scrape, scraped>>

\* One transaction: reservation, facts, events.  If its acknowledgement is lost
\* the verifier reports a failure and the row is as it is here.
verify_application_status(v) ==
  /\ job[v].pc = "answered"
  /\ LET prior == job[v].prior
         page  == pages[job[v].page]
         stamp == clock + 1
         new   == IF job[v].scope = PENDING_ONLY THEN prior ELSE Verified(prior, page)
     IN  /\ job[v].scope # DATE_ONLY
         /\ Accepted(job[v].scope, page, prior) /\ Reserved(prior)
         /\ Commits(v, [new EXCEPT !.verified = stamp, !.seen = stamp],
                    VerifiedEvents(prior, new),
                    IF job[v].scope = PENDING_ONLY THEN {"status"} ELSE Facts)

\* Its stamp is in meta: last_seen_at is kept on purpose.
_verify_date_field(v) ==
  /\ job[v].pc = "answered" /\ job[v].scope = DATE_ONLY
  /\ LET prior == job[v].prior
         page  == pages[job[v].page]
         new   == [prior EXCEPT !.date = page.date, !.meta = clock + 1]
     IN  /\ Accepted(DATE_ONLY, page, prior) /\ Reserved(prior)
         /\ Commits(v, new, DateEvent(prior, new), {"date"})

(***************************************************************************)
(* stage_scrape: the month's pages first, then row by row.  The session    *)
(* writes the attributes that differ from the copy it selected.            *)
(***************************************************************************)
ListMonth ==
  /\ Scraping /\ scrape.pc = "idle"
  /\ scrape' = [pc |-> "listed", page |-> Len(pages)]
  /\ UNCHANGED <<pages, row, job, log, clock, asof, scraped>>

SelectRow ==
  /\ scrape.pc = "listed"
  /\ scrape' = [pc |-> "selected", page |-> scrape.page, copy |-> row]
  /\ UNCHANGED <<pages, row, job, log, clock, asof, scraped>>

_upsert_scraped_application ==
  /\ scrape.pc = "selected" /\ clock < MaxCommits /\ clock' = clock + 1
  /\ LET new     == Merged(scrape.copy, pages[scrape.page])
         Kept(f) == IF new[f] # scrape.copy[f] THEN new[f] ELSE row[f]
     IN  /\ row' = [row EXCEPT !.status = Kept("status"), !.decision = Kept("decision"),
                               !.date = Kept("date"), !.seen = clock + 1]
         /\ log' = log \o MaterialEvents(scrape.copy, new)
  /\ asof' = [f \in Facts |-> scrape.page]
  /\ scrape' = NoScrape /\ scraped' = TRUE
  /\ UNCHANGED <<pages, job>>

Next ==
  \/ \E p \in Pages : Publish(p)
  \/ \E v \in Verifiers : \/ \E s \in Scopes : Snapshot(v, s)
                          \/ Fetch(v) \/ GiveUp(v)
                          \/ verify_application_status(v) \/ _verify_date_field(v)
  \/ ListMonth \/ SelectRow \/ _upsert_scraped_application

Spec == Init /\ [][Next]_vars
=============================================================================
