--------------------------- MODULE VerificationProofs ---------------------------
(* What a verification may write over, and what its events tell of the row, for     *)
(* any verifiers, scopes, pages, scrapes and number of commits.                     *)
EXTENDS VerificationProperties, TLAPS

(* Pages state a status, a decision and a date.                                        *)
LEMMA PagesStated ==
  ASSUME VerificationAssumption, VerificationTypeOK, NEW i \in 1..Len(pages)
  PROVE  pages[i] \in [status : Statuses, decision : Decisions, date : Dates]
BY DEF VerificationAssumption, VerificationTypeOK

(* Rows, jobs and scrapes stay of their types as commits are made and pages published. *)
LEMMA TypesGrow ==
  ASSUME VerificationTypeOK, clock' \in Nat, clock <= clock',
         Len(pages') \in Nat, Len(pages) <= Len(pages')
  PROVE  /\ Rows \subseteq Rows' /\ Jobs \subseteq Jobs' /\ Scrapes \subseteq Scrapes'
         /\ 1..Len(pages) \subseteq 1..Len(pages')
<1>1. clock \in Nat /\ Len(pages) \in Nat
  BY DEF VerificationTypeOK
<1>2. 1..Len(pages) \subseteq 1..Len(pages') /\ 0..clock \subseteq 0..clock'
  BY <1>1
<1>3. Rows \subseteq Rows'
  BY <1>2 DEF Rows
<1>4. Jobs \subseteq Jobs'
  BY <1>2, <1>3 DEF Jobs
<1>5. Scrapes \subseteq Scrapes'
  BY <1>2, <1>3 DEF Scrapes
<1>. QED
  BY <1>2, <1>3, <1>4, <1>5

(* A page merged into a row keeps it a row, with the facts the page leaves open.        *)
LEMMA MergedRow ==
  ASSUME NEW r \in Rows,
         NEW p \in [status : Statuses, decision : Decisions, date : Dates]
  PROVE  /\ Merged(r, p) \in Rows
         /\ Merged(r, p).status = IF p.status = NONE THEN r.status ELSE p.status
         /\ Merged(r, p).decision = IF p.decision = NONE THEN r.decision ELSE p.decision
<1>. DEFINE s == IF p.status = NONE THEN r.status ELSE p.status
            d == IF p.decision = NONE THEN r.decision ELSE p.decision
            n == IF p.date = 0 THEN r.date ELSE p.date
<1>1. s \in Statuses \ {NONE} /\ d \in Decisions /\ n \in Dates
  BY DEF Rows
<1>2. Merged(r, p) = [r EXCEPT !.status = s, !.decision = d, !.date = n]
  BY DEF Merged
<1>. HIDE DEF s, d, n
<1>3. /\ [r EXCEPT !.status = s, !.decision = d, !.date = n] \in Rows
      /\ [r EXCEPT !.status = s, !.decision = d, !.date = n].status = s
      /\ [r EXCEPT !.status = s, !.decision = d, !.date = n].decision = d
  BY <1>1 DEF Rows
<1>. QED
  BY <1>2, <1>3 DEF s, d

LEMMA VerifiedRow ==
  ASSUME NEW r \in Rows,
         NEW p \in [status : Statuses, decision : Decisions, date : Dates]
  PROVE  LET s == Stated(p)
         IN  /\ s \in [status : Statuses, decision : Decisions, date : Dates]
             /\ Verified(r, p) \in Rows
             /\ Verified(r, p).status = IF s.status = NONE THEN r.status ELSE s.status
             /\ Verified(r, p).decision = IF s.decision = NONE THEN r.decision ELSE s.decision
<1>1. Stated(p) \in [status : Statuses, decision : Decisions, date : Dates]
  BY DEF Stated, Decisions
<1>2. ASSUME NEW m \in Rows
      PROVE  /\ [m EXCEPT !.date = 0] \in Rows
             /\ [m EXCEPT !.date = 0].status = m.status
             /\ [m EXCEPT !.date = 0].decision = m.decision
  BY DEF Rows, Dates
<1>3. \/ Verified(r, p) = Merged(r, Stated(p))
      \/ Verified(r, p) = [Merged(r, Stated(p)) EXCEPT !.date = 0]
  BY DEF Verified
<1>. DEFINE s == Stated(p)
            m == Merged(r, s)
<1>4. /\ m \in Rows
      /\ m.status = IF s.status = NONE THEN r.status ELSE s.status
      /\ m.decision = IF s.decision = NONE THEN r.decision ELSE s.decision
  BY <1>1, MergedRow
<1>. HIDE DEF s, m
<1>5. /\ Verified(r, p) \in Rows
      /\ Verified(r, p).status = m.status /\ Verified(r, p).decision = m.decision
  BY <1>2, <1>3, <1>4 DEF m, s
<1>. QED
  BY <1>1, <1>4, <1>5 DEF s

(* A stamp that is later than every earlier one makes a row of a row, and a new one.   *)
LEMMA StampedRow ==
  ASSUME clock \in Nat, clock' = clock + 1, NEW r \in Rows, NEW d \in Dates
  PROVE  /\ [r EXCEPT !.verified = clock + 1, !.seen = clock + 1] \in Rows' \ Rows
         /\ [r EXCEPT !.date = d, !.meta = clock + 1] \in Rows' \ Rows
<1>1. 0..clock \subseteq 0..clock' /\ clock + 1 \in 0..clock' /\ clock + 1 \notin 0..clock
  OBVIOUS
<1>2. [r EXCEPT !.verified = clock + 1, !.seen = clock + 1] \in Rows'
  BY <1>1 DEF Rows
<1>3. [r EXCEPT !.verified = clock + 1, !.seen = clock + 1].seen = clock + 1
  BY DEF Rows
<1>4. [r EXCEPT !.date = d, !.meta = clock + 1] \in Rows'
  BY <1>1 DEF Rows
<1>5. [r EXCEPT !.date = d, !.meta = clock + 1].meta = clock + 1
  BY DEF Rows
<1>6. ASSUME NEW s \in Rows
      PROVE  s.seen # clock + 1 /\ s.meta # clock + 1
  BY <1>1 DEF Rows
<1>. QED
  BY <1>2, <1>3, <1>4, <1>5, <1>6

(* Events are well-formed, whatever rows they compare.                                 *)
LEMMA EventsTyped ==
  ASSUME NEW old, NEW new, old.date \in Dates, new.date \in Dates
  PROVE  /\ StateOf(old) \in PlanStates
         /\ MaterialEvents(old, new) \in Seq(Events)
         /\ DateEvent(old, new) \in Seq(Events)
         /\ VerifiedEvents(old, new) \in Seq(Events)
<1>1. StateOf(old) \in PlanStates /\ StateOf(new) \in PlanStates
  BY DEF StateOf, _classify_planning_state, PlanStates, TERMINAL_STATES
<1>2. ASSUME NEW e \in Events
      PROVE  <<e>> \in Seq(Events)
  OBVIOUS
<1>3. <<>> \in Seq(Events)
  OBVIOUS
<1>4. MaterialEvents(old, new) \in Seq(Events)
  <2>1. [field |-> "state", old |-> StateOf(old), new |-> StateOf(new)] \in Events
    BY <1>1 DEF Events
  <2>. QED
    BY <2>1, <1>2, <1>3 DEF MaterialEvents
<1>5. DateEvent(old, new) \in Seq(Events)
  <2>1. [field |-> "date", old |-> old.date, new |-> new.date] \in Events
    BY DEF Events
  <2>. QED
    BY <2>1, <1>2, <1>3 DEF DateEvent
<1>. QED
  BY <1>1, <1>3, <1>4, <1>5 DEF VerifiedEvents

-----------------------------------------------------------------------------
(* What a commit of a verifier does: it finds the row as the verifier read it, and      *)
(* leaves a row and events made from it and from the page.                             *)

(* A row the verifier of coupled or status evidence may write.                          *)
Outcomes(v) == {job[v].prior, Verified(job[v].prior, pages[job[v].page])}

LEMMA StatusCommitted ==
  ASSUME VerificationAssumption, VerificationTypeOK,
         NEW v \in Verifiers, verify_application_status(v)
  PROVE  /\ job[v].pc = "answered" /\ Reserved(job[v].prior)
         /\ clock' = clock + 1 /\ UNCHANGED <<pages, scrape, scraped>>
         /\ job' = [job EXCEPT ![v] = NoJob]
         /\ \E fs \in SUBSET Facts :
              asof' = [f \in Facts |-> IF f \in fs THEN job[v].page ELSE asof[f]]
         /\ \E new \in Outcomes(v) :
              /\ row' = [new EXCEPT !.verified = clock + 1, !.seen = clock + 1]
              /\ log' = log \o VerifiedEvents(job[v].prior, new)
              /\ new = job[v].prior
                 \/ CoupledAccepted(pages[job[v].page], job[v].prior)
<1>. DEFINE prior == job[v].prior
            new   == IF job[v].scope = PENDING_ONLY THEN prior
                     ELSE Verified(prior, pages[job[v].page])
            seen  == IF job[v].scope = PENDING_ONLY THEN {"status"} ELSE Facts
<1>1. /\ job[v].pc = "answered" /\ Reserved(prior) /\ job[v].scope # DATE_ONLY
      /\ Accepted(job[v].scope, pages[job[v].page], prior)
      /\ Commits(v, [new EXCEPT !.verified = clock + 1, !.seen = clock + 1],
                 VerifiedEvents(prior, new), seen)
  BY DEF verify_application_status
<1>2. seen \in SUBSET Facts
  BY DEF Facts
<1>3. new \in Outcomes(v)
  BY DEF Outcomes
<1>4. new = prior \/ CoupledAccepted(pages[job[v].page], prior)
  <2>1. job[v] \in Jobs
    BY <1>1 DEF VerificationTypeOK, NoJob
  <2>2. job[v].scope \in {COUPLED, PENDING_ONLY, DATE_ONLY}
    BY <2>1 DEF Jobs, VerificationAssumption
  <2>. QED
    BY <1>1, <2>2 DEF Accepted, COUPLED, PENDING_ONLY, DATE_ONLY
<1>. HIDE DEF new, seen
<1>. QED
  BY <1>1, <1>2, <1>3, <1>4 DEF Commits

LEMMA DateCommitted ==
  ASSUME NEW v \in Verifiers, _verify_date_field(v)
  PROVE  /\ job[v].pc = "answered" /\ Reserved(job[v].prior)
         /\ clock' = clock + 1 /\ UNCHANGED <<pages, scrape, scraped>>
         /\ job' = [job EXCEPT ![v] = NoJob]
         /\ \E fs \in SUBSET Facts :
              asof' = [f \in Facts |-> IF f \in fs THEN job[v].page ELSE asof[f]]
         /\ row' = [job[v].prior EXCEPT !.date = pages[job[v].page].date, !.meta = clock + 1]
         /\ log' = log \o DateEvent(job[v].prior, row')
<1>. DEFINE new  == [job[v].prior EXCEPT !.date = pages[job[v].page].date, !.meta = clock + 1]
            seen == {"date"}
<1>1. /\ job[v].pc = "answered" /\ Reserved(job[v].prior)
      /\ Commits(v, new, DateEvent(job[v].prior, new), seen)
  BY DEF _verify_date_field
<1>2. seen \in SUBSET Facts
  BY DEF Facts
<1>. HIDE DEF new, seen
<1>3. /\ row' = new /\ log' = log \o DateEvent(job[v].prior, row')
      /\ \E fs \in SUBSET Facts :
           asof' = [f \in Facts |-> IF f \in fs THEN job[v].page ELSE asof[f]]
  BY <1>1, <1>2 DEF Commits
<1>. QED
  BY <1>1, <1>3 DEF Commits, new

-----------------------------------------------------------------------------
(* The type invariant. *)

(* The two commits of a verifier.  Both leave a stamp that no earlier row has.         *)
LEMMA CommitTyped ==
  ASSUME VerificationAssumption, VerificationTypeOK, NEW v \in Verifiers,
         verify_application_status(v) \/ _verify_date_field(v)
  PROVE  /\ VerificationTypeOK'
         /\ row' \notin Rows
<1>1. /\ job[v].pc = "answered" /\ clock' = clock + 1 /\ UNCHANGED <<pages, scrape, scraped>>
      /\ job' = [job EXCEPT ![v] = NoJob]
      /\ \E fs \in SUBSET Facts :
           asof' = [f \in Facts |-> IF f \in fs THEN job[v].page ELSE asof[f]]
  BY StatusCommitted, DateCommitted
<1>2. job[v] \in Jobs
  BY <1>1 DEF VerificationTypeOK, NoJob
<1>3. job[v].prior \in Rows /\ job[v].page \in 1..Len(pages)
  BY <1>1, <1>2 DEF Jobs
<1>4. pages[job[v].page] \in [status : Statuses, decision : Decisions, date : Dates]
  BY <1>3, PagesStated
<1>5. clock \in Nat
  BY DEF VerificationTypeOK
<1>6. Rows \subseteq Rows' /\ Jobs \subseteq Jobs' /\ Scrapes \subseteq Scrapes'
  <2>1. clock' \in Nat /\ clock <= clock' /\ Len(pages') = Len(pages) /\ Len(pages) \in Nat
    BY <1>1 DEF VerificationTypeOK
  <2>. QED
    BY <2>1, TypesGrow
<1>7. row' \in Rows' \ Rows /\ \E ev \in Seq(Events) : log' = log \o ev
  <2>1. CASE verify_application_status(v)
    <3>1. PICK new \in Outcomes(v) :
            /\ row' = [new EXCEPT !.verified = clock + 1, !.seen = clock + 1]
            /\ log' = log \o VerifiedEvents(job[v].prior, new)
      BY <2>1, StatusCommitted
    <3>2. new \in Rows
      BY <1>3, <1>4, <3>1, VerifiedRow DEF Outcomes
    <3>3. new.date \in Dates /\ job[v].prior.date \in Dates
      BY <1>3, <3>2 DEF Rows
    <3>4. VerifiedEvents(job[v].prior, new) \in Seq(Events)
      BY <3>3, EventsTyped
    <3>5. row' \in Rows' \ Rows
      BY <1>1, <1>5, <3>1, <3>2, <3>3, StampedRow
    <3>. QED
      BY <3>1, <3>4, <3>5
  <2>2. CASE _verify_date_field(v)
    <3>1. /\ row' = [job[v].prior EXCEPT !.date = pages[job[v].page].date, !.meta = clock + 1]
          /\ log' = log \o DateEvent(job[v].prior, row')
      BY <2>2, DateCommitted
    <3>2. row' \in Rows' \ Rows
      BY <1>1, <1>3, <1>4, <1>5, <3>1, StampedRow
    <3>3. row'.date \in Dates /\ job[v].prior.date \in Dates
      BY <1>3, <3>2 DEF Rows
    <3>4. DateEvent(job[v].prior, row') \in Seq(Events)
      BY <3>3, EventsTyped
    <3>. QED
      BY <3>1, <3>2, <3>4
  <2>. QED
    BY <2>1, <2>2
<1>8. log' \in Seq(Events)
  BY <1>7 DEF VerificationTypeOK
<1>9. asof' \in [Facts -> 1..Len(pages)]
  BY <1>1, <1>3 DEF VerificationTypeOK
<1>10. job' \in [Verifiers -> Jobs' \cup {NoJob}] /\ scrape' \in Scrapes' \cup {NoScrape}
  BY <1>1, <1>6 DEF VerificationTypeOK
<1>. QED
  BY <1>1, <1>5, <1>7, <1>8, <1>9, <1>10 DEF VerificationTypeOK

(* What a scrape writes is a row too, and a new one.                                    *)
LEMMA ScrapeTyped ==
  ASSUME VerificationAssumption, VerificationTypeOK, _upsert_scraped_application
  PROVE  /\ VerificationTypeOK'
         /\ row' \notin Rows
<1>. DEFINE copy == scrape.copy
            new  == Merged(copy, pages[scrape.page])
<1>1. scrape \in Scrapes /\ scrape.pc = "selected"
  BY DEF _upsert_scraped_application, VerificationTypeOK, NoScrape
<1>2. copy \in Rows /\ scrape.page \in 1..Len(pages)
  BY <1>1 DEF Scrapes
<1>3. new \in Rows
  BY <1>2, PagesStated, MergedRow
<1>4. clock \in Nat /\ clock' = clock + 1 /\ UNCHANGED <<pages, job>>
      /\ scrape' = NoScrape /\ scraped' = TRUE /\ asof' = [f \in Facts |-> scrape.page]
      /\ log' = log \o MaterialEvents(copy, new)
  BY DEF _upsert_scraped_application, VerificationTypeOK
<1>5. Rows \subseteq Rows' /\ Jobs \subseteq Jobs'
  <2>1. clock' \in Nat /\ clock <= clock' /\ Len(pages') = Len(pages) /\ Len(pages) \in Nat
    BY <1>4 DEF VerificationTypeOK
  <2>. QED
    BY <2>1, TypesGrow
<1>6. row' \in Rows' \ Rows
  <2>1. PICK s \in {new.status, row.status}, d \in {new.decision, row.decision},
             n \in {new.date, row.date} :
          row' = [row EXCEPT !.status = s, !.decision = d, !.date = n, !.seen = clock + 1]
    <3>. DEFINE Kept(f) == IF new[f] # copy[f] THEN new[f] ELSE row[f]
    <3>1. row' = [row EXCEPT !.status = Kept("status"), !.decision = Kept("decision"),
                             !.date = Kept("date"), !.seen = clock + 1]
      BY DEF _upsert_scraped_application
    <3>2. /\ Kept("status") \in {new.status, row.status}
          /\ Kept("decision") \in {new.decision, row.decision}
          /\ Kept("date") \in {new.date, row.date}
      OBVIOUS
    <3>. HIDE DEF Kept
    <3>. QED
      BY <3>1, <3>2
  <2>2. row \in Rows /\ s \in Statuses \ {NONE} /\ d \in Decisions /\ n \in Dates
    BY <1>3 DEF VerificationTypeOK, Rows
  <2>3. 0..clock \subseteq 0..clock' /\ clock + 1 \in 0..clock' /\ clock + 1 \notin 0..clock
    BY <1>4
  <2>4. row' \in Rows'
    BY <2>1, <2>2, <2>3 DEF Rows
  <2>5. row'.seen = clock + 1
    BY <2>1, <2>2 DEF Rows
  <2>6. row' \notin Rows
    BY <2>3, <2>5 DEF Rows
  <2>. QED
    BY <2>4, <2>6
<1>7. log' \in Seq(Events)
  <2>1. copy.date \in Dates /\ new.date \in Dates
    BY <1>2, <1>3 DEF Rows
  <2>2. MaterialEvents(copy, new) \in Seq(Events)
    BY <2>1, EventsTyped
  <2>. QED
    BY <1>4, <2>2 DEF VerificationTypeOK
<1>8. asof' \in [Facts -> 1..Len(pages)]
  BY <1>2, <1>4
<1>9. job' \in [Verifiers -> Jobs' \cup {NoJob}]
  BY <1>4, <1>5 DEF VerificationTypeOK
<1>. QED
  BY <1>4, <1>6, <1>7, <1>8, <1>9 DEF VerificationTypeOK

(* A step that commits nothing leaves the row, its events and the stamps alone; the     *)
(* portal only adds pages.                                                              *)
LEMMA QuietTyped ==
  ASSUME VerificationAssumption, VerificationTypeOK,
         \/ \E p \in Pages : Publish(p)
         \/ \E v \in Verifiers : (\E s \in Scopes : Snapshot(v, s)) \/ Fetch(v) \/ GiveUp(v)
         \/ ListMonth \/ SelectRow \/ UNCHANGED vars
  PROVE  VerificationTypeOK'
<1>1. /\ UNCHANGED <<row, log, clock, asof, scraped>>
      /\ pages' = pages \/ \E p \in Pages : pages' = Append(pages, p)
  BY DEF Publish, Snapshot, Fetch, GiveUp, ListMonth, SelectRow, vars
<1>2. pages' \in Seq(Pages) /\ Len(pages) <= Len(pages') /\ Len(pages) \in Nat
      /\ Len(pages') \in Nat /\ Len(pages) >= 1
  <2>1. pages \in Seq(Pages) /\ Len(pages) \in Nat /\ Len(pages) >= 1
    BY DEF VerificationTypeOK
  <2>2. ASSUME NEW p \in Pages
        PROVE  Append(pages, p) \in Seq(Pages) /\ Len(Append(pages, p)) = Len(pages) + 1
    BY <2>1
  <2>3. CASE pages' = pages
    BY <2>1, <2>3
  <2>4. CASE \E p \in Pages : pages' = Append(pages, p)
    <3>1. PICK p \in Pages : pages' = Append(pages, p)
      BY <2>4
    <3>. QED
      BY <2>1, <2>2, <3>1
  <2>. QED
    BY <1>1, <2>3, <2>4
<1>3. /\ Rows \subseteq Rows' /\ Jobs \subseteq Jobs' /\ Scrapes \subseteq Scrapes'
      /\ 1..Len(pages) \subseteq 1..Len(pages')
  <2>1. clock' \in Nat /\ clock <= clock'
    BY <1>1 DEF VerificationTypeOK
  <2>. QED
    BY <1>2, <2>1, TypesGrow
<1>4. Len(pages) \in 1..Len(pages)
  BY <1>2
<1>5. job' \in [Verifiers -> Jobs' \cup {NoJob}]
  <2>1. ASSUME NEW v \in Verifiers, NEW s \in Scopes, Snapshot(v, s)
        PROVE  job' \in [Verifiers -> Jobs \cup {NoJob}]
    <3>1. [pc |-> "fetching", scope |-> s, prior |-> row] \in Jobs
      BY DEF VerificationTypeOK, Jobs
    <3>. QED
      BY <2>1, <3>1 DEF Snapshot, VerificationTypeOK
  <2>2. ASSUME NEW v \in Verifiers, Fetch(v)
        PROVE  job' \in [Verifiers -> Jobs \cup {NoJob}]
    <3>1. job[v] \in Jobs
      BY <2>2 DEF Fetch, VerificationTypeOK, NoJob
    <3>2. [pc |-> "answered", scope |-> job[v].scope, prior |-> job[v].prior,
           page |-> Len(pages)] \in Jobs
      BY <1>4, <3>1 DEF Jobs
    <3>. QED
      BY <2>2, <3>2 DEF Fetch, VerificationTypeOK
  <2>3. ASSUME NEW v \in Verifiers, GiveUp(v)
        PROVE  job' \in [Verifiers -> Jobs \cup {NoJob}]
    BY <2>3 DEF GiveUp, VerificationTypeOK
  <2>4. job' \in [Verifiers -> Jobs \cup {NoJob}]
    BY <2>1, <2>2, <2>3
       DEF Publish, ListMonth, SelectRow, vars, VerificationTypeOK
  <2>. QED
    BY <1>3, <2>4
<1>6. scrape' \in Scrapes' \cup {NoScrape}
  <2>1. CASE ListMonth
    <3>1. [pc |-> "listed", page |-> Len(pages)] \in Scrapes
      BY <1>4 DEF Scrapes
    <3>. QED
      BY <1>3, <2>1, <3>1 DEF ListMonth
  <2>2. CASE SelectRow
    <3>1. scrape \in Scrapes /\ scrape.pc = "listed"
      BY <2>2 DEF SelectRow, VerificationTypeOK, NoScrape
    <3>2. [pc |-> "selected", page |-> scrape.page, copy |-> row] \in Scrapes
      BY <3>1 DEF Scrapes, VerificationTypeOK
    <3>. QED
      BY <1>3, <2>2, <3>2 DEF SelectRow
  <2>3. CASE scrape' = scrape
    BY <1>3, <2>3 DEF VerificationTypeOK
  <2>4. ListMonth \/ SelectRow \/ scrape' = scrape
    BY DEF Publish, Snapshot, Fetch, GiveUp, vars
  <2>. QED
    BY <2>1, <2>2, <2>3, <2>4
<1>7. asof' \in [Facts -> 1..Len(pages')]
  BY <1>1, <1>3 DEF VerificationTypeOK
<1>8. row' \in Rows' /\ log' \in Seq(Events) /\ clock' \in Nat /\ scraped' \in BOOLEAN
  BY <1>1, <1>3 DEF VerificationTypeOK
<1>. QED
  BY <1>2, <1>5, <1>6, <1>7, <1>8 DEF VerificationTypeOK

-----------------------------------------------------------------------------
(* Nothing older is verified. *)

LEMMA VerificationInit ==
  ASSUME VerificationAssumption, Init
  PROVE  VerificationInv
<1>1. PICK p \in Pages :
        /\ p.status = "awaiting" /\ pages = <<p>>
        /\ row = [status |-> p.status, decision |-> NONE, date |-> 0,
                  verified |-> 0, seen |-> 0, meta |-> 0]
  BY DEF Init
<1>2. row \in Rows
  BY <1>1 DEF Init, Rows, Statuses, Decisions, Dates, NONE
<1>3. pages \in Seq(Pages) /\ Len(pages) = 1
  BY <1>1
<1>4. \A v \in Verifiers : job[v] = NoJob
  BY DEF Init
<1>5. scraped \in BOOLEAN
  <2>1. scraped = FALSE
    BY DEF Init
  <2>. QED
    BY <2>1
<1>6. /\ job \in [Verifiers -> Jobs \cup {NoJob}] /\ scrape = NoScrape
      /\ log \in Seq(Events) /\ clock = 0 /\ asof \in [Facts -> 1..Len(pages)]
  BY <1>3 DEF Init
<1>7. VerificationTypeOK
  BY <1>2, <1>3, <1>5, <1>6 DEF VerificationTypeOK
<1>8. PriorsAreDated
  BY <1>4 DEF PriorsAreDated
<1>. QED
  BY <1>7, <1>8 DEF VerificationInv

(* A commit changes the row from what every other verifier has read.                    *)
LEMMA CommitDated ==
  ASSUME VerificationInv, NEW v \in Verifiers, UNCHANGED pages,
         job' = job \/ \E u \in Verifiers : job' = [job EXCEPT ![u] = NoJob],
         row' \notin Rows
  PROVE  job'[v] # NoJob => row' # job'[v].prior
<1>. SUFFICES ASSUME job'[v] # NoJob
              PROVE  row' # job'[v].prior
  OBVIOUS
<1>1. job'[v] = job[v] /\ job[v] \in Jobs
  BY DEF VerificationInv, VerificationTypeOK
<1>2. job'[v].prior \in Rows
  BY <1>1 DEF Jobs
<1>. QED
  BY <1>2

LEMMA VerificationStep ==
  ASSUME VerificationAssumption, VerificationInv, [Next]_vars
  PROVE  VerificationInv'
<1>. USE DEF VerificationInv
<1>. SUFFICES ASSUME NEW v \in Verifiers, VerificationTypeOK',
                     job'[v] # NoJob, row' = job'[v].prior, NEW f \in Facts
              PROVE  asof'[f] <= IF job'[v].pc = "answered" THEN job'[v].page ELSE Len(pages')
  <2>1. VerificationTypeOK'
    BY CommitTyped, ScrapeTyped, QuietTyped DEF Next
  <2>. QED
    BY <2>1 DEF PriorsAreDated, Reserved
<1>1. ASSUME NEW u \in Verifiers, verify_application_status(u) \/ _verify_date_field(u)
      PROVE  FALSE
  <2>1. row' \notin Rows /\ UNCHANGED pages /\ job' = [job EXCEPT ![u] = NoJob]
    BY <1>1, CommitTyped, StatusCommitted, DateCommitted
  <2>. QED
    BY <2>1, CommitDated
<1>2. ASSUME _upsert_scraped_application
      PROVE  FALSE
  <2>1. row' \notin Rows /\ UNCHANGED <<pages, job>>
    BY <1>2, ScrapeTyped DEF _upsert_scraped_application
  <2>. QED
    BY <2>1, CommitDated
<1>3. CASE job'[v] = job[v] /\ UNCHANGED <<row, asof>> /\ Len(pages) <= Len(pages')
  <2>1. Reserved(job[v].prior) /\ job[v] # NoJob
    BY <1>3 DEF Reserved
  <2>2. asof[f] <= IF job[v].pc = "answered" THEN job[v].page ELSE Len(pages)
    BY <2>1 DEF PriorsAreDated
  <2>3. /\ Len(pages) \in Nat /\ Len(pages') \in Nat /\ asof[f] \in Nat
        /\ job[v].pc = "answered" => job[v].page \in Nat
    BY <2>1 DEF VerificationTypeOK, Jobs
  <2>. QED
    BY <1>3, <2>2, <2>3
<1>4. asof[f] <= Len(pages) /\ Len(pages) \in Nat /\ asof[f] \in Nat
  BY DEF VerificationTypeOK
<1>5. ASSUME NEW u \in Verifiers, NEW s \in Scopes, Snapshot(u, s)
      PROVE  asof'[f] <= IF job'[v].pc = "answered" THEN job'[v].page ELSE Len(pages')
  <2>1. CASE u = v
    <3>1. job'[v].pc = "fetching" /\ UNCHANGED <<asof, pages>>
      BY <1>5, <2>1 DEF Snapshot, VerificationTypeOK
    <3>. QED
      BY <1>4, <3>1
  <2>2. CASE u # v
    BY <1>3, <1>4, <1>5, <2>2 DEF Snapshot, VerificationTypeOK
  <2>. QED
    BY <2>1, <2>2
<1>6. ASSUME NEW u \in Verifiers, Fetch(u)
      PROVE  asof'[f] <= IF job'[v].pc = "answered" THEN job'[v].page ELSE Len(pages')
  <2>1. CASE u = v
    <3>1. job'[v].page = Len(pages) /\ UNCHANGED <<asof, pages>>
      BY <1>6, <2>1 DEF Fetch, VerificationTypeOK
    <3>. QED
      BY <1>4, <3>1
  <2>2. CASE u # v
    BY <1>3, <1>4, <1>6, <2>2 DEF Fetch, VerificationTypeOK
  <2>. QED
    BY <2>1, <2>2
<1>7. ASSUME NEW u \in Verifiers, GiveUp(u)
      PROVE  asof'[f] <= IF job'[v].pc = "answered" THEN job'[v].page ELSE Len(pages')
  BY <1>3, <1>4, <1>7 DEF GiveUp, VerificationTypeOK
<1>8. ASSUME NEW p \in Pages, Publish(p)
      PROVE  asof'[f] <= IF job'[v].pc = "answered" THEN job'[v].page ELSE Len(pages')
  <2>1. Len(pages) <= Len(pages')
    BY <1>8 DEF Publish, VerificationTypeOK
  <2>. QED
    BY <1>3, <1>8, <2>1 DEF Publish
<1>9. CASE ListMonth \/ SelectRow \/ UNCHANGED vars
  BY <1>3, <1>4, <1>9 DEF ListMonth, SelectRow, vars
<1>. QED
  BY <1>1, <1>2, <1>5, <1>6, <1>7, <1>8, <1>9 DEF Next

(* A verifier never replaces a fact by one of an older page, whoever wrote the row       *)
(* while it was fetching (the reserving UPDATE of verify_application_status).            *)
THEOREM VerifiedIsNotOlder ==
  ASSUME VerificationAssumption
  PROVE  Spec => NothingOlderIsVerified
<1>1. Init => VerificationInv
  BY VerificationInit
<1>2. VerificationInv /\ [Next]_vars => VerificationInv'
  BY VerificationStep
<1>3. ASSUME VerificationInv, [Next]_vars
      PROVE  [scrape' = scrape => \A f \in Facts : asof'[f] >= asof[f]]_vars
  <2>. SUFFICES ASSUME NEW f \in Facts, scrape' = scrape
                PROVE  asof'[f] >= asof[f]
    OBVIOUS
  <2>1. asof[f] \in Nat
    BY <1>3 DEF VerificationInv, VerificationTypeOK
  <2>2. CASE asof' = asof
    BY <2>1, <2>2
  <2>3. ASSUME NEW v \in Verifiers, verify_application_status(v) \/ _verify_date_field(v)
        PROVE  asof'[f] >= asof[f]
    <3>1. /\ job[v].pc = "answered" /\ Reserved(job[v].prior)
          /\ \E fs \in SUBSET Facts :
               asof' = [g \in Facts |-> IF g \in fs THEN job[v].page ELSE asof[g]]
      BY <1>3, <2>3, StatusCommitted, DateCommitted DEF VerificationInv
    <3>2. job[v] # NoJob
      BY <3>1 DEF NoJob
    <3>3. job[v].page \in Nat /\ asof[f] <= job[v].page
      BY <1>3, <3>1, <3>2 DEF VerificationInv, PriorsAreDated, VerificationTypeOK, Jobs
    <3>. QED
      BY <2>1, <3>1, <3>3
  <2>4. CASE _upsert_scraped_application
    <3>1. scrape.pc = "selected" /\ scrape' = NoScrape
      BY <2>4 DEF _upsert_scraped_application
    <3>. QED
      BY <3>1 DEF NoScrape
  <2>. QED
    BY <1>3, <2>2, <2>3, <2>4
       DEF Next, Publish, Snapshot, Fetch, GiveUp, ListMonth, SelectRow, vars
<1>. QED
  BY <1>1, <1>2, <1>3, PTL DEF Spec, NothingOlderIsVerified

-----------------------------------------------------------------------------
(* The history replays to the row. *)

(* Evidence of a formal outcome never leaves the row pending, whatever the row was.      *)
LEMMA OutcomeIsNotPending ==
  ASSUME NEW r \in Rows, NEW p \in [status : Statuses, decision : Decisions, date : Dates],
         StateOf(Stated(p)) \in TERMINAL_STATES
  PROVE  StateOf(Verified(r, p)) # "pending"
<1>. DEFINE s == Stated(p)
<1>1. s.status = "withdrawn" => s.decision # NONE
  BY DEF Stated, Decisions, NONE
<1>2. s.decision \in {"withdrawn", "granted", "refused"} \/ s.status = "withdrawn"
  BY DEF StateOf, _classify_planning_state, TERMINAL_STATES
<1>3. /\ Verified(r, p).status = IF s.status = NONE THEN r.status ELSE s.status
      /\ Verified(r, p).decision = IF s.decision = NONE THEN r.decision ELSE s.decision
  BY VerifiedRow
<1>. HIDE DEF s
<1>. QED
  BY <1>1, <1>2, <1>3 DEF StateOf, _classify_planning_state, NONE

(* What there is in a sequence of two, made of one and at most one.                      *)
LEMMA OneAndMaybeOne ==
  ASSUME NEW x, NEW y
  PROVE  /\ Len(<<x>> \o <<>>) = 1 /\ (<<x>> \o <<>>)[1] = x
         /\ Len(<<x>> \o <<y>>) = 2 /\ (<<x>> \o <<y>>)[1] = x /\ (<<x>> \o <<y>>)[2] = y
         /\ Len(<<y>>) = 1 /\ <<y>>[1] = y
OBVIOUS

(* A verification records a change of the planning state first, and no other one.        *)
LEMMA VerifiedEventsShape ==
  ASSUME NEW old, NEW new, old.date \in Dates, new.date \in Dates,
         StateOf(old) \in TERMINAL_STATES => StateOf(new) # "pending"
  PROVE  LET ev == VerifiedEvents(old, new)
         IN  /\ StateOf(old) = StateOf(new) => \A k \in 1..Len(ev) : ev[k].field # "state"
             /\ StateOf(old) # StateOf(new) =>
                  /\ Len(ev) >= 1
                  /\ ev[1] = [field |-> "state", old |-> StateOf(old), new |-> StateOf(new)]
                  /\ \A k \in 2..Len(ev) : ev[k].field # "state"
<1>. DEFINE d == IF new.decision = old.decision THEN DateEvent(old, new) ELSE <<>>
            e == [field |-> "state", old |-> StateOf(old), new |-> StateOf(new)]
            g == [field |-> "date", old |-> old.date, new |-> new.date]
<1>1. d = <<>> \/ d = <<g>>
  BY DEF DateEvent
<1>2. VerifiedEvents(old, new) = IF StateOf(old) = StateOf(new) THEN d ELSE <<e>> \o d
  <2>1. d \in Seq(Events)
    BY <1>1, EventsTyped
  <2>2. MaterialEvents(old, new) = IF StateOf(old) = StateOf(new) THEN <<>> ELSE <<e>>
    BY DEF MaterialEvents
  <2>3. VerifiedEvents(old, new) = MaterialEvents(old, new) \o d
    BY DEF VerifiedEvents
  <2>4. <<>> \o d = d
    BY <2>1
  <2>. HIDE DEF d, e
  <2>. QED
    BY <2>2, <2>3, <2>4
<1>3. e.field = "state" /\ g.field = "date"
  OBVIOUS
<1>. DEFINE ev == VerifiedEvents(old, new)
<1>. HIDE DEF d, e, g, ev
<1>4. CASE d = <<>>
  <2>1. CASE StateOf(old) = StateOf(new)
    BY <1>2, <1>4, <2>1 DEF ev
  <2>2. CASE StateOf(old) # StateOf(new)
    <3>1. ev = <<e>> \o <<>>
      BY <1>2, <1>4, <2>2 DEF ev
    <3>2. Len(ev) = 1 /\ ev[1] = e
      BY <3>1, OneAndMaybeOne
    <3>. QED
      BY <2>2, <3>2 DEF ev, e
  <2>. QED
    BY <2>1, <2>2
<1>5. CASE d = <<g>>
  <2>1. CASE StateOf(old) = StateOf(new)
    <3>1. ev = <<g>>
      BY <1>2, <1>5, <2>1 DEF ev
    <3>2. Len(ev) = 1 /\ ev[1] = g
      BY <3>1, OneAndMaybeOne
    <3>3. ASSUME NEW k \in 1..Len(ev)
          PROVE  ev[k].field # "state"
      BY <1>3, <3>2
    <3>. QED
      BY <2>1, <3>3 DEF ev
  <2>2. CASE StateOf(old) # StateOf(new)
    <3>1. ev = <<e>> \o <<g>>
      BY <1>2, <1>5, <2>2 DEF ev
    <3>2. Len(ev) = 2 /\ ev[1] = e /\ ev[2] = g
      BY <3>1, OneAndMaybeOne
    <3>3. ASSUME NEW k \in 2..Len(ev)
          PROVE  ev[k].field # "state"
      BY <1>3, <3>2
    <3>. QED
      BY <2>2, <3>2, <3>3 DEF ev, e
  <2>. QED
    BY <2>1, <2>2
<1>. QED
  BY <1>1, <1>4, <1>5

(* A state event that begins where the last one ended extends the history; other events  *)
(* leave it.                                                                             *)
LEMMA HistoryExtends ==
  ASSUME log \in Seq(Events), NEW ev \in Seq(Events), log' = log \o ev,
         HistoryReplays, ~ scraped,
         StateOf(row) = StateOf(row') => \A k \in 1..Len(ev) : ev[k].field # "state",
         StateOf(row) # StateOf(row') =>
           /\ Len(ev) >= 1
           /\ ev[1] = [field |-> "state", old |-> StateOf(row), new |-> StateOf(row')]
           /\ \A k \in 2..Len(ev) : ev[k].field # "state"
  PROVE  HistoryReplays'
<1>0. PICK n \in Nat : n = Len(log)
  OBVIOUS
<1>1. /\ Len(ev) \in Nat /\ DOMAIN log = 1..n /\ DOMAIN log' = 1..(n + Len(ev))
      /\ \A k \in 1..n : log'[k] = log[k]
      /\ \A k \in (n + 1)..(n + Len(ev)) : log'[k] = ev[k - n]
  BY <1>0
<1>2. StateEvents = {k \in 1..n : log[k].field = "state"}
      /\ StateEvents' = {k \in 1..(n + Len(ev)) : log'[k].field = "state"}
  BY <1>1 DEF StateEvents
<1>3. \A i \in {0} \cup StateEvents : EndsIn(i)' = EndsIn(i)
  BY <1>1, <1>2 DEF EndsIn
<1>4. CASE StateOf(row) = StateOf(row')
  <2>1. StateEvents' = StateEvents
    <3>1. ASSUME NEW k \in (n + 1)..(n + Len(ev))
          PROVE  log'[k].field # "state"
      BY <1>1, <1>4
    <3>. QED
      BY <1>1, <1>2, <3>1
  <2>2. \A k \in StateEvents : log'[k] = log[k]
    BY <1>1, <1>2
  <2>3. ASSUME NEW i \in {0} \cup StateEvents', NEW j \in StateEvents', i < j,
               \A k \in StateEvents' : k <= i \/ j <= k
        PROVE  log'[j].old = EndsIn(i)' /\ log'[j].new # EndsIn(i)'
    <3>1. log[j].old = EndsIn(i) /\ log[j].new # EndsIn(i)
      BY <2>1, <2>3 DEF HistoryReplays
    <3>2. EndsIn(i)' = EndsIn(i) /\ log'[j] = log[j]
      BY <1>3, <2>1, <2>2
    <3>. QED
      BY <3>1, <3>2
  <2>4. ASSUME NEW i \in {0} \cup StateEvents', \A k \in StateEvents' : k <= i
        PROVE  StateOf(row)' = EndsIn(i)'
    <3>1. StateOf(row) = EndsIn(i)
      BY <2>1, <2>4 DEF HistoryReplays
    <3>2. EndsIn(i)' = EndsIn(i)
      BY <1>3, <2>1
    <3>. QED
      BY <1>4, <3>1, <3>2
  <2>. QED
    BY <2>3, <2>4 DEF HistoryReplays
<1>5. CASE StateOf(row) # StateOf(row')
  <2>1. log'[n + 1] = [field |-> "state", old |-> StateOf(row), new |-> StateOf(row')]
    BY <1>1, <1>5
  <2>2. StateEvents' = StateEvents \cup {n + 1}
    <3>1. ASSUME NEW k \in (n + 2)..(n + Len(ev))
          PROVE  log'[k].field # "state"
      BY <1>1, <1>5
    <3>2. log'[n + 1].field = "state" /\ n + 1 \in 1..(n + Len(ev))
      BY <1>1, <1>5, <2>1
    <3>. QED
      BY <1>1, <1>2, <3>1, <3>2
  <2>3. \A k \in StateEvents : k \in Nat /\ k <= n /\ log'[k] = log[k]
    BY <1>1, <1>2
  <2>4. EndsIn(n + 1)' = StateOf(row')
    BY <1>1, <2>1 DEF EndsIn
  <2>5. ASSUME NEW i \in {0} \cup StateEvents', NEW j \in StateEvents', i < j,
               \A k \in StateEvents' : k <= i \/ j <= k
        PROVE  log'[j].old = EndsIn(i)' /\ log'[j].new # EndsIn(i)'
    <3>1. i \in {0} \cup StateEvents
      BY <1>1, <2>2, <2>3, <2>5
    <3>2. CASE j \in StateEvents
      <4>1. \A k \in StateEvents : k <= i \/ j <= k
        BY <2>2, <2>5
      <4>2. log[j].old = EndsIn(i) /\ log[j].new # EndsIn(i)
        BY <2>5, <3>1, <3>2, <4>1 DEF HistoryReplays
      <4>. QED
        BY <1>3, <2>3, <3>1, <3>2, <4>2
    <3>3. CASE j = n + 1
      <4>1. \A k \in StateEvents : k <= i
        BY <1>1, <2>2, <2>3, <2>5, <3>3
      <4>2. StateOf(row) = EndsIn(i)
        BY <3>1, <4>1 DEF HistoryReplays
      <4>3. EndsIn(i)' = EndsIn(i)
        BY <1>3, <3>1
      <4>4. log'[j].old = StateOf(row) /\ log'[j].new = StateOf(row')
        <5>1. log'[j] = [field |-> "state", old |-> StateOf(row), new |-> StateOf(row')]
          BY <2>1, <3>3
        <5>. QED
          BY <5>1
      <4>. QED
        BY <1>5, <4>2, <4>3, <4>4
    <3>. QED
      BY <2>2, <3>2, <3>3
  <2>6. ASSUME NEW i \in {0} \cup StateEvents', \A k \in StateEvents' : k <= i
        PROVE  StateOf(row)' = EndsIn(i)'
    <3>1. n + 1 <= i
      BY <2>2, <2>6
    <3>2. i = n + 1
      BY <1>1, <2>2, <2>3, <3>1
    <3>. QED
      BY <2>4, <3>2
  <2>. QED
    BY <2>5, <2>6 DEF HistoryReplays
<1>. QED
  BY <1>4, <1>5

LEMMA HistoryStep ==
  ASSUME VerificationAssumption, VerificationInv, HistoryReplays, [Next]_vars
  PROVE  HistoryReplays'
<1>. USE DEF VerificationInv
<1>. SUFFICES ASSUME ~ scraped'
              PROVE  HistoryReplays'
  BY DEF HistoryReplays
<1>1. CASE UNCHANGED <<row, log, scraped>>
  BY <1>1 DEF HistoryReplays, StateEvents, EndsIn, StateOf
<1>2. ASSUME NEW v \in Verifiers, verify_application_status(v) \/ _verify_date_field(v)
      PROVE  HistoryReplays'
  <2>1. UNCHANGED scraped /\ job[v].pc = "answered" /\ row = job[v].prior
    BY <1>2, StatusCommitted, DateCommitted DEF Reserved
  <2>2. job[v] \in Jobs /\ log \in Seq(Events) /\ row \in Rows
    BY <2>1 DEF VerificationTypeOK, NoJob
  <2>3. job[v].page \in 1..Len(pages)
    BY <2>1, <2>2 DEF Jobs
  <2>. DEFINE page == pages[job[v].page]
  <2>4. page \in [status : Statuses, decision : Decisions, date : Dates]
    BY <2>3, PagesStated
  <2>5. CASE verify_application_status(v)
    <3>1. PICK new \in {row, Verified(row, page)} :
            /\ row' = [new EXCEPT !.verified = clock + 1, !.seen = clock + 1]
            /\ log' = log \o VerifiedEvents(row, new)
            /\ new = row \/ CoupledAccepted(page, row)
      BY <2>1, <2>5, StatusCommitted DEF Outcomes
    <3>2. new \in Rows
      BY <2>2, <2>4, VerifiedRow
    <3>3. StateOf(row') = StateOf(new)
      BY <3>1, <3>2 DEF StateOf, Rows
    <3>4. StateOf(row) \in TERMINAL_STATES => StateOf(new) # "pending"
      <4>1. CASE new = row
        BY <4>1 DEF TERMINAL_STATES
      <4>2. CASE new = Verified(row, page) /\ CoupledAccepted(page, row)
        BY <2>2, <2>4, <4>2, OutcomeIsNotPending DEF CoupledAccepted
      <4>. QED
        BY <3>1, <4>1, <4>2
    <3>5. row.date \in Dates /\ new.date \in Dates
      BY <2>2, <3>2 DEF Rows
    <3>. HIDE DEF page
    <3>. DEFINE ev == VerifiedEvents(row, new)
    <3>6. ev \in Seq(Events)
      BY <3>5, EventsTyped
    <3>7. /\ StateOf(row) = StateOf(new) => \A k \in 1..Len(ev) : ev[k].field # "state"
          /\ StateOf(row) # StateOf(new) =>
               /\ Len(ev) >= 1
               /\ ev[1] = [field |-> "state", old |-> StateOf(row), new |-> StateOf(new)]
               /\ \A k \in 2..Len(ev) : ev[k].field # "state"
      BY <3>4, <3>5, VerifiedEventsShape
    <3>8. log' = log \o ev
      BY <3>1
    <3>9. ~ scraped
      BY <2>1
    <3>. HIDE DEF ev
    <3>. QED
      BY <2>2, <3>3, <3>6, <3>7, <3>8, <3>9, HistoryExtends
  <2>6. CASE _verify_date_field(v)
    <3>1. /\ row' = [row EXCEPT !.date = page.date, !.meta = clock + 1]
          /\ log' = log \o DateEvent(row, row')
      BY <2>1, <2>6, DateCommitted
    <3>2. StateOf(row') = StateOf(row) /\ row'.date \in Dates /\ row.date \in Dates
      BY <2>2, <2>4, <3>1 DEF StateOf, Rows
    <3>. DEFINE ev == DateEvent(row, row')
    <3>3. ev \in Seq(Events)
      BY <3>2, EventsTyped
    <3>4. \A k \in 1..Len(ev) : ev[k].field # "state"
      BY DEF DateEvent
    <3>5. log' = log \o ev /\ ~ scraped
      BY <2>1, <3>1
    <3>. HIDE DEF ev
    <3>. QED
      BY <2>2, <3>2, <3>3, <3>4, <3>5, HistoryExtends
  <2>. QED
    BY <1>2, <2>5, <2>6
<1>3. CASE _upsert_scraped_application
  BY <1>3 DEF _upsert_scraped_application
<1>. QED
  BY <1>1, <1>2, <1>3 DEF Next, Publish, Snapshot, Fetch, GiveUp, ListMonth, SelectRow, vars

(* While only verifiers write, the lifecycle events of the planning state replay to the   *)
(* row, none missing and none twice (ApplicationLifecycleEvent).                          *)
THEOREM EventsReplay ==
  ASSUME VerificationAssumption
  PROVE  Spec => []HistoryReplays
<1>1. Init => VerificationInv
  BY VerificationInit
<1>2. VerificationInv /\ [Next]_vars => VerificationInv'
  BY VerificationStep
<1>3. Init => HistoryReplays
  <2>. SUFFICES ASSUME Init
                PROVE  HistoryReplays
    OBVIOUS
  <2>1. log = <<>> /\ row.status = "awaiting" /\ row.decision = NONE
    BY DEF Init
  <2>2. StateEvents = {} /\ StateOf(row) = "pending"
    BY <2>1 DEF StateEvents, StateOf, _classify_planning_state, NONE
  <2>. QED
    BY <2>2 DEF HistoryReplays, EndsIn
<1>4. VerificationInv /\ HistoryReplays /\ [Next]_vars => HistoryReplays'
  BY HistoryStep
<1>. QED
  BY <1>1, <1>2, <1>3, <1>4, PTL DEF Spec
=============================================================================
