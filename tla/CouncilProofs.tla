----------------------------- MODULE CouncilProofs -----------------------------
(* What the status of a council's run says, and when its circuit opens, for any    *)
(* applications, citations, papers, filings, outages and crashes; what the exit    *)
(* code of the daily job says, for any councils, database errors and kills.        *)
EXTENDS CouncilRunProperties, DailyCouncils, FiniteSetTheorems, TLAPS

(* A call is answered in one of three ways, and the circuit stays one.                 *)
LEMMA CircuitKeeps ==
  ASSUME NEW b \in Circuits, NEW answer
  PROVE  /\ Record(b, answer) \in Circuits
         /\ record_failure(b, answer) \in Circuits
         /\ b.open => Record(b, answer).open /\ record_failure(b, answer).open
         /\ answer = "ok" => Record(b, answer).open = b.open
BY DEF Record, record_success, record_failure, is_portal_host_failure, Circuits

LEMMA AnswerAnswers == ASSUME NEW x PROVE Answer(x) \in Answers
BY DEF Answer, Answers

(* The histories of a call are numbers.                                                *)
LEMMA CalledKeeps ==
  ASSUME streak \in Nat, forgiven \in Nat, NEW answer \in Answers, Called(answer) \/ Unrecorded
  PROVE  streak' \in Nat /\ forgiven' \in Nat
BY DEF Called, Unrecorded, Answers

LEMMA DownloadAnswers == ASSUME NEW p PROVE Download(p) \in Answers
BY DEF Download, Answer, Answers

-----------------------------------------------------------------------------
(* The type invariant. *)

(* Steps of the portal leave the run alone.                                            *)
LEMMA PortalKeeps ==
  ASSUME CouncilTypeOK, Breaks \/ Heals \/ \E f \in Filings : Publish(f)
  PROVE  CouncilTypeOK'
<1>1. UNCHANGED <<unit, wait, held, disk, run, result, streak, forgiven>>
  BY DEF Breaks, Heals, Publish
<1>2. portal' \in [up : BOOLEAN, broken : SUBSET Breakable, listed : SUBSET Filings]
  <2>1. portal \in [up : BOOLEAN, broken : SUBSET Breakable, listed : SUBSET Filings]
    BY DEF CouncilTypeOK
  <2>2. CASE Breaks
    BY <2>1, <2>2 DEF Breaks
  <2>3. CASE Heals
    BY <2>1, <2>3 DEF Heals
  <2>4. CASE \E f \in Filings : Publish(f)
    BY <2>1, <2>4 DEF Publish
  <2>. QED
    BY <2>2, <2>3, <2>4
<1>3. RunTypeOK'
  BY <1>1 DEF CouncilTypeOK, RunTypeOK
<1>. QED
  BY <1>1, <1>2, <1>3 DEF CouncilTypeOK

(* A parent's size settles the status of an application that has none.                 *)
LEMMA SettledTyped ==
  ASSUME CouncilTypeOK, NEW a \in Apps, Cites[a] # 0
  PROVE  Settled(a) \in Statuses
<1>1. Cites[a] \in Parents
  BY DEF Parents
<1>2. Size[Cites[a]] \in {"enough", "few", "unstated"}
  BY <1>1, SizeAssumption, CitedAssumption
<1>. QED
  BY <1>2 DEF Settled, CouncilTypeOK, Statuses

(* A step that leaves what is in hand as it is, or takes a paper out of it, keeps the
   run's form.                                                                         *)
SameHand ==
  /\ run' \in Runs /\ run'.stage = run.stage /\ run'.left \subseteq run.left
  /\ run'.month = run.month /\ run'.links \subseteq run.links /\ run'.got = run.got
  /\ run'.app = run.app /\ run'.papers \subseteq run.papers

LEMMA SameHandTyped == ASSUME RunTypeOK, SameHand PROVE RunTypeOK'
BY DEF RunTypeOK, SameHand, PapersOf

LEMMA NoRunTyped ==
  /\ NoRun \in Runs /\ NoRun.stage = "idle" /\ NoRun.month = 0 /\ NoRun.app = 0
  /\ NoRun.links = {} /\ NoRun.got = {} /\ NoRun.papers = {} /\ NoRun.complete = FALSE
  /\ NoRun.breaker = ClosedCircuit /\ NoRun.health = NewHealth
BY SizeAssumption
   DEF NoRun, Runs, Stages, ClosedCircuit, Circuits, NewHealth, Healths

(* The first stage.                                                                    *)
LEMMA ScrapeTyped ==
  ASSUME CouncilTypeOK,
         \/ StartRun \/ EndMonth
         \/ \E m \in 1..Months : stage_scrape(m)
         \/ \E a \in Apps : scrape_month(a)
  PROVE  CouncilTypeOK'
<1>1. run \in Runs /\ run.breaker \in Circuits /\ RunTypeOK /\ held \in Rows
  BY DEF CouncilTypeOK, RunTypeOK, Runs
<1>2. CASE StartRun
  <2>1. /\ run' \in Runs /\ run'.stage = "scrape" /\ run'.left = 1..Months
        /\ run'.month = 0 /\ run'.links = {} /\ run'.got = {} /\ run'.papers = {}
    <3>1. NoRun.health \in Healths
      BY DEF NoRun, NewHealth, Healths
    <3>. QED
      BY <1>2, <3>1, NoRunTyped DEF StartRun, Runs, Stages, After, Healths
  <2>2. RunTypeOK'
    BY <2>1 DEF RunTypeOK
  <2>3. wait' \in [Anchors -> 0..Cooldown] /\ disk' \subseteq Papers
    BY <1>2, SizeAssumption DEF StartRun, CouncilTypeOK
  <2>. QED
    BY <1>2, <2>2, <2>3 DEF StartRun, CouncilTypeOK
<1>3. ASSUME NEW m \in 1..Months, stage_scrape(m) PROVE CouncilTypeOK'
  <2>1. record_failure(run.breaker, Answer(SCRAPE)) \in Circuits
    BY <1>1, CircuitKeeps
  <2>2. run.stage = "scrape" /\ run.month = 0 /\ m # 0
    <3>1. run.stage = "scrape" /\ run.month = 0
      BY <1>3 DEF stage_scrape
    <3>. QED
      BY <3>1, SizeAssumption
  <2>3. RunTypeOK'
    <3>1. CASE Answer(SCRAPE) = "ok"
      <4>1. /\ run' \in Runs /\ run'.stage = "scrape" /\ run'.left \subseteq run.left
            /\ run'.month = m /\ run'.got = run.got /\ run'.app = run.app
            /\ run'.papers = run.papers
        <5>1. run' = [run EXCEPT !.left = @ \ {m}, !.month = m,
                                !.links = {a \in Apps : MonthOf[a] = m}]
          BY <1>1, <1>3, <3>1 DEF stage_scrape, Runs
        <5>2. m \in 0..Months
          BY SizeAssumption
        <5>. QED
          BY <1>1, <2>2, <5>1, <5>2 DEF Runs
      <4>2. run.got = {}
        BY <1>1, <2>2 DEF RunTypeOK
      <4>. QED
        BY <1>1, <2>2, <4>1, <4>2 DEF RunTypeOK
    <3>2. CASE Answer(SCRAPE) # "ok"
      <4>1. run' = [run EXCEPT !.left = @ \ {m},
                              !.breaker = record_failure(@, Answer(SCRAPE))]
        BY <1>1, <1>3, <3>2 DEF stage_scrape, Runs
      <4>2. SameHand
        BY <1>1, <2>1, <4>1 DEF SameHand, Runs
      <4>. QED
        BY <1>1, <4>2, SameHandTyped
    <3>. QED
      BY <3>1, <3>2
  <2>4. streak' \in Nat /\ forgiven' \in Nat
    <3>1. Called(Answer(SCRAPE)) \/ Unrecorded
      BY <1>3 DEF stage_scrape
    <3>. QED
      BY <3>1, AnswerAnswers, CalledKeeps DEF CouncilTypeOK
  <2>. QED
    BY <1>3, <2>3, <2>4 DEF stage_scrape, CouncilTypeOK
<1>4. ASSUME NEW a \in Apps, scrape_month(a) PROVE CouncilTypeOK'
  <2>1. run.month # 0
    BY <1>1, <1>4 DEF scrape_month, RunTypeOK
  <2>2. /\ run' \in Runs /\ run'.stage = run.stage /\ run'.left = run.left
        /\ run'.month = run.month /\ run'.app = run.app /\ run'.papers = run.papers
        /\ run'.got \subseteq run.got \cup {a}
    <3>1. run.links \subseteq Apps /\ run.got \subseteq Apps \cup Papers
      BY <1>1 DEF Runs
    <3>2. \/ run' = [run EXCEPT !.links = @ \ {a}, !.got = @ \cup {a}]
          \/ run' = [run EXCEPT !.links = @ \ {a}]
      BY <1>4 DEF scrape_month
    <3>3. CASE run' = [run EXCEPT !.links = @ \ {a}, !.got = @ \cup {a}]
      BY <1>1, <3>1, <3>3 DEF Runs
    <3>4. CASE run' = [run EXCEPT !.links = @ \ {a}]
      BY <1>1, <3>1, <3>4 DEF Runs
    <3>. QED
      BY <3>2, <3>3, <3>4
  <2>3. RunTypeOK'
    <3>1. run.got \subseteq Apps /\ run.stage = "scrape"
      BY <1>1, <2>1 DEF RunTypeOK
    <3>. QED
      BY <1>1, <2>1, <2>2, <3>1 DEF RunTypeOK
  <2>4. streak' \in Nat /\ forgiven' \in Nat
    <3>1. Unrecorded \/ UNCHANGED <<streak, forgiven>>
      BY <1>4 DEF scrape_month
    <3>. QED
      BY <3>1 DEF Unrecorded, CouncilTypeOK
  <2>. QED
    BY <1>4, <2>3, <2>4 DEF scrape_month, CouncilTypeOK
<1>5. CASE EndMonth
  <2>1. run.stage = "scrape" /\ run.got \subseteq Apps
    BY <1>1, <1>5 DEF EndMonth, RunTypeOK
  <2>2. held' \in Rows
    BY <1>1, <1>5, <2>1 DEF EndMonth, Rows
  <2>3. /\ run' \in Runs /\ run'.stage = run.stage /\ run'.left = run.left
        /\ run'.month = 0 /\ run'.links = {} /\ run'.got = {}
        /\ run'.app = run.app /\ run'.papers = run.papers
    <3>1. run.health \in Healths
      BY <1>1 DEF Runs
    <3>2. [run.health EXCEPT !.completed = @ \/ run.month = 1] \in Healths
      BY <3>1 DEF Healths
    <3>3. 0 \in 0..Months
      BY SizeAssumption
    <3>. QED
      BY <1>1, <1>5, <3>2, <3>3 DEF EndMonth, Runs
  <2>4. RunTypeOK'
    BY <1>1, <2>3 DEF RunTypeOK
  <2>. QED
    BY <1>5, <2>2, <2>4 DEF EndMonth, CouncilTypeOK
<1>. QED
  BY <1>2, <1>3, <1>4, <1>5

(* Parents and what they settle.                                                       *)
LEMMA ParentsTyped ==
  ASSUME CouncilTypeOK, NEW a \in Apps, UseStoredParent(a) \/ FetchParent(a)
  PROVE  CouncilTypeOK'
<1>1. run \in Runs /\ RunTypeOK /\ held \in Rows /\ unit \in [Apps -> Statuses]
  BY DEF CouncilTypeOK, RunTypeOK
<1>2. Settled(a) \in Statuses /\ Cites[a] \in Parents
  <2>1. Cites[a] # 0
    BY <1>1 DEF UseStoredParent, FetchParent, RunTypeOK
  <2>. QED
    BY <2>1, SettledTyped DEF Parents
<1>3. CASE UseStoredParent(a)
  <2>1. SameHand
    BY <1>1, <1>3 DEF UseStoredParent, SameHand, Runs
  <2>. QED
    BY <1>1, <1>2, <1>3, <2>1, SameHandTyped DEF UseStoredParent, CouncilTypeOK
<1>4. CASE FetchParent(a)
  <2>. DEFINE answer == Answer(Cites[a])
              tried == [run EXCEPT !.left = @ \ {a}, !.breaker = Record(@, answer)]
  <2>1. /\ tried \in Runs /\ tried.stage = run.stage /\ tried.left \subseteq run.left
        /\ tried.month = run.month /\ tried.links = run.links /\ tried.got = run.got
        /\ tried.app = run.app /\ tried.papers = run.papers
    BY <1>1, CircuitKeeps DEF Runs
  <2>2. run' = [tried EXCEPT !.health.parents = @ \/ answer # "ok"]
    BY <1>4 DEF FetchParent
  <2>. HIDE DEF tried
  <2>3. RunTypeOK'
    BY <1>1, <2>1, <2>2, SameHandTyped DEF SameHand, Runs, Healths
  <2>4. streak' \in Nat /\ forgiven' \in Nat
    <3>1. Called(answer)
      BY <1>4 DEF FetchParent
    <3>. QED
      BY <3>1, AnswerAnswers, CalledKeeps DEF CouncilTypeOK
  <2>5. held' \in Rows
    BY <1>1, <1>2, <1>4 DEF FetchParent, Rows
  <2>6. unit' \in [Apps -> Statuses]
    BY <1>1, <1>2, <1>4 DEF FetchParent
  <2>. QED
    BY <1>4, <2>3, <2>4, <2>5, <2>6 DEF FetchParent, CouncilTypeOK
<1>. QED
  BY <1>3, <1>4

(* Searches and the filings they list.                                                 *)
LEMMA RelatedTyped ==
  ASSUME CouncilTypeOK,
         \/ \E a \in Anchors : SearchRelated(a)
         \/ \E f \in Filings : FetchFiling(f)
         \/ EndSearch
  PROVE  CouncilTypeOK'
<1>1. run \in Runs /\ run.breaker \in Circuits /\ RunTypeOK /\ held \in Rows
  BY DEF CouncilTypeOK, RunTypeOK, Runs
<1>2. ASSUME NEW a \in Anchors, SearchRelated(a) PROVE CouncilTypeOK'
  <2>. DEFINE answer == Answer(a)
              rows == {f \in portal.listed : Names[f] = a} \ held.filings
              tried == [run EXCEPT !.left = @ \ {a}, !.breaker = Record(@, answer)]
  <2>1. /\ tried \in Runs /\ tried.stage = run.stage /\ tried.left \subseteq run.left
        /\ tried.month = run.month /\ tried.links = run.links /\ tried.got = run.got
        /\ tried.app = run.app /\ tried.papers = run.papers
    BY <1>1, CircuitKeeps DEF Runs
  <2>2. run' = tried \/ run' = [tried EXCEPT !.anchor = a, !.rows = rows]
    BY <1>2 DEF SearchRelated
  <2>3. rows \subseteq Filings
    BY DEF CouncilTypeOK
  <2>. HIDE DEF tried, rows
  <2>4. SameHand
    BY <2>1, <2>2, <2>3 DEF SameHand, Runs
  <2>5. wait' \in [Anchors -> 0..Cooldown] /\ streak' \in Nat /\ forgiven' \in Nat
    <3>1. /\ wait' = wait \/ wait' = [wait EXCEPT ![a] = Cooldown]
          /\ Called(Answer(a))
      BY <1>2 DEF SearchRelated
    <3>2. streak' \in Nat /\ forgiven' \in Nat
      BY <3>1, AnswerAnswers, CalledKeeps DEF CouncilTypeOK
    <3>. QED
      BY <3>1, <3>2, SizeAssumption DEF CouncilTypeOK
  <2>6. UNCHANGED <<portal, unit, held, disk, result>>
    BY <1>2 DEF SearchRelated
  <2>. QED
    BY <1>1, <2>4, <2>5, <2>6, SameHandTyped DEF CouncilTypeOK
<1>3. ASSUME NEW f \in Filings, FetchFiling(f) PROVE CouncilTypeOK'
  <2>1. Record(run.breaker, Answer(f)) \in Circuits
    BY <1>1, CircuitKeeps
  <2>2. SameHand
    BY <1>1, <1>3, <2>1 DEF FetchFiling, SameHand, Runs
  <2>3. streak' \in Nat /\ forgiven' \in Nat
    <3>1. Called(Answer(f))
      BY <1>3 DEF FetchFiling
    <3>. QED
      BY <3>1, AnswerAnswers, CalledKeeps DEF CouncilTypeOK
  <2>4. held' \in Rows
    BY <1>1, <1>3 DEF FetchFiling, Rows
  <2>. QED
    BY <1>1, <1>3, <2>2, <2>3, <2>4, SameHandTyped DEF FetchFiling, CouncilTypeOK
<1>4. CASE EndSearch
  <2>1. SameHand
    BY <1>1, <1>4 DEF EndSearch, SameHand, Runs
  <2>. QED
    BY <1>1, <1>4, <2>1, SameHandTyped DEF EndSearch, CouncilTypeOK
<1>. QED
  BY <1>2, <1>3, <1>4

(* Units are confirmed from the papers of one application at a time.                   *)
LEMMA UnitsTyped ==
  ASSUME CouncilTypeOK,
         \/ \E a \in Apps : ListPapers(a)
         \/ \E p \in Papers : ReadPaper(p)
         \/ FindsNoCount
  PROVE  CouncilTypeOK'
<1>1. /\ run \in Runs /\ run.breaker \in Circuits /\ RunTypeOK
      /\ run.stage = "units" => run.got = {} /\ run.month = 0 /\ run.links = {}
  BY DEF CouncilTypeOK, RunTypeOK, Runs
<1>2. ASSUME NEW a \in Apps, ListPapers(a) PROVE CouncilTypeOK'
  <2>. DEFINE answer == Answer(a)
              tried == [run EXCEPT !.left = @ \ {a}, !.breaker = Record(@, answer)]
  <2>1. /\ tried \in Runs /\ tried.stage = run.stage /\ tried.left \subseteq run.left
        /\ tried.month = run.month /\ tried.links = run.links /\ tried.got = run.got
        /\ tried.app = run.app /\ tried.papers = run.papers
    BY <1>1, CircuitKeeps DEF Runs
  <2>2. /\ run' = tried \/ run' = [tried EXCEPT !.app = a, !.papers = PapersOf(a)]
        /\ run.stage = "units"
    BY <1>2 DEF ListPapers
  <2>. HIDE DEF tried
  <2>3. RunTypeOK'
    <3>1. CASE run' = tried
      BY <1>1, <2>1, <3>1, SameHandTyped DEF SameHand
    <3>2. CASE run' = [tried EXCEPT !.app = a, !.papers = PapersOf(a)]
      <4>1. /\ run' \in Runs /\ run'.stage = "units" /\ run'.month = 0
            /\ run'.links = {} /\ run'.got = {} /\ run'.app = a /\ run'.papers = PapersOf(a)
        BY <1>1, <2>1, <2>2, <3>2 DEF Runs, PapersOf
      <4>. QED
        BY <4>1 DEF RunTypeOK
    <3>. QED
      BY <2>2, <3>1, <3>2
  <2>4. streak' \in Nat /\ forgiven' \in Nat
    <3>1. Called(answer)
      BY <1>2 DEF ListPapers
    <3>. QED
      BY <3>1, AnswerAnswers, CalledKeeps DEF CouncilTypeOK
  <2>5. UNCHANGED <<portal, unit, wait, held, disk, result>>
    BY <1>2 DEF ListPapers
  <2>. QED
    BY <2>3, <2>4, <2>5 DEF CouncilTypeOK
<1>3. ASSUME NEW p \in Papers, ReadPaper(p) PROVE CouncilTypeOK'
  <2>. DEFINE answer == Download(p)
              tried == [run EXCEPT !.papers = @ \ {p}, !.breaker = Record(@, answer)]
  <2>1. Record(run.breaker, answer) \in Circuits
    BY <1>1, CircuitKeeps
  <2>2. /\ tried \in Runs /\ tried.stage = run.stage /\ tried.left = run.left
        /\ tried.month = run.month /\ tried.links = run.links /\ tried.got = run.got
        /\ tried.app = run.app /\ tried.papers \subseteq run.papers
    BY <1>1, <2>1 DEF Runs
  <2>3. /\ run' = tried \/ run' = [tried EXCEPT !.app = 0, !.papers = {}]
        /\ unit' = unit \/ unit' = [unit EXCEPT ![run.app] = "confirmed_qualifying"]
        /\ run.stage = "units"
    BY <1>3 DEF ReadPaper, Counted, Qualified
  <2>. HIDE DEF tried
  <2>4. RunTypeOK'
    <3>1. CASE run' = tried
      BY <1>1, <2>2, <3>1, SameHandTyped DEF SameHand
    <3>2. CASE run' = [tried EXCEPT !.app = 0, !.papers = {}]
      <4>1. /\ run' \in Runs /\ run'.stage = "units" /\ run'.month = 0
            /\ run'.links = {} /\ run'.got = {} /\ run'.papers = {}
        BY <1>1, <2>2, <2>3, <3>2 DEF Runs
      <4>. QED
        BY <4>1 DEF RunTypeOK
    <3>. QED
      BY <2>3, <3>1, <3>2
  <2>5. unit' \in [Apps -> Statuses]
    BY <2>3 DEF CouncilTypeOK, Statuses
  <2>6. streak' \in Nat /\ forgiven' \in Nat
    <3>1. Called(answer)
      BY <1>3 DEF ReadPaper
    <3>. QED
      BY <3>1, DownloadAnswers, CalledKeeps DEF CouncilTypeOK
  <2>7. UNCHANGED <<portal, wait, held, result>> /\ disk' \subseteq Papers
    BY <1>3 DEF ReadPaper, Kept, CouncilTypeOK
  <2>. QED
    BY <2>4, <2>5, <2>6, <2>7 DEF CouncilTypeOK
<1>4. CASE FindsNoCount
  <2>1. /\ run' \in Runs /\ run'.stage = "units" /\ run'.month = 0
        /\ run'.links = {} /\ run'.got = {} /\ run'.papers = {}
    BY <1>1, <1>4 DEF FindsNoCount, Runs
  <2>2. RunTypeOK'
    BY <2>1 DEF RunTypeOK
  <2>3. unit' \in [Apps -> Statuses]
    BY <1>4 DEF FindsNoCount, CouncilTypeOK, Statuses
  <2>. QED
    BY <1>4, <2>2, <2>3 DEF FindsNoCount, CouncilTypeOK
<1>. QED
  BY <1>2, <1>3, <1>4

(* Documents: a listing, its downloads, and the commit that stores them.               *)
LEMMA DocumentsTyped ==
  ASSUME CouncilTypeOK,
         \/ \E a \in Apps : stage_documents(a)
         \/ \E p \in Papers : Acquire(p)
         \/ EndDocuments
  PROVE  CouncilTypeOK'
<1>1. /\ run \in Runs /\ run.breaker \in Circuits /\ RunTypeOK /\ held \in Rows
      /\ run.app \in Apps \cup {0} /\ run.papers \subseteq PapersOf(run.app)
      /\ run.stage = "documents" =>
           run.month = 0 /\ run.links = {} /\ run.got \subseteq PapersOf(run.app)
  BY DEF CouncilTypeOK, RunTypeOK, Runs
<1>2. ASSUME NEW a \in Apps, stage_documents(a) PROVE CouncilTypeOK'
  <2>. DEFINE answer == Answer(a)
              tried == [run EXCEPT !.left = @ \ {a}, !.breaker = Record(@, answer)]
  <2>1. /\ tried \in Runs /\ tried.stage = run.stage /\ tried.left \subseteq run.left
        /\ tried.month = run.month /\ tried.links = run.links /\ tried.got = run.got
        /\ tried.app = run.app /\ tried.papers = run.papers
    BY <1>1, CircuitKeeps DEF Runs
  <2>2. /\ \/ run' = [tried EXCEPT !.health.documents = TRUE]
           \/ run' = [tried EXCEPT !.app = a, !.papers = PapersOf(a) \ held.papers,
                                   !.complete = TRUE]
        /\ run.stage = "documents" /\ run.app = 0
    BY <1>2 DEF stage_documents
  <2>. HIDE DEF tried
  <2>3. RunTypeOK'
    <3>1. CASE run' = [tried EXCEPT !.health.documents = TRUE]
      BY <1>1, <2>1, <3>1, SameHandTyped DEF SameHand, Runs, Healths
    <3>2. CASE run' = [tried EXCEPT !.app = a, !.papers = PapersOf(a) \ held.papers,
                                   !.complete = TRUE]
      <4>1. /\ run' \in Runs /\ run'.stage = "documents" /\ run'.month = 0
            /\ run'.links = {} /\ run'.got = run.got /\ run'.app = a
            /\ run'.papers \subseteq PapersOf(a)
        BY <1>1, <2>1, <2>2, <3>2 DEF Runs, PapersOf
      <4>2. run.got = {}
        BY <1>1, <2>2, PaperAssumption DEF PapersOf
      <4>. QED
        BY <4>1, <4>2 DEF RunTypeOK
    <3>. QED
      BY <2>2, <3>1, <3>2
  <2>4. streak' \in Nat /\ forgiven' \in Nat
    <3>1. Called(answer)
      BY <1>2 DEF stage_documents
    <3>. QED
      BY <3>1, AnswerAnswers, CalledKeeps DEF CouncilTypeOK
  <2>5. UNCHANGED <<portal, unit, wait, held, disk, result>>
    BY <1>2 DEF stage_documents
  <2>. QED
    BY <2>3, <2>4, <2>5 DEF CouncilTypeOK
<1>3. ASSUME NEW p \in Papers, Acquire(p) PROVE CouncilTypeOK'
  <2>1. Record(run.breaker, Download(p)) \in Circuits
    BY <1>1, CircuitKeeps
  <2>2. /\ run' \in Runs /\ run'.stage = "documents" /\ run'.month = 0 /\ run'.links = {}
        /\ run'.app = run.app /\ run'.papers \subseteq run.papers
        /\ run'.got \subseteq run.got \cup {p} /\ p \in run.papers
    BY <1>1, <1>3, <2>1 DEF Acquire, Runs
  <2>3. RunTypeOK'
    BY <1>1, <1>3, <2>2 DEF Acquire, RunTypeOK
  <2>4. streak' \in Nat /\ forgiven' \in Nat
    <3>1. Called(Download(p))
      BY <1>3 DEF Acquire
    <3>. QED
      BY <3>1, DownloadAnswers, CalledKeeps DEF CouncilTypeOK
  <2>5. UNCHANGED <<portal, unit, wait, held, result>> /\ disk' \subseteq Papers
    BY <1>3 DEF Acquire, Kept, CouncilTypeOK
  <2>. QED
    BY <2>3, <2>4, <2>5 DEF CouncilTypeOK
<1>4. CASE EndDocuments
  <2>1. /\ run' \in Runs /\ run'.stage = "documents" /\ run'.month = 0 /\ run'.links = {}
        /\ run'.got = {} /\ run'.papers = {}
    BY <1>1, <1>4 DEF EndDocuments, Runs
  <2>2. RunTypeOK'
    BY <2>1 DEF RunTypeOK
  <2>3. run.got \subseteq Papers /\ run.app \in Apps
    BY <1>1, <1>4 DEF EndDocuments, PapersOf
  <2>4. held' \in Rows
    BY <1>1, <1>4, <2>3 DEF EndDocuments, Rows
  <2>. QED
    BY <1>4, <2>2, <2>4 DEF EndDocuments, CouncilTypeOK
<1>. QED
  BY <1>2, <1>3, <1>4

LEMMA RefreshTyped ==
  ASSUME CouncilTypeOK, NEW a \in Apps, stage_evidence_refresh(a)
  PROVE  CouncilTypeOK'
<1>1. run \in Runs /\ RunTypeOK /\ held \in Rows
  BY DEF CouncilTypeOK, RunTypeOK
<1>. DEFINE answer == Answer(a)
            tried == [run EXCEPT !.left = @ \ {a}, !.breaker = Record(@, answer)]
<1>2. /\ tried \in Runs /\ tried.stage = run.stage /\ tried.left \subseteq run.left
      /\ tried.month = run.month /\ tried.links = run.links /\ tried.got = run.got
      /\ tried.app = run.app /\ tried.papers = run.papers
  BY <1>1, CircuitKeeps DEF Runs
<1>3. run' = [tried EXCEPT !.health.refresh = @ \/ answer # "ok"] /\ Called(answer)
  BY DEF stage_evidence_refresh
<1>. HIDE DEF tried
<1>4. RunTypeOK'
  BY <1>1, <1>2, <1>3, SameHandTyped DEF SameHand, Runs, Healths
<1>5. held' \in Rows
  BY <1>1 DEF stage_evidence_refresh, Rows
<1>6. streak' \in Nat /\ forgiven' \in Nat
  BY <1>3, AnswerAnswers, CalledKeeps DEF CouncilTypeOK
<1>. QED
  BY <1>4, <1>5, <1>6 DEF stage_evidence_refresh, CouncilTypeOK

(* A stage gives way to the next with that one's work, and the run ends.               *)
LEMMA StagesTyped ==
  ASSUME CouncilTypeOK, NextStage \/ EndRun \/ Killed PROVE CouncilTypeOK'
<1>1. CASE NextStage
  <2>1. run.stage \in DOMAIN After /\ After[run.stage] \in Stages \ {"scrape", "idle"}
    BY <1>1 DEF NextStage, After, Stages
  <2>2. held.applications \subseteq Apps
    BY DEF CouncilTypeOK, Rows
  <2>3. WorkOf(After[run.stage]) \subseteq Apps \cup Anchors
    BY <2>1, <2>2, CitedAssumption DEF After, WorkOf, SearchedAgain, UNIT_GATE_PASSED
  <2>4. After[run.stage] = "parents" =>
          WorkOf(After[run.stage]) \subseteq {a \in Apps : Cites[a] # 0}
    BY <2>2 DEF WorkOf
  <2>5. /\ run \in Runs /\ run.month = 0 /\ run.links = {} /\ run.app = 0
        /\ run.got = {} /\ run.papers = {}
    <3>1. run.app = 0 /\ run.month = 0 /\ PapersOf(0) = {}
      BY <1>1, PaperAssumption DEF NextStage, PapersOf
    <3>. QED
      BY <3>1 DEF CouncilTypeOK, RunTypeOK
  <2>6. /\ run' \in Runs /\ run'.stage = After[run.stage]
        /\ run'.left = WorkOf(After[run.stage])
        /\ run'.month = 0 /\ run'.links = {} /\ run'.app = 0
        /\ run'.got = {} /\ run'.papers = {}
    BY <1>1, <2>1, <2>3, <2>5 DEF NextStage, Runs
  <2>7. RunTypeOK'
    BY <2>1, <2>4, <2>6 DEF RunTypeOK
  <2>. QED
    BY <1>1, <2>7 DEF NextStage, CouncilTypeOK
<1>2. CASE EndRun \/ Killed
  <2>1. run' = NoRun /\ result' \in {"success", "partial", "failed"}
    BY <1>2 DEF EndRun, Killed, classify
  <2>2. RunTypeOK'
    BY <2>1, NoRunTyped DEF RunTypeOK
  <2>. QED
    BY <1>2, <2>1, <2>2 DEF EndRun, Killed, CouncilTypeOK
<1>. QED
  BY <1>1, <1>2

(* Every step keeps the type.                                                          *)
LEMMA CouncilStepTyped ==
  ASSUME CouncilTypeOK, [Next]_vars PROVE CouncilTypeOK'
<1>1. CASE UNCHANGED vars
  BY <1>1 DEF vars, CouncilTypeOK, RunTypeOK
<1>2. CASE Next
  BY <1>2, PortalKeeps, ScrapeTyped, ParentsTyped, RelatedTyped, UnitsTyped, DocumentsTyped,
     RefreshTyped, StagesTyped DEF Next, RunStep
<1>. QED
  BY <1>1, <1>2

LEMMA CouncilInitTyped == ASSUME Init PROVE CouncilTypeOK
<1>1. RunTypeOK
  BY NoRunTyped DEF Init, RunTypeOK
<1>2. wait \in [Anchors -> 0..Cooldown]
  BY SizeAssumption DEF Init
<1>. QED
  BY <1>1, <1>2 DEF Init, CouncilTypeOK, NoRows, Rows, Statuses

(* The run, what is stored and what the portal lists keep their shapes: every stage
   works on its own kind of item, and papers belong to the application in hand.        *)
THEOREM CouncilTyped == Spec => []CouncilTypeOK
<1>. QED
  BY CouncilInitTyped, CouncilStepTyped, PTL DEF Spec

-----------------------------------------------------------------------------
(* A run that reports success. *)

(* What a step of the run in hand does to its health, its circuit and its misses: a
   flag once set stays set, an open circuit stays open, and a new miss shows.          *)
Shows ==
  /\ run'.stage = run.stage /\ run.stage # "idle" /\ result' = result
  /\ run'.health.attempted = run.health.attempted
  /\ run.health.parents => run'.health.parents
  /\ run.health.documents => run'.health.documents
  /\ run.health.refresh => run'.health.refresh
  /\ run.breaker.open => run'.breaker.open
  /\ missed' # missed => \/ run'.health.parents \/ run'.health.documents
                        \/ run'.health.refresh \/ run'.breaker.open

(* Such are all steps but those of the scrape, of the stages and of the portal.        *)
WorkStep ==
  \/ \E a \in Apps : \/ UseStoredParent(a) \/ FetchParent(a) \/ ListPapers(a)
                     \/ stage_documents(a) \/ stage_evidence_refresh(a)
  \/ \E a \in Anchors : SearchRelated(a)
  \/ \E f \in Filings : FetchFiling(f)
  \/ \E p \in Papers : ReadPaper(p) \/ Acquire(p)
  \/ EndSearch \/ FindsNoCount \/ EndDocuments

(* Searches are of their own stage: nothing but the scrape works in the scrape.        *)
LEMMA WorkShows ==
  ASSUME CouncilTypeOK, WorkStep,
         run.stage # "idle" /\ run.stage # "scrape"
  PROVE  Shows /\ run'.health.completed = run.health.completed
<1>1. /\ run \in Runs /\ run.health \in Healths /\ run.breaker \in Circuits
  BY DEF CouncilTypeOK, RunTypeOK, Runs
<1>2. \A answer : run.breaker.open => Record(run.breaker, answer).open
  BY <1>1, CircuitKeeps
<1>. DEFINE Good == Shows /\ run'.health.completed = run.health.completed
<1>3. ASSUME NEW a \in Apps, UseStoredParent(a) PROVE Good
  BY <1>1, <1>3 DEF UseStoredParent, Shows, Runs
<1>4. ASSUME NEW a \in Apps, FetchParent(a) PROVE Good
  <2>1. /\ run'.stage = run.stage /\ result' = result
        /\ run'.breaker = Record(run.breaker, Answer(Cites[a]))
        /\ run'.health = [run.health EXCEPT !.parents = @ \/ Answer(Cites[a]) # "ok"]
        /\ missed' # missed => Answer(Cites[a]) # "ok"
    <3>1. /\ run' = [[run EXCEPT !.left = @ \ {a}, !.breaker = Record(@, Answer(Cites[a]))]
                       EXCEPT !.health.parents = @ \/ Answer(Cites[a]) # "ok"]
          /\ missed' # missed => Answer(Cites[a]) # "ok"
          /\ result' = result
      BY <1>4 DEF FetchParent
    <3>. QED
      BY <1>1, <3>1 DEF Runs
  <2>2. /\ run'.health.attempted = run.health.attempted
        /\ run'.health.completed = run.health.completed
        /\ run'.health.documents = run.health.documents
        /\ run'.health.refresh = run.health.refresh
        /\ run.health.parents \/ Answer(Cites[a]) # "ok" => run'.health.parents
    BY <1>1, <2>1 DEF Healths
  <2>3. run.breaker.open => run'.breaker.open
    BY <1>2, <2>1
  <2>. QED
    BY <2>1, <2>2, <2>3 DEF Shows
<1>5. ASSUME NEW a \in Apps, ListPapers(a) PROVE Good
  <2>1. /\ run'.stage = run.stage /\ run.stage = "units"
        /\ run'.health = run.health
        /\ run'.breaker = Record(run.breaker, Answer(a))
        /\ UNCHANGED <<result, missed>>
    BY <1>1, <1>5 DEF ListPapers, Runs
  <2>. QED
    BY <1>1, <1>2, <2>1 DEF Shows
<1>6. ASSUME NEW a \in Apps, stage_documents(a) PROVE Good
  <2>1. /\ run'.stage = run.stage /\ result' = result
        /\ run'.breaker = Record(run.breaker, Answer(a))
        /\ \/ run'.health = [run.health EXCEPT !.documents = TRUE]
           \/ run'.health = run.health /\ missed' = missed
    BY <1>1, <1>6 DEF stage_documents, Runs
  <2>. QED
    BY <1>1, <1>2, <2>1 DEF Shows, Healths
<1>7. ASSUME NEW a \in Apps, stage_evidence_refresh(a) PROVE Good
  <2>1. /\ run'.stage = run.stage /\ result' = result
        /\ run'.breaker = Record(run.breaker, Answer(a))
        /\ run'.health = [run.health EXCEPT !.refresh = @ \/ Answer(a) # "ok"]
        /\ missed' # missed => Answer(a) # "ok"
    BY <1>1, <1>7 DEF stage_evidence_refresh, Runs
  <2>2. /\ run'.health.attempted = run.health.attempted
        /\ run'.health.completed = run.health.completed
        /\ run'.health.parents = run.health.parents
        /\ run'.health.documents = run.health.documents
        /\ run'.health.refresh = (run.health.refresh \/ Answer(a) # "ok")
    BY <1>1, <2>1 DEF Healths
  <2>3. run.breaker.open => run'.breaker.open
    BY <1>2, <2>1
  <2>. QED
    BY <1>1, <2>1, <2>2, <2>3 DEF Shows
<1>8. ASSUME NEW a \in Anchors, SearchRelated(a) PROVE Good
  <2>1. /\ run'.stage = run.stage /\ run'.health = run.health
        /\ run'.breaker = Record(run.breaker, Answer(a))
        /\ UNCHANGED <<result, missed>>
    BY <1>1, <1>8 DEF SearchRelated, Runs
  <2>. QED
    BY <1>1, <1>2, <2>1 DEF Shows
<1>9. ASSUME NEW f \in Filings, FetchFiling(f) PROVE Good
  <2>1. /\ run'.stage = run.stage /\ run'.health = run.health
        /\ run'.breaker = Record(run.breaker, Answer(f))
        /\ UNCHANGED <<result, missed>>
    BY <1>1, <1>9 DEF FetchFiling, Runs
  <2>. QED
    BY <1>1, <1>2, <2>1 DEF Shows
<1>10. ASSUME NEW p \in Papers, ReadPaper(p) PROVE Good
  <2>1. /\ run'.stage = run.stage /\ run'.health = run.health
        /\ run'.breaker = Record(run.breaker, Download(p))
        /\ UNCHANGED <<result, missed>>
    BY <1>1, <1>10 DEF ReadPaper, Counted, Runs
  <2>. QED
    BY <1>1, <1>2, <2>1 DEF Shows
<1>11. ASSUME NEW p \in Papers, Acquire(p) PROVE Good
  BY <1>1, <1>2, <1>11 DEF Acquire, Shows, Runs
<1>12. CASE EndSearch \/ FindsNoCount
  BY <1>1, <1>12 DEF EndSearch, FindsNoCount, Shows, Runs
<1>13. CASE EndDocuments
  BY <1>1, <1>13 DEF EndDocuments, Continues, Shows, Runs
<1>. QED
  BY <1>3, <1>4, <1>5, <1>6, <1>7, <1>8, <1>9, <1>10, <1>11, <1>12, <1>13 DEF WorkStep

(* A step that works is in a stage that has work: not idle, and not the scrape.        *)
LEMMA WorkIsStaged ==
  ASSUME CouncilTypeOK, WorkStep
  PROVE  run.stage # "idle" /\ run.stage # "scrape"
BY DEF WorkStep, UseStoredParent, FetchParent, ListPapers, stage_documents,
       stage_evidence_refresh, SearchRelated, FetchFiling, ReadPaper, Acquire, EndSearch,
       FindsNoCount, EndDocuments

(* The primary scrape: its failure is missed, and leaves the scrape not completed.     *)
LEMMA ScrapeShows ==
  ASSUME CouncilTypeOK, PrimaryIsFirst, MissesShow,
         \/ EndMonth
         \/ \E m \in 1..Months : stage_scrape(m)
         \/ \E a \in Apps : scrape_month(a)
  PROVE  PrimaryIsFirst' /\ MissesShow' /\ run'.stage # "idle"
<1>1. /\ run \in Runs /\ run.health \in Healths /\ run.breaker \in Circuits
      /\ run.left \subseteq 1..Months \/ run.stage # "scrape"
      /\ run.month # 0 => run.stage = "scrape"
      /\ run.month = 0 => run.links = {}
  BY DEF CouncilTypeOK, RunTypeOK, Runs
<1>2. ASSUME NEW m \in 1..Months, stage_scrape(m)
      PROVE  PrimaryIsFirst' /\ MissesShow' /\ run'.stage # "idle"
  <2>1. /\ run.stage = "scrape" /\ m \in run.left /\ run.month = 0
        /\ \A n \in run.left : m <= n
    BY <1>2 DEF stage_scrape
  <2>2. 1 \in run.left => m = 1
    <3>1. 1 \in run.left => m <= 1
      BY <2>1
    <3>. QED
      BY <3>1
  <2>3. CASE Answer(SCRAPE) = "ok"
    <3>1. /\ run' = [run EXCEPT !.left = @ \ {m}, !.month = m,
                               !.links = {a \in Apps : MonthOf[a] = m}]
          /\ missed' = missed
      BY <1>1, <1>2, <2>3 DEF stage_scrape, Runs
    <3>2. /\ run'.stage = "scrape" /\ run'.left = run.left \ {m} /\ run'.month = m
          /\ run'.health = run.health /\ run'.breaker = run.breaker
      BY <1>1, <2>1, <3>1 DEF Runs
    <3>3. 1 \notin run'.left
      BY <2>2, <3>2
    <3>4. PrimaryIsFirst'
      BY <2>1, <3>1, <3>2, <3>3 DEF PrimaryIsFirst
    <3>5. MissesShow'
      BY <2>1, <3>1, <3>2 DEF MissesShow
    <3>. QED
      BY <3>2, <3>4, <3>5
  <2>4. CASE Answer(SCRAPE) # "ok"
    <3>1. /\ run' = [run EXCEPT !.left = @ \ {m},
                               !.breaker = record_failure(@, Answer(SCRAPE))]
          /\ missed' = IF m = 1 THEN missed \cup {SCRAPE} ELSE missed
      BY <1>1, <1>2, <2>4 DEF stage_scrape, Runs
    <3>2. /\ run'.stage = "scrape" /\ run'.left = run.left \ {m} /\ run'.month = 0
          /\ run'.health = run.health
          /\ run'.breaker = record_failure(run.breaker, Answer(SCRAPE))
      BY <1>1, <2>1, <3>1 DEF Runs
    <3>3. 1 \notin run'.left
      BY <2>2, <3>2
    <3>4. run.breaker.open => run'.breaker.open
      BY <1>1, <3>2, CircuitKeeps
    <3>5. PrimaryIsFirst'
      BY <2>1, <3>2, <3>3 DEF PrimaryIsFirst
    <3>6. MissesShow'
      <4>1. CASE m = 1
        <5>1. missed' = missed \cup {SCRAPE} /\ ~run.health.completed
          BY <2>1, <3>1, <4>1 DEF PrimaryIsFirst
        <5>. QED
          BY <2>1, <3>2, <5>1 DEF MissesShow
      <4>2. CASE m # 1
        BY <2>1, <3>1, <3>2, <3>4, <4>2 DEF MissesShow
      <4>. QED
        BY <4>1, <4>2
    <3>. QED
      BY <3>2, <3>5, <3>6
  <2>. QED
    BY <2>3, <2>4
<1>3. ASSUME NEW a \in Apps, scrape_month(a)
      PROVE  PrimaryIsFirst' /\ MissesShow' /\ run'.stage # "idle"
  <2>1. /\ run'.stage = run.stage /\ run'.left = run.left /\ run'.month = run.month
        /\ run'.health = run.health /\ run'.breaker = run.breaker /\ missed' = missed
    BY <1>1, <1>3 DEF scrape_month, Runs
  <2>2. run.stage = "scrape"
    BY <1>1, <1>3 DEF scrape_month
  <2>. QED
    BY <2>1, <2>2 DEF PrimaryIsFirst, MissesShow
<1>4. CASE EndMonth
  <2>1. run.month # 0 /\ run.stage = "scrape" /\ missed' = missed
    BY <1>1, <1>4 DEF EndMonth
  <2>2. /\ run'.stage = "scrape" /\ run'.left = run.left /\ run'.month = 0
        /\ run'.breaker = run.breaker
        /\ run'.health = [run.health EXCEPT !.completed = @ \/ run.month = 1]
    BY <1>1, <1>4, <2>1 DEF EndMonth, Runs
  <2>3. /\ run'.health.attempted = run.health.attempted
        /\ run'.health.parents = run.health.parents
        /\ run'.health.documents = run.health.documents
        /\ run'.health.refresh = run.health.refresh
        /\ run'.health.completed = (run.health.completed \/ run.month = 1)
    BY <1>1, <2>2 DEF Healths
  <2>4. 1 \notin run.left /\ (SCRAPE \in missed => run.month # 1)
    BY <2>1 DEF PrimaryIsFirst
  <2>5. PrimaryIsFirst'
    BY <2>1, <2>2, <2>4 DEF PrimaryIsFirst
  <2>6. MissesShow'
    BY <2>1, <2>2, <2>3, <2>4 DEF MissesShow
  <2>. QED
    BY <2>2, <2>5, <2>6
<1>. QED
  BY <1>2, <1>3, <1>4

(* Whatever is missed shows, until the run ends.                                       *)
LEMMA MissesStep ==
  ASSUME CouncilTypeOK, PrimaryIsFirst, MissesShow, [Next]_vars
  PROVE  PrimaryIsFirst' /\ MissesShow'
<1>1. run \in Runs
  BY DEF CouncilTypeOK, RunTypeOK
<1>2. CASE UNCHANGED vars \/ Breaks \/ Heals \/ \E f \in Filings : Publish(f)
  <2>1. UNCHANGED <<run, missed>>
    BY <1>2 DEF vars, Breaks, Heals, Publish
  <2>. QED
    BY <2>1 DEF PrimaryIsFirst, MissesShow
<1>3. CASE StartRun
  <2>1. /\ run'.stage = "scrape" /\ run'.health.attempted /\ ~run'.health.completed
        /\ run'.month = 0 /\ missed' = {}
    BY <1>3, NoRunTyped DEF StartRun, Runs, NewHealth
  <2>. QED
    BY <2>1 DEF PrimaryIsFirst, MissesShow
<1>4. CASE NextStage
  <2>1. /\ run'.stage = After[run.stage] /\ run'.health = run.health
        /\ run'.breaker = run.breaker
        /\ After[run.stage] \notin {"scrape", "idle"} /\ run.stage # "idle"
    BY <1>1, <1>4 DEF NextStage, After, Runs
  <2>2. missed' = missed \cup run.left /\ (run.left # {} => run.breaker.open)
    BY <1>4 DEF NextStage, Continues
  <2>. QED
    BY <2>1, <2>2 DEF PrimaryIsFirst, MissesShow
<1>5. CASE EndRun \/ Killed
  <2>1. run'.stage = "idle"
    BY <1>5, NoRunTyped DEF EndRun, Killed
  <2>. QED
    BY <2>1 DEF PrimaryIsFirst, MissesShow
<1>6. CASE \/ EndMonth
           \/ \E m \in 1..Months : stage_scrape(m)
           \/ \E a \in Apps : scrape_month(a)
  BY <1>6, ScrapeShows
<1>7. CASE WorkStep
  <2>1. Shows /\ run'.health.completed = run.health.completed /\ run.stage # "scrape"
    BY <1>7, WorkIsStaged, WorkShows
  <2>2. SCRAPE \in missed => SCRAPE \in missed'
    BY <1>7 DEF WorkStep, UseStoredParent, FetchParent, ListPapers, stage_documents,
                stage_evidence_refresh, SearchRelated, FetchFiling, ReadPaper, Acquire,
                EndSearch, FindsNoCount, EndDocuments
  <2>. QED
    BY <2>1, <2>2 DEF Shows, PrimaryIsFirst, MissesShow
<1>. QED
  BY <1>2, <1>3, <1>4, <1>5, <1>6, <1>7 DEF Next, RunStep, WorkStep

(* A stamp is written for a pass that lost nothing, and nothing else touches what it
   stands for.                                                                         *)
LEMMA StampStep ==
  ASSUME CouncilTypeOK, StampsStand, [Next]_vars PROVE StampsStand'
<1>1. /\ run \in Runs /\ run.breaker \in Circuits /\ held \in Rows
      /\ run.complete \in BOOLEAN
  BY DEF CouncilTypeOK, RunTypeOK, Runs
<1>. DEFINE Quiet == held'.papers = held.papers /\ held'.documented = held.documented
<1>2. ASSUME Quiet, run'.complete = FALSE PROVE StampsStand'
  BY <1>2 DEF StampsStand
<1>3. ASSUME Quiet, run'.complete = run.complete, run.stage # "documents" \/ run.app = 0
      PROVE  StampsStand'
  <2>1. ~run.complete
    BY <1>3 DEF StampsStand
  <2>. QED
    BY <1>1, <1>2, <1>3, <2>1
<1>4. CASE UNCHANGED vars \/ Breaks \/ Heals \/ \E f \in Filings : Publish(f)
  <2>1. UNCHANGED <<run, held>>
    BY <1>4 DEF vars, Breaks, Heals, Publish
  <2>. QED
    BY <2>1 DEF StampsStand
<1>5. CASE StartRun \/ EndRun \/ Killed
  <2>1. held' = held /\ run'.complete = FALSE
    BY <1>5, NoRunTyped DEF StartRun, EndRun, Killed, Runs
  <2>. QED
    BY <1>2, <2>1
<1>6. CASE NextStage
  BY <1>1, <1>3, <1>6 DEF NextStage, Runs
<1>7. ASSUME NEW m \in 1..Months, stage_scrape(m) PROVE StampsStand'
  <2>1. run.stage = "scrape" /\ held' = held
    BY <1>7 DEF stage_scrape
  <2>2. run'.complete = run.complete
    <3>1. CASE Answer(SCRAPE) = "ok"
      BY <1>1, <1>7, <3>1 DEF stage_scrape, Runs
    <3>2. CASE Answer(SCRAPE) # "ok"
      <4>1. run' = [run EXCEPT !.left = @ \ {m},
                              !.breaker = record_failure(@, Answer(SCRAPE))]
        BY <1>1, <1>7, <3>2 DEF stage_scrape, Runs
      <4>. QED
        BY <1>1, <4>1 DEF Runs
    <3>. QED
      BY <3>1, <3>2
  <2>. QED
    BY <1>3, <2>1, <2>2
<1>8. ASSUME NEW a \in Apps, scrape_month(a) PROVE StampsStand'
  <2>1. run.stage = "scrape"
    BY <1>8 DEF scrape_month, CouncilTypeOK, RunTypeOK
  <2>. QED
    BY <1>1, <1>3, <1>8, <2>1 DEF scrape_month, Runs
<1>9. CASE EndMonth
  <2>1. run.stage = "scrape"
    BY <1>9 DEF EndMonth, CouncilTypeOK, RunTypeOK
  <2>. QED
    BY <1>1, <1>3, <1>9, <2>1 DEF EndMonth, Runs, Rows
<1>10. ASSUME NEW a \in Apps, UseStoredParent(a) PROVE StampsStand'
  BY <1>1, <1>3, <1>10 DEF UseStoredParent, Runs
<1>11. ASSUME NEW a \in Apps, FetchParent(a) PROVE StampsStand'
  BY <1>1, <1>3, <1>11 DEF FetchParent, Runs, Rows
<1>12. ASSUME NEW a \in Apps, ListPapers(a) PROVE StampsStand'
  BY <1>1, <1>3, <1>12 DEF ListPapers, Runs
<1>13. ASSUME NEW a \in Apps, stage_evidence_refresh(a) PROVE StampsStand'
  BY <1>1, <1>3, <1>13 DEF stage_evidence_refresh, Runs, Rows
<1>14. ASSUME NEW a \in Anchors, SearchRelated(a) PROVE StampsStand'
  BY <1>1, <1>3, <1>14 DEF SearchRelated, Runs
<1>15. ASSUME NEW f \in Filings, FetchFiling(f) PROVE StampsStand'
  BY <1>1, <1>3, <1>15 DEF FetchFiling, Runs, Rows
<1>16. ASSUME NEW p \in Papers, ReadPaper(p) PROVE StampsStand'
  BY <1>1, <1>3, <1>16 DEF ReadPaper, Counted, Runs
<1>17. CASE EndSearch \/ FindsNoCount
  BY <1>1, <1>3, <1>17 DEF EndSearch, FindsNoCount, Runs
<1>18. ASSUME NEW a \in Apps, stage_documents(a) PROVE StampsStand'
  <2>1. held' = held /\ run.stage = "documents" /\ run.app = 0 /\ ~run.breaker.open
    BY <1>18 DEF stage_documents, Continues
  <2>2. CASE Answer(a) # "ok"
    <3>1. run' = [[run EXCEPT !.left = @ \ {a}, !.breaker = Record(@, Answer(a))]
                   EXCEPT !.health.documents = TRUE]
      BY <1>18, <2>2 DEF stage_documents
    <3>2. run'.complete = run.complete
      BY <1>1, <2>1, <3>1 DEF Runs
    <3>. QED
      BY <1>3, <2>1, <3>2
  <2>3. CASE Answer(a) = "ok"
    <3>1. /\ run'.stage = "documents" /\ run'.app = a /\ run'.got = run.got
          /\ run'.papers = PapersOf(a) \ held.papers
          /\ run'.breaker = Record(run.breaker, Answer(a))
      BY <1>1, <1>18, <2>1, <2>3 DEF stage_documents, Runs
    <3>2. ~run'.breaker.open /\ a # 0
      BY <1>1, <2>1, <2>3, <3>1, CircuitKeeps, PaperAssumption
    <3>. QED
      BY <2>1, <3>1, <3>2 DEF StampsStand
  <2>. QED
    BY <2>2, <2>3
<1>19. ASSUME NEW p \in Papers, Acquire(p) PROVE StampsStand'
  <2>1. held' = held /\ run.stage = "documents" /\ p \in run.papers /\ ~run.breaker.open
    BY <1>19 DEF Acquire, Continues
  <2>2. CASE Download(p) # "ok"
    <3>1. run'.complete = FALSE
      BY <1>1, <1>19, <2>2 DEF Acquire, Runs
    <3>. QED
      BY <1>2, <2>1, <3>1
  <2>3. CASE Download(p) = "ok"
    <3>1. /\ run'.stage = "documents" /\ run'.app = run.app /\ run'.got = run.got \cup {p}
          /\ run'.papers = run.papers \ {p} /\ run'.complete = run.complete
          /\ run'.breaker = Record(run.breaker, Download(p))
      BY <1>1, <1>19, <2>1, <2>3 DEF Acquire, Runs
    <3>2. ~run'.breaker.open
      BY <1>1, <2>1, <2>3, <3>1, CircuitKeeps
    <3>. QED
      BY <2>1, <3>1, <3>2 DEF StampsStand
  <2>. QED
    BY <2>2, <2>3
<1>20. CASE EndDocuments
  <2>1. /\ held'.papers = held.papers \cup run.got /\ run'.complete = FALSE
        /\ held'.documented = IF run.complete THEN held.documented \cup {run.app}
                              ELSE held.documented
        /\ run.papers = {} \/ run.breaker.open
    BY <1>1, <1>20 DEF EndDocuments, Continues, Runs, Rows
  <2>2. run.complete => PapersOf(run.app) \subseteq held'.papers
    BY <2>1 DEF StampsStand
  <2>. QED
    BY <2>1, <2>2 DEF StampsStand
<1>. QED
  BY <1>4, <1>5, <1>6, <1>7, <1>8, <1>9, <1>10, <1>11, <1>12, <1>13, <1>14, <1>15, <1>16,
     <1>17, <1>18, <1>19, <1>20 DEF Next, RunStep

(* The status of a run is read off at its end, and nothing it speaks of changes until
   the next run: success leaves no room for a miss.                                    *)
LEMMA CouncilStep ==
  ASSUME CouncilInv, [Next]_vars PROVE CouncilInv'
<1>1. CouncilTypeOK' /\ PrimaryIsFirst' /\ MissesShow' /\ StampsStand'
  BY CouncilStepTyped, MissesStep, StampStep DEF CouncilInv
<1>2. CouncilTypeOK /\ MissesShow /\ SuccessIsTruthful
  BY DEF CouncilInv
<1>3. \A p \in Papers \ held'.papers : PaperOf[p] \notin held'.documented
  BY <1>1 DEF StampsStand, PapersOf
<1>4. run'.stage = "idle" /\ result' = "success" => missed' = {}
  <2>1. CASE EndRun
    <3>1. missed' = missed /\ result' = classify(RunHealth) /\ run.stage # "idle"
      BY <2>1 DEF EndRun
    <3>2. /\ RunHealth.attempted = run.health.attempted
          /\ RunHealth.completed = run.health.completed
          /\ RunHealth.parents = run.health.parents
          /\ RunHealth.documents = run.health.documents
          /\ RunHealth.refresh = run.health.refresh
          /\ RunHealth.circuit = run.breaker.open
      BY <1>2 DEF RunHealth, CouncilTypeOK, RunTypeOK, Runs, Healths
    <3>. QED
      BY <1>2, <3>1, <3>2 DEF classify, MissesShow
  <2>2. CASE Killed
    BY <2>2 DEF Killed
  <2>3. CASE UNCHANGED vars \/ Breaks \/ Heals \/ \E f \in Filings : Publish(f)
    <3>1. UNCHANGED <<run, missed, result>>
      BY <2>3 DEF vars, Breaks, Heals, Publish
    <3>. QED
      BY <1>2, <3>1 DEF SuccessIsTruthful
  <2>4. CASE StartRun
    BY <2>4, NoRunTyped DEF StartRun, Runs
  <2>5. CASE NextStage
    <3>1. run'.stage = After[run.stage] /\ run.stage \in DOMAIN After
      BY <1>2, <2>5 DEF NextStage, CouncilTypeOK, RunTypeOK, Runs
    <3>. QED
      BY <3>1 DEF After
  <2>6. CASE \/ EndMonth
             \/ \E m \in 1..Months : stage_scrape(m)
             \/ \E a \in Apps : scrape_month(a)
    BY <2>6, ScrapeShows DEF CouncilInv
  <2>7. CASE WorkStep
    BY <1>2, <2>7, WorkIsStaged, WorkShows DEF Shows
  <2>. QED
    BY <2>1, <2>2, <2>3, <2>4, <2>5, <2>6, <2>7 DEF Next, RunStep, WorkStep
<1>. QED
  BY <1>1, <1>3, <1>4 DEF CouncilInv, SuccessIsTruthful

(* A run that reports success has done all the work its health counts: whatever such a
   stage failed to do, or skipped because the circuit was open, shows in the health or
   in the circuit when classify reads them, wherever in the run it happened.  Downloads
   are not counted, but no application whose papers are not all stored is stamped.     *)
THEOREM SuccessMissesNoCountedWork == Spec => []SuccessIsTruthful
<1>1. Init => CouncilInv
  <2>. SUFFICES ASSUME Init PROVE CouncilInv
    OBVIOUS
  <2>1. run = NoRun /\ held.documented = {} /\ result = "none"
    BY DEF Init, NoRows
  <2>. QED
    BY <2>1, NoRunTyped, CouncilInitTyped
       DEF CouncilInv, PrimaryIsFirst, MissesShow, StampsStand, SuccessIsTruthful
<1>2. CouncilInv => SuccessIsTruthful
  BY DEF CouncilInv
<1>. QED
  BY <1>1, <1>2, CouncilStep, PTL DEF Spec

-----------------------------------------------------------------------------
(* When the circuit opens. *)

(* One recorded call keeps the count of a closed circuit within the streak and what was
   forgiven before it, and opens it only on the third failure of those.                *)
LEMMA CallCounts ==
  ASSUME streak \in Nat, forgiven \in Nat, NEW b \in Circuits,
         ~b.open => b.failures <= streak + forgiven,
         NEW answer \in Answers, Called(answer), NEW c,
         \/ c = Record(b, answer)
         \/ answer # "ok" /\ c = record_failure(b, answer)
  PROVE  /\ ~c.open => c.failures <= streak' + forgiven'
         /\ ~b.open /\ c.open => streak' + forgiven' >= PORTAL_CIRCUIT_FAILURE_THRESHOLD
<1>. USE DEF Circuits, Called
<1>1. CASE answer = "ok"
  BY <1>1 DEF Record, record_success
<1>2. CASE answer = "host"
  BY <1>2 DEF Record, record_failure, is_portal_host_failure, PORTAL_CIRCUIT_FAILURE_THRESHOLD
<1>3. CASE answer = "error"
  BY <1>3 DEF Record, record_failure, is_portal_host_failure
<1>. QED
  BY <1>1, <1>2, <1>3 DEF Answers

(* What a step does to the circuit: a call is recorded in it, or it stays as it is while
   the histories do or a success goes unrecorded, or a run begins or ends.             *)
Recorded(answer) ==
  /\ Called(answer)
  /\ \/ run'.breaker = Record(run.breaker, answer)
     \/ answer # "ok" /\ run'.breaker = record_failure(run.breaker, answer)

Untouched ==
  /\ run'.breaker = run.breaker
  /\ Unrecorded \/ UNCHANGED <<streak, forgiven>>

LEMMA StepsRecord ==
  ASSUME CouncilTypeOK, [Next]_vars
  PROVE  \/ Untouched \/ run'.breaker = ClosedCircuit
         \/ \E answer \in Answers : Recorded(answer)
<1>1. run \in Runs
  BY DEF CouncilTypeOK, RunTypeOK
<1>2. CASE UNCHANGED vars \/ Breaks \/ Heals \/ \E f \in Filings : Publish(f)
  <2>1. UNCHANGED <<run, streak, forgiven>>
    BY <1>2 DEF vars, Breaks, Heals, Publish
  <2>. QED
    BY <2>1 DEF Untouched
<1>3. CASE StartRun \/ EndRun \/ Killed
  <2>. run'.breaker = ClosedCircuit
    BY <1>3, NoRunTyped DEF StartRun, EndRun, Killed, Runs
  <2>. QED
    OBVIOUS
<1>4. CASE NextStage \/ EndMonth \/ EndSearch \/ FindsNoCount \/ EndDocuments
  <2>. Untouched
    BY <1>1, <1>4
       DEF NextStage, EndMonth, EndSearch, FindsNoCount, EndDocuments, Untouched, Runs
  <2>. QED
    OBVIOUS
<1>5. ASSUME NEW a \in Apps, UseStoredParent(a) PROVE Untouched
  BY <1>1, <1>5 DEF UseStoredParent, Untouched, Runs
<1>6. ASSUME NEW a \in Apps, scrape_month(a) PROVE Untouched
  BY <1>1, <1>6 DEF scrape_month, Untouched, Runs
<1>7. ASSUME NEW m \in 1..Months, stage_scrape(m) PROVE Untouched \/ Recorded(Answer(SCRAPE))
  <2>1. CASE Answer(SCRAPE) = "ok"
    BY <1>1, <1>7, <2>1 DEF stage_scrape, Untouched, Runs
  <2>2. CASE Answer(SCRAPE) # "ok"
    BY <1>1, <1>7, <2>2 DEF stage_scrape, Recorded, Runs
  <2>. QED
    BY <2>1, <2>2
<1>8. ASSUME NEW a \in Apps, FetchParent(a) PROVE Recorded(Answer(Cites[a]))
  BY <1>1, <1>8 DEF FetchParent, Recorded, Runs
<1>9. ASSUME NEW a \in Apps, stage_documents(a) PROVE Recorded(Answer(a))
  BY <1>1, <1>9 DEF stage_documents, Recorded, Runs
<1>10. ASSUME NEW a \in Apps, stage_evidence_refresh(a) PROVE Recorded(Answer(a))
  BY <1>1, <1>10 DEF stage_evidence_refresh, Recorded, Runs
<1>11. ASSUME NEW a \in Apps, ListPapers(a) PROVE Recorded(Answer(a))
  BY <1>1, <1>11 DEF ListPapers, Recorded, Runs
<1>12. ASSUME NEW a \in Anchors, SearchRelated(a) PROVE Recorded(Answer(a))
  BY <1>1, <1>12 DEF SearchRelated, Recorded, Runs
<1>13. ASSUME NEW f \in Filings, FetchFiling(f) PROVE Recorded(Answer(f))
  BY <1>1, <1>13 DEF FetchFiling, Recorded, Runs
<1>14. ASSUME NEW p \in Papers, ReadPaper(p) PROVE Recorded(Download(p))
  BY <1>1, <1>14 DEF ReadPaper, Counted, Recorded, Runs
<1>15. ASSUME NEW p \in Papers, Acquire(p) PROVE Recorded(Download(p))
  BY <1>1, <1>15 DEF Acquire, Recorded, Runs
<1>. QED
  BY <1>2, <1>3, <1>4, <1>5, <1>6, <1>7, <1>8, <1>9, <1>10, <1>11, <1>12, <1>13, <1>14, <1>15,
     AnswerAnswers, DownloadAnswers DEF Next, RunStep

(* A circuit that begins has counted nothing.                                          *)
LEMMA NothingCounted ==
  ASSUME NEW n \in Nat, NEW m \in Nat
  PROVE  ~ClosedCircuit.open /\ ClosedCircuit.failures <= n + m
BY DEF ClosedCircuit

(* The circuit counts the failures in a row and the forgiven ones before them, through
   every month and stage.                                                              *)
LEMMA StreakStep ==
  ASSUME CouncilTypeOK, CountIsAStreak, [Next]_vars
  PROVE  /\ CountIsAStreak'
         /\ ~run.breaker.open /\ run'.breaker.open =>
              streak' + forgiven' >= PORTAL_CIRCUIT_FAILURE_THRESHOLD
<1>1. /\ run.breaker \in Circuits /\ streak \in Nat /\ forgiven \in Nat
      /\ ~run.breaker.open => run.breaker.failures <= streak + forgiven
  BY DEF CouncilTypeOK, RunTypeOK, CountIsAStreak, Runs
<1>2. streak' \in Nat /\ forgiven' \in Nat
  BY CouncilStepTyped DEF CouncilTypeOK
<1>3. CASE Untouched
  <2>1. run'.breaker = run.breaker /\ streak' + forgiven' = streak + forgiven
    BY <1>1, <1>3 DEF Untouched, Unrecorded
  <2>. QED
    BY <1>1, <2>1 DEF CountIsAStreak
<1>4. CASE run'.breaker = ClosedCircuit
  BY <1>2, <1>4, NothingCounted DEF CountIsAStreak
<1>5. ASSUME NEW answer \in Answers, Recorded(answer)
      PROVE  /\ CountIsAStreak'
             /\ ~run.breaker.open /\ run'.breaker.open =>
                  streak' + forgiven' >= PORTAL_CIRCUIT_FAILURE_THRESHOLD
  BY <1>1, <1>5, CallCounts DEF Recorded, CountIsAStreak
<1>. QED
  BY <1>3, <1>4, <1>5, StepsRecord

(* The circuit of a run, of one month or of many, opens on three failures of the host
   that no recorded success separates, in whatever months and stages they fall.        *)
THEOREM CircuitsOpenOnAStreak == Spec => OpensOnAStreak
<1>1. Init => CouncilTypeOK /\ CountIsAStreak
  <2>. SUFFICES ASSUME Init PROVE CouncilTypeOK /\ CountIsAStreak
    OBVIOUS
  <2>1. run.breaker = ClosedCircuit /\ streak = 0 /\ forgiven = 0
    BY NoRunTyped DEF Init
  <2>2. CountIsAStreak
    BY <2>1 DEF CountIsAStreak, ClosedCircuit
  <2>. QED
    BY <2>2, CouncilInitTyped
<1>2. CouncilTypeOK /\ CountIsAStreak /\ [Next]_vars =>
        /\ CouncilTypeOK' /\ CountIsAStreak'
        /\ [~run.breaker.open /\ run'.breaker.open =>
               streak' + forgiven' >= PORTAL_CIRCUIT_FAILURE_THRESHOLD]_vars
  BY CouncilStepTyped, StreakStep
<1>. QED
  BY <1>1, <1>2, PTL DEF Spec, OpensOnAStreak

-----------------------------------------------------------------------------
(* The daily job. *)

(* The counts that _exit_code adds up are those of different councils: together they are
   all councils only if no council is left out.                                        *)
LEMMA AllCounted ==
  ASSUME DailyAssumption, DailyTypeOK, CountsAreRows, _exit_code = 0
  PROVE  \A c \in Councils : stored[c] \in Healthy
<1>. DEFINE S == results["success"]
            P == results["partial"]
<1>1. IsFiniteSet(Councils) /\ S \subseteq Councils /\ P \subseteq Councils
  BY DEF DailyAssumption, DailyTypeOK, RunStatuses
<1>2. \A c \in S : stored[c] = "success"
  BY DEF CountsAreRows, RunStatuses
<1>3. \A c \in P : stored[c] = "partial"
  BY DEF CountsAreRows, RunStatuses
<1>4. Cardinality(S) + Cardinality(P) = Cardinality(Councils)
  BY DEF _exit_code
<1>. HIDE DEF S, P
<1>5. IsFiniteSet(S) /\ IsFiniteSet(P)
  BY <1>1, FS_Subset
<1>6. Cardinality(S) \in Nat /\ Cardinality(P) \in Nat
  BY <1>5, FS_CardinalityType
<1>7. S \cap P = {}
  BY <1>2, <1>3
<1>8. Cardinality(S \cup P) = Cardinality(S) + Cardinality(P)
  <2>1. Cardinality(S \cup P) = Cardinality(S) + Cardinality(P) - Cardinality(S \cap P)
    BY <1>5, FS_Union
  <2>2. Cardinality(S \cap P) = 0
    BY <1>7, FS_EmptySet
  <2>. QED
    BY <1>6, <2>1, <2>2
<1>9. S \cup P = Councils
  BY <1>1, <1>4, <1>8, FS_Subset
<1>. QED
  BY <1>2, <1>3, <1>9 DEF Healthy

LEMMA CouncilsAreNumbers == ASSUME DailyAssumption PROVE Councils \subseteq Nat
<1>1. Cardinality(Councils) \in Nat
  BY FS_CardinalityType DEF DailyAssumption
<1>. QED
  BY <1>1 DEF DailyAssumption

(* The steps that give the session, or the council in hand, up.                        *)
LEMMA GivesUp ==
  ASSUME DailyAssumption, DailyInv, NEW sticky \in BOOLEAN,
         SpawnFails(sticky) \/ LineFails \/ RecordFails(sticky)
  PROVE  DailyInv'
<1>1. /\ job.pc \in {"starting", "reading", "waited"} /\ Current \in Councils
      /\ \E b \in BOOLEAN : job' = [pc |-> "next", council |-> Current, session |-> b]
      /\ UNCHANGED <<child, said, stored, results, exit>>
  BY DEF SpawnFails, LineFails, RecordFails, AfterError, DailyInv, DailyTypeOK
<1>2. timer' = "off"
  BY DEF SpawnFails, LineFails, RecordFails, DailyInv, DailyTypeOK
<1>3. DailyTypeOK'
  BY <1>1, <1>2 DEF DailyInv, DailyTypeOK, Current
<1>4. CountsAreBehind'
  <2>. SUFFICES ASSUME NEW s \in RunStatuses, NEW c \in results[s]
                PROVE  /\ job'.pc = "next" => c <= job'.council
                       /\ job'.pc \notin {"starting", "reading", "waited"}
    BY <1>1 DEF CountsAreBehind, Current
  <2>1. c < Current
    BY <1>1 DEF DailyInv, CountsAreBehind
  <2>2. c \in Int /\ Current \in Int
    BY <1>1, <2>1, CouncilsAreNumbers DEF DailyInv, DailyTypeOK
  <2>. QED
    BY <1>1, <2>1, <2>2
<1>5. CountsAreRows' /\ ExitIsFinal' /\ ExitZeroMeansHealthy'
  BY <1>1 DEF DailyInv, CountsAreRows, ExitIsFinal, ExitZeroMeansHealthy
<1>. QED
  BY <1>3, <1>4, <1>5 DEF DailyInv

(* The steps from one council to the next, and the job's start and end.                *)
LEMMA GoesOn ==
  ASSUME DailyAssumption, DailyInv,
         StartJob \/ SkipCouncil \/ StartCouncil \/ EndJob \/ ContainerKilled
  PROVE  DailyInv'
<1>1. DailyTypeOK
  BY DEF DailyInv
<1>2. Councils \subseteq Nat /\ Current \in Nat
  BY <1>1, CouncilsAreNumbers DEF DailyTypeOK, Current
<1>3. CASE StartJob
  <2>1. DailyTypeOK'
    BY <1>1, <1>3 DEF StartJob, DailyTypeOK, Current, UNSET
  <2>2. results' = [s \in RunStatuses |-> {}] /\ exit' # 0
    BY <1>1, <1>3 DEF StartJob, DailyTypeOK, UNSET
  <2>. QED
    BY <2>1, <2>2
       DEF DailyInv, CountsAreRows, CountsAreBehind, ExitIsFinal, ExitZeroMeansHealthy
<1>4. CASE SkipCouncil \/ StartCouncil
  <2>1. /\ job.pc = "next" /\ Current + 1 \in Councils
        /\ job'.pc \in {"next", "starting"} /\ job'.council = Current + 1
        /\ UNCHANGED <<child, timer, said, stored, results, exit>>
    BY <1>1, <1>4 DEF SkipCouncil, StartCouncil, DailyTypeOK, Current
  <2>2. DailyTypeOK'
    BY <1>1, <1>4, <2>1 DEF SkipCouncil, StartCouncil, DailyTypeOK, Current
  <2>3. CountsAreBehind'
    <3>. SUFFICES ASSUME NEW s \in RunStatuses, NEW c \in results[s]
                  PROVE  c < Current + 1
      BY <2>1, <1>2, <1>1 DEF CountsAreBehind, Current, DailyTypeOK
    <3>1. c <= Current
      BY <2>1 DEF DailyInv, CountsAreBehind
    <3>2. c \in Nat
      BY <1>1, <1>2 DEF DailyTypeOK
    <3>. QED
      BY <1>2, <3>1, <3>2
  <2>4. exit # 0
    BY <2>1 DEF DailyInv, ExitIsFinal
  <2>. QED
    BY <2>1, <2>2, <2>3, <2>4 DEF DailyInv, CountsAreRows, ExitIsFinal, ExitZeroMeansHealthy
<1>5. CASE EndJob
  <2>1. DailyTypeOK'
    BY <1>1, <1>5 DEF EndJob, _exit_code, Idle, NoChild, Children, DailyTypeOK, Current
  <2>2. job'.pc = "idle" /\ UNCHANGED <<stored, results>> /\ exit' = _exit_code
    BY <1>5 DEF EndJob, Idle
  <2>3. ExitZeroMeansHealthy'
    BY <2>2, AllCounted DEF DailyInv, ExitZeroMeansHealthy
  <2>. QED
    BY <2>1, <2>2, <2>3 DEF DailyInv, CountsAreRows, CountsAreBehind, ExitIsFinal
<1>6. CASE ContainerKilled
  <2>1. DailyTypeOK'
    BY <1>1, <1>6 DEF ContainerKilled, Idle, NoChild, Children, DailyTypeOK, Current
  <2>2. job'.pc = "idle" /\ UNCHANGED <<stored, results, exit>>
    BY <1>6 DEF ContainerKilled, Idle
  <2>. QED
    BY <2>1, <2>2
       DEF DailyInv, CountsAreRows, CountsAreBehind, ExitIsFinal, ExitZeroMeansHealthy
<1>. QED
  BY <1>3, <1>4, <1>5, <1>6

(* The rows: a council that starts has not been counted yet, and one that is recorded is
   counted under what its row says.                                                    *)
LEMMA RowsCount ==
  ASSUME DailyAssumption, DailyInv, Spawn \/ RecordCouncil PROVE DailyInv'
<1>1. DailyTypeOK
  BY DEF DailyInv
<1>2. /\ job.pc \in {"starting", "waited"} /\ Current \in Councils
      /\ job'.pc \in {"reading", "next"} /\ job'.council = Current /\ exit' = exit
      /\ \E x : stored' = [stored EXCEPT ![Current] = x]
  BY <1>1 DEF Spawn, RecordCouncil, DailyTypeOK, Current
<1>3. StatusOf \in RunStatuses
  BY <1>1 DEF StatusOf, DailyTypeOK, RunStatuses
<1>4. DailyTypeOK'
  <2>1. CASE Spawn
    BY <1>1, <1>2, <2>1 DEF Spawn, DailyTypeOK, Children, Current
  <2>2. CASE RecordCouncil
    BY <1>1, <1>2, <1>3, <2>2 DEF RecordCouncil, DailyTypeOK, Current
  <2>. QED
    BY <2>1, <2>2
<1>5. \A s \in RunStatuses : \A c \in results[s] : c # Current /\ c <= Current
  <2>. SUFFICES ASSUME NEW s \in RunStatuses, NEW c \in results[s]
                PROVE  c # Current /\ c <= Current
    OBVIOUS
  <2>1. c < Current
    BY <1>2 DEF DailyInv, CountsAreBehind
  <2>2. c \in Nat /\ Current \in Nat
    BY <1>1, <1>2, CouncilsAreNumbers DEF DailyTypeOK
  <2>. QED
    BY <2>1, <2>2
<1>6. \A s \in RunStatuses : \A c \in results[s] : stored'[c] = s
  BY <1>1, <1>2, <1>5 DEF DailyInv, CountsAreRows, DailyTypeOK
<1>7. CountsAreRows' /\ CountsAreBehind'
  <2>1. CASE Spawn
    <3>1. results' = results /\ job'.pc = "reading"
      BY <1>1, <2>1 DEF Spawn, DailyTypeOK
    <3>2. \A s \in RunStatuses : \A c \in results[s] : c < Current
      BY <1>2 DEF DailyInv, CountsAreBehind
    <3>. QED
      BY <1>2, <1>6, <3>1, <3>2 DEF CountsAreRows, CountsAreBehind, Current
  <2>2. CASE RecordCouncil
    <3>1. /\ stored'[Current] = StatusOf /\ job'.pc = "next"
          /\ results' = [results EXCEPT ![StatusOf] = @ \cup {Current}]
      BY <1>1, <1>2, <2>2 DEF RecordCouncil, DailyTypeOK
    <3>2. \A s \in RunStatuses : \A c \in results'[s] :
            c \in results[s] \/ (c = Current /\ s = StatusOf)
      BY <1>1, <3>1 DEF DailyTypeOK
    <3>3. Current <= Current
      BY <1>2, CouncilsAreNumbers
    <3>. QED
      BY <1>2, <1>5, <1>6, <3>1, <3>2, <3>3 DEF CountsAreRows, CountsAreBehind, Current
  <2>. QED
    BY <2>1, <2>2
<1>8. exit # 0
  BY <1>2 DEF DailyInv, ExitIsFinal
<1>. QED
  BY <1>2, <1>4, <1>7, <1>8 DEF DailyInv, ExitIsFinal, ExitZeroMeansHealthy

LEMMA DailyStep ==
  ASSUME DailyAssumption, DailyInv, [JobNext]_jobVars PROVE DailyInv'
<1>1. DailyTypeOK
  BY DEF DailyInv
<1>2. ASSUME DailyTypeOK', UNCHANGED <<stored, results, exit>>,
             job'.council = job.council, job'.pc = job.pc \/ {job.pc, job'.pc} = {"reading", "waited"}
      PROVE  DailyInv'
  <2>1. job'.pc \in {"next", "idle"} => job'.pc = job.pc
    BY <1>2
  <2>2. job'.pc \in {"starting", "reading", "waited"} =>
          job.pc \in {"starting", "reading", "waited"}
    BY <1>2
  <2>3. job.pc = "idle" => job'.pc = "idle"
    BY <1>2
  <2>. QED
    BY <1>2, <2>1, <2>2, <2>3
       DEF DailyInv, CountsAreRows, CountsAreBehind, ExitIsFinal, ExitZeroMeansHealthy, Current
<1>3. CASE UNCHANGED jobVars
  BY <1>1, <1>2, <1>3 DEF jobVars, DailyTypeOK, Current
<1>4. CASE EndOfOutput
  BY <1>1, <1>2, <1>4 DEF EndOfOutput, DailyTypeOK, Current
<1>5. CASE _on_timeout
  <2>1. Killing \in Children
    BY <1>1, <1>5 DEF _on_timeout, Killing, Children, DailyTypeOK, Current
  <2>. QED
    BY <1>1, <1>2, <1>5, <2>1 DEF _on_timeout, DailyTypeOK, Current
<1>6. CASE \E s \in {"success", "partial", "failed"} : Says(s)
  BY <1>1, <1>2, <1>6 DEF Says, DailyTypeOK, RunStatuses, Current
<1>7. CASE \E c \in Councils, code \in {0, 1}, pipe \in BOOLEAN : Exits(c, code, pipe)
  BY <1>1, <1>2, <1>7 DEF Exits, DailyTypeOK, Children, Current
<1>8. CASE StartJob \/ SkipCouncil \/ StartCouncil \/ EndJob \/ ContainerKilled
  BY <1>8, GoesOn
<1>9. CASE Spawn \/ RecordCouncil
  BY <1>9, RowsCount
<1>10. CASE LineFails \/ \E sticky \in BOOLEAN : SpawnFails(sticky) \/ RecordFails(sticky)
  BY <1>10, GivesUp
<1>. QED
  BY <1>3, <1>4, <1>5, <1>6, <1>7, <1>8, <1>9, <1>10 DEF JobNext, JobStep

(* Exit code 0 means that every council has a healthy row, whatever councils were skipped,
   rows lost, runs killed or sessions broken on the way.                               *)
THEOREM ExitZeroIsHealthy == ASSUME DailyAssumption PROVE JobSpec => []ExitZeroMeansHealthy
<1>1. JobInit => DailyInv
  <2>. SUFFICES ASSUME JobInit PROVE DailyInv
    OBVIOUS
  <2>1. DailyTypeOK
    BY DEF JobInit, DailyTypeOK, Idle, NoChild, Children, RunStatuses, UNSET, Current
  <2>2. exit # 0 /\ \A s \in RunStatuses : results[s] = {}
    BY DEF JobInit, UNSET, RunStatuses
  <2>. QED
    BY <2>1, <2>2
       DEF DailyInv, CountsAreRows, CountsAreBehind, ExitIsFinal, ExitZeroMeansHealthy
<1>2. DailyInv => ExitZeroMeansHealthy
  BY DEF DailyInv
<1>. QED
  BY <1>1, <1>2, DailyStep, PTL DEF JobSpec
=============================================================================
