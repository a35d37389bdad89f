-------------------------- MODULE CouncilRunProperties --------------------------
(***************************************************************************)
(* What a council's run promises.                                          *)
(***************************************************************************)
EXTENDS CouncilRun

Statuses == {"none", "undetermined", "confirmed_qualifying", "confirmed_disqualified"}
Circuits == [failures : Nat, open : BOOLEAN]
Healths  == [attempted : BOOLEAN, completed : BOOLEAN, parents : BOOLEAN, documents : BOOLEAN,
             refresh : BOOLEAN, circuit : BOOLEAN]
Stages   == {"idle", "end"} \cup DOMAIN After
Runs     == [stage : Stages, left : SUBSET (1..Months \cup Apps \cup Anchors),
             breaker : Circuits, health : Healths, month : 0..Months, links : SUBSET Apps,
             anchor : Anchors \cup {0}, rows : SUBSET Filings, app : Apps \cup {0},
             papers : SUBSET Papers, got : SUBSET (Apps \cup Papers), complete : BOOLEAN]
Rows     == [applications : SUBSET Apps, parents : SUBSET (Parents \ Unheld),
             filings : SUBSET Filings, papers : SUBSET Papers, documented : SUBSET Apps,
             refreshed : SUBSET Apps]

RunTypeOK ==
  /\ run \in Runs
  /\ run.stage = "scrape" => run.left \subseteq 1..Months
  /\ run.stage = "parents" => run.left \subseteq {a \in Apps : Cites[a] # 0}
  /\ run.stage = "units" \/ (run.stage = "scrape" /\ run.month = 0) => run.got = {}
  /\ IF run.month = 0 THEN run.links = {} /\ run.got \subseteq PapersOf(run.app)
     ELSE run.stage = "scrape" /\ run.got \subseteq Apps
  /\ run.papers \subseteq PapersOf(run.app)

\* Every variable keeps its shape: the portal, the run with its stages and what it has in
\* hand, the confirmation of units, the cooldown of anchors, the stored rows.
CouncilTypeOK ==
  /\ portal \in [up : BOOLEAN, broken : SUBSET Breakable, listed : SUBSET Filings]
  /\ unit \in [Apps -> Statuses] /\ wait \in [Anchors -> 0..Cooldown]
  /\ held \in Rows /\ disk \subseteq Papers
  /\ RunTypeOK
  /\ result \in {"none", "success", "partial", "failed"}
  /\ streak \in Nat /\ forgiven \in Nat

\* A run that reports success has done the work its health counts: the primary search,
\* every parent lookup, every listing of documents and every refresh, none failed and
\* none skipped because the circuit opened ("zero unresolved failures recorded",
\* classify).  It may have lost downloads, which no counter shows; what is not stored
\* then stays to be done ("remains eligible for recovery").
SuccessIsTruthful ==
  run.stage = "idle" /\ result = "success" =>
    missed = {} /\ \A p \in Papers \ held.papers : PaperOf[p] \notin held.documented

\* The circuit opens on failures of the host with no success among them, not on "3
\* failures accumulated anywhere during a long run" (record_success), unless the success
\* is one of the scrape, which records none: such failures are forgiven in the history,
\* and counted by the circuit, whatever months and stages they fall in.
OpensOnAStreak ==
  [][~run.breaker.open /\ run'.breaker.open =>
        streak' + forgiven' >= PORTAL_CIRCUIT_FAILURE_THRESHOLD]_vars

\* A filing that a search listed and the run could not fetch is searched for by
\* the next run ("a transient portal error should be retried next run, not
\* suppressed for 30 days like a genuine found nothing new").
ListedFilingIsRetried ==
  \A f \in seen \ held.filings : f \in run.rows \/ wait[Names[f]] = 0

\* An application becomes undetermined only when its papers were read and state no
\* count ("no unit count found in ... - flagged for manual review").
UndeterminedWasRead ==
  [][\A a \in Apps : unit'[a] = "undetermined" /\ unit[a] # "undetermined"
       => PapersOf(a) \subseteq disk]_vars

\* A published filing is found, by a later search if need be: the cooldown is
\* not a final exclusion.
FilingsAreFound == \A f \in Filings : f \in portal.listed ~> f \in held.filings

----------------------------------------------------------------------------
(* The invariants behind SuccessIsTruthful and OpensOnAStreak. *)

\* Until the first month is tried nothing is missed, and until it is stored the scrape
\* is not completed.
PrimaryIsFirst ==
  /\ run.stage = "scrape" /\ 1 \in run.left => missed = {}
  /\ run.stage = "scrape" /\ (1 \in run.left \/ run.month = 1) => ~run.health.completed
  /\ run.stage = "scrape" /\ SCRAPE \in missed => 1 \notin run.left /\ run.month # 1
  /\ run.stage = "scrape" /\ run.month # 0 => 1 \notin run.left

\* Whatever the run has missed so far shows in its health or has opened its circuit.
MissesShow ==
  run.stage # "idle" =>
    /\ run.health.attempted
    /\ missed # {} => \/ run.health.parents \/ run.health.documents \/ run.health.refresh
                      \/ run.breaker.open
                      \/ SCRAPE \in missed /\ ~run.health.completed

\* A stamp stands for every paper: the pass in hand is complete only while what is not
\* stored is fetched or still to fetch, and a circuit that opens in it leaves it
\* incomplete.
StampsStand ==
  /\ \A a \in held.documented : PapersOf(a) \subseteq held.papers
  /\ run.complete =>
       /\ run.stage = "documents" /\ run.app # 0 /\ ~run.breaker.open
       /\ PapersOf(run.app) \subseteq held.papers \cup run.got \cup run.papers

CouncilInv == CouncilTypeOK /\ PrimaryIsFirst /\ MissesShow /\ StampsStand /\ SuccessIsTruthful

\* What a closed circuit has counted is the streak and what was forgiven before it.
CountIsAStreak == ~run.breaker.open => run.breaker.failures <= streak + forgiven
=============================================================================
