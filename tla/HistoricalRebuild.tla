---------------------------- MODULE HistoricalRebuild ----------------------------
(***************************************************************************)
(* The one-off rebuild of existing intelligence: the batches of            *)
(* app/extraction/historical_rebuild.py and the unattended job around them *)
(* (scripts/run_historical_rebuild_to_completion.py), which runs until     *)
(* nothing is left or it judges that something is systemically wrong.      *)
(* What one refresh stores is in AffordablePosition; here it is an outcome.*)
(***************************************************************************)
EXTENDS Naturals, Sequences, FiniteSets, SequencesExt

CONSTANTS
  Apps,         \* applications with a SchemeIntelligence row, the last seen first
  Faulty,       \* those whose refresh always fails
  Narrow,       \* those with an evidence_refresh_reason
  Late,         \* those whose documents may still be missing
  BatchSize,    \* candidates in a batch (25)
  MaxBatches,   \* batches of one run (60)
  StopAfter,    \* CONSECUTIVE_SYSTEMIC_FAILURE_STOP (3)
  RateMin,      \* BATCH_FAILURE_RATE_MIN_ATTEMPTED (5)
  RateStop,     \* 1 / BATCH_FAILURE_RATE_STOP (5)
  MaxFaults,    \* model bound: refreshes that fail for a while, and batches that raise
  MaxKills      \* model bound: runs that are killed

ASSUME RebuildAssumption ==
  /\ Apps \subseteq Nat /\ Faulty \cup Narrow \cup Late \subseteq Apps
  /\ {BatchSize, MaxBatches, RateMin, RateStop} \subseteq Nat \ {0}
  /\ StopAfter \in Nat \ {0, 1} /\ RateStop <= RateMin
  /\ {MaxFaults, MaxKills} \subseteq Nat

Categories == {"decision_notice", "planning_statement"}
NO_PROGRESS_MIN_ATTEMPTED == 2

VARIABLES
  docs,     \* categories of the readable documents in the family of each application
  rebuilt,  \* applications with intelligence_rebuild_version = REBUILD_VERSION
  run,      \* the job
  failures, \* failures in a row when the batch began
  spent,    \* what has been used of the model bounds
  paid,     \* history: answers of the provider about each application
  lost      \* history: those of them that were not stored

rebuildVars == <<docs, rebuilt, run, failures, spent, paid, lost>>

\* answer: whose answer the process holds; usable: what the first use of the cache found;
\* before: rebuilt when the batch began.
NotRunning(why) ==
  [stage |-> "idle", stopped |-> why, batch |-> 0, todo |-> {}, answer |-> {},
   results |-> <<>>, usable |-> {}, before |-> {}]

RebuildInit ==
  /\ docs \in [Apps -> SUBSET Categories] /\ \A a \in Apps \ Late : docs[a] = Categories
  /\ rebuilt = {} /\ run = NotRunning("never_run") /\ failures = 0
  /\ spent = [faults |-> 0, kills |-> 0] /\ paid = [a \in Apps |-> 0] /\ lost = paid

(***************************************************************************)
(* Candidates: select_historical_rebuild_candidates and the counts before, *)
(* which fill the family-evidence cache of the batch.                      *)
(***************************************************************************)
_family_has_usable_evidence(a) == docs[a] # {}

_not_yet_rebuilt == Apps \ rebuilt

Usable == {a \in Apps : _family_has_usable_evidence(a)}

FirstOf(S) == {a \in S : Cardinality({b \in S : b < a}) < BatchSize}

StartRun ==
  /\ run.stage = "idle" /\ run.stopped # "completed"
  /\ run' = [NotRunning("running") EXCEPT !.stage = "between"] /\ failures' = 0
  /\ UNCHANGED <<docs, rebuilt, spent, paid, lost>>

StartBatch ==
  /\ run.stage = "between" /\ run.batch < MaxBatches
  /\ run' = [run EXCEPT !.stage = "batch", !.batch = @ + 1, !.results = <<>>,
                        !.todo = FirstOf(_not_yet_rebuilt \cap Usable),
                        !.usable = Usable, !.before = rebuilt]
  /\ UNCHANGED <<docs, rebuilt, failures, spent, paid, lost>>

\* An answer in the hands of the process is gone; a fault or a kill is used up.
AnswerIsLost == lost' = [a \in Apps |-> IF a \in run.answer THEN lost[a] + 1 ELSE lost[a]]
OneMore(what) == spent' = [spent EXCEPT ![what] = @ + 1]

\* A statement outside the candidates raises, or the rollback after a failed commit.
BatchRaises ==
  /\ run.stage \in {"between", "batch"} /\ spent.faults < MaxFaults
  /\ OneMore("faults") /\ AnswerIsLost
  /\ run' = NotRunning("systemic_exception")
  /\ UNCHANGED <<docs, rebuilt, failures, paid>>

(***************************************************************************)
(* One candidate: the provider answers, and the answer is stored in a      *)
(* commit of its own, with the marker.  Anything may happen in between.    *)
(***************************************************************************)
DocTypesFor(a) == IF a \in Narrow THEN {"planning_statement"} ELSE Categories
NoText(a) == docs[a] \cap DocTypesFor(a) = {}

Processed(a, outcome) ==
  run' = [run EXCEPT !.todo = @ \ {a}, !.answer = {}, !.results = Append(@, outcome)]

HasNoText(a) ==
  /\ run.answer = {} /\ NoText(a) /\ Processed(a, "no_usable_text")
  /\ UNCHANGED <<docs, rebuilt, failures, spent, paid, lost>>

Answered(a) ==
  /\ run.answer = {} /\ ~NoText(a) /\ a \notin Faulty
  /\ paid' = [paid EXCEPT ![a] = @ + 1] /\ run' = [run EXCEPT !.answer = {a}]
  /\ UNCHANGED <<docs, rebuilt, failures, spent, lost>>

\* ai_error and error: no answer comes.
Unanswered(a) ==
  /\ run.answer = {} /\ ~NoText(a) /\ Processed(a, "failed")
  /\ \/ a \in Faulty /\ UNCHANGED spent
     \/ spent.faults < MaxFaults /\ OneMore("faults")
  /\ UNCHANGED <<docs, rebuilt, failures, paid, lost>>

\* Mutant of Stored: the marker would need a commit of its own, which a fault prevents.
StoredUnmarked(a) ==
  /\ a \in run.answer
  /\ \/ Processed(a, "success") /\ rebuilt' = rebuilt \cup {a} /\ UNCHANGED spent
     \/ /\ Processed(a, "failed") /\ UNCHANGED rebuilt
        /\ spent.faults < MaxFaults /\ OneMore("faults")
  /\ UNCHANGED <<docs, failures, paid, lost>>

\* The commit returns, or raises although the database has it.
Stored(a) ==
  /\ a \in run.answer /\ rebuilt' = rebuilt \cup {a}
  /\ \/ Processed(a, "success") /\ UNCHANGED spent
     \/ Processed(a, "failed") /\ spent.faults < MaxFaults /\ OneMore("faults")
  /\ UNCHANGED <<docs, failures, paid, lost>>

\* invalid_output, a site summary that fails, and a commit that fails.
NotStored(a) ==
  /\ a \in run.answer /\ spent.faults < MaxFaults
  /\ OneMore("faults") /\ AnswerIsLost /\ Processed(a, "failed")
  /\ UNCHANGED <<docs, rebuilt, failures, paid>>

Candidate ==
  /\ run.stage = "batch"
  /\ \E a \in run.todo :
       /\ \A b \in run.todo : a <= b
       /\ HasNoText(a) \/ Answered(a) \/ Unanswered(a) \/ Stored(a) \/ NotStored(a)

(***************************************************************************)
(* After the batch: the rules of run_to_completion, in their order.        *)
(***************************************************************************)
\* Failures in a row when the batch has been read, StopAfter as soon as it is reached.
InARow(results, n) ==
  FoldLeft(LAMBDA k, r : IF k = StopAfter THEN k ELSE IF r = "failed" THEN k + 1 ELSE 0, n, results)

Attempted   == Len(run.results)
FailedCount == Cardinality({i \in DOMAIN run.results : run.results[i] = "failed"})
remaining_rebuildable_after == run.usable \ rebuilt

\* Mutant of StopReason: a batch that is not full was the last.
ShortBatchIsTheLast ==
  IF Attempted < BatchSize THEN "completed"
  ELSE IF InARow(run.results, failures) = StopAfter THEN "consecutive_systemic_failures"
  ELSE "none"

StopReason ==
  CASE InARow(run.results, failures) = StopAfter        -> "consecutive_systemic_failures"
    [] OTHER ->
  CASE Attempted = 0                                        -> "completed"
    [] Attempted >= RateMin /\ FailedCount * RateStop > Attempted  -> "batch_failure_rate"
    [] OTHER ->
  CASE Attempted >= NO_PROGRESS_MIN_ATTEMPTED /\ rebuilt = run.before -> "no_forward_progress"
    [] OTHER -> IF remaining_rebuildable_after = {} THEN "completed" ELSE "none"

EndBatch ==
  /\ run.stage = "batch" /\ run.todo = {} /\ failures' = InARow(run.results, failures)
  /\ run' = IF StopReason = "none"
            THEN [run EXCEPT !.stage = "between"]
            ELSE [NotRunning(StopReason) EXCEPT !.usable = run.usable, !.results = run.results]
  /\ UNCHANGED <<docs, rebuilt, spent, paid, lost>>

OutOfBatches ==
  /\ run.stage = "between" /\ run.batch = MaxBatches
  /\ run' = NotRunning("max_batches_exceeded")
  /\ UNCHANGED <<docs, rebuilt, failures, spent, paid, lost>>

(***************************************************************************)
(* The job is killed; the daily runs store documents meanwhile.            *)
(***************************************************************************)
Kill ==
  /\ run.stage # "idle" /\ spent.kills < MaxKills
  /\ OneMore("kills") /\ AnswerIsLost
  /\ run' = NotRunning("killed") /\ UNCHANGED <<docs, rebuilt, failures, paid>>

DocumentArrives(a, c) ==
  /\ c \notin docs[a]
  /\ docs' = [docs EXCEPT ![a] = @ \cup {c}] /\ UNCHANGED <<rebuilt, run, failures, spent, paid, lost>>

RunStep == StartBatch \/ Candidate \/ EndBatch \/ OutOfBatches

RebuildNext ==
  \/ StartRun \/ RunStep \/ BatchRaises \/ Kill
  \/ \E a \in Apps, c \in Categories : DocumentArrives(a, c)

RebuildSpec == RebuildInit /\ [][RebuildNext]_rebuildVars

(***************************************************************************)
(* Properties.                                                             *)
(***************************************************************************)
\* The job reports "completed" only when every application that had a readable document
\* as its last batch began is rebuilt, whatever failed, arrived or was killed before.
CompletedMeansNoneLeft == run.stopped = "completed" => run.usable \subseteq rebuilt

\* An application is paid for a second time only when what was paid for before was lost: its
\* output was refused, its commit failed, or the run ended with the answer in hand.  Once it
\* is stored no run pays for it again under this version
\* (test_restart_resumes_remaining_backlog_without_reprocessing).
PaidAgainOnlyIfLost == \A a \in Apps : paid[a] <= lost[a] + 1

GaveUp == {"consecutive_systemic_failures", "batch_failure_rate", "no_forward_progress"}

\* The job gives up only on more than one attempt that went wrong, in a row or in one batch:
\* a single failure never looks like a systemic one (docstring of
\* run_historical_rebuild_to_completion).
GivesUpOnMoreThanOne ==
  run.stopped \in GaveUp =>
    failures >= 2 \/ Cardinality({i \in DOMAIN run.results : run.results[i] # "success"}) >= 2

\* What the unattended rebuild says of itself.
RebuildKeepsItsWord == CompletedMeansNoneLeft /\ PaidAgainOnlyIfLost /\ GivesUpOnMoreThanOne

\* A candidate was selected because its refresh finds a document: it never ends as
\* no_usable_text (docstring of _family_has_usable_evidence).
CandidateHasText ==
  run.stage = "batch" => \A i \in DOMAIN run.results : run.results[i] # "no_usable_text"

(***************************************************************************)
(* Why the rebuild is complete and paid for once.                          *)
(***************************************************************************)
StopReasons ==
  GaveUp \cup {"never_run", "running", "killed", "systemic_exception", "max_batches_exceeded",
               "completed"}
Outcomes == {"success", "no_usable_text", "failed"}

RunState ==
  [stage : {"idle", "between", "batch"}, stopped : StopReasons, batch : 0..MaxBatches,
   todo : SUBSET Apps, answer : SUBSET Apps, results : Seq(Outcomes),
   usable : SUBSET Apps, before : SUBSET Apps]

\* Every variable but failures, which a fold counts, keeps its shape.
RebuildTypeOK ==
  /\ docs \in [Apps -> SUBSET Categories] /\ rebuilt \subseteq Apps
  /\ paid \in [Apps -> Nat] /\ lost \in [Apps -> Nat]
  /\ spent \in [faults : Nat, kills : Nat] /\ run \in RunState

\* What was paid for is marked, held by the process, or lost.
PaidIsMarked ==
  \A a \in Apps : paid[a] = lost[a] + (IF a \in rebuilt \cup run.answer THEN 1 ELSE 0)

\* A batch of a running job is of applications not yet rebuilt, and an empty one finds none.
BatchIsOfTheRest ==
  /\ run.stage # "idle" => run.stopped = "running"
  /\ run.answer \subseteq run.todo /\ (run.stage # "batch" => run.answer = {})
  /\ \A a, b \in run.answer : a = b
  /\ run.todo \cap rebuilt = {}
  /\ run.stage = "batch" /\ run.todo = {} /\ Len(run.results) = 0
       => run.usable \subseteq rebuilt

\* A success in a batch is something rebuilt since it began.
SuccessIsProgress ==
  run.stage = "batch" =>
    /\ run.before \subseteq rebuilt
    /\ (\E i \in DOMAIN run.results : run.results[i] = "success") => rebuilt # run.before

RebuildInv ==
  /\ RebuildTypeOK /\ PaidIsMarked /\ BatchIsOfTheRest /\ SuccessIsProgress
  /\ CompletedMeansNoneLeft /\ GivesUpOnMoreThanOne
=============================================================================
