------------------------------ MODULE DailyCouncils ------------------------------
(***************************************************************************)
(* The daily job over all councils (scripts/run_daily_councils.py): one    *)
(* subprocess a council, its streamed output, the timer that kills it, the *)
(* ScrapeRun row, the exit code.  What a subprocess does is in CouncilRun; *)
(* here it prints, exits, crashes or hangs.                                *)
(*                                                                         *)
(* All councils share one database session.  A statement that fails in it  *)
(* leaves it refusing everything until rollback(), which is never called;  *)
(* only a connection that could not be opened leaves nothing behind.       *)
(***************************************************************************)
EXTENDS Integers, FiniteSets

CONSTANTS
  Councils,   \* 1..n, in the order they are run
  MaxErrors,  \* model bound: database errors
  MaxKills    \* model bound: kills of the whole job

\* What is assumed of the constants; the module of a run states it as an ASSUME.
DailyAssumption ==
  /\ IsFiniteSet(Councils) /\ Councils = 1..Cardinality(Councils)
  /\ {MaxErrors, MaxKills} \subseteq Nat

VARIABLES
  job,      \* the orchestrator: pc, council, whether the session still works
  child,    \* subprocesses: none, or whether alive, holding the pipe, and the exit code
  timer,    \* off, armed, or fired (timed_out is set)
  said,     \* run_health: the status the council's run has printed
  stored,   \* the status of each council's last ScrapeRun row
  results,  \* councils counted so far, by status
  exit,     \* exit code of the last invocation
  faults,   \* history: councils during which the database failed
  jobSpent     \* what has been used of the model bounds

jobVars == <<job, child, timer, said, stored, results, exit, faults, jobSpent>>

Healthy == {"success", "partial"}
NoChild == [alive |-> FALSE, pipe |-> FALSE, code |-> 0]
Idle    == [pc |-> "idle", council |-> 0, session |-> TRUE]
Current == job.council
NONE    == "none"
UNSET   == -1

JobInit ==
  /\ job = Idle /\ child = [c \in Councils |-> NoChild] /\ timer = "off"
  /\ said = NONE /\ stored = [c \in Councils |-> NONE]
  /\ results = [s \in {"success", "partial", "failed"} |-> {}]
  /\ exit = UNSET /\ faults = {} /\ jobSpent = [errors |-> 0, kills |-> 0]

\* A database error; sticky when it happened inside a transaction.
Errs(sticky) ==
  /\ jobSpent.errors < MaxErrors /\ jobSpent' = [jobSpent EXCEPT !.errors = @ + 1]
  /\ faults' = faults \cup {Current}

\* What main's handler leaves: the next council, on the same session.
AfterError(sticky) == [pc |-> "next", council |-> Current, session |-> ~sticky]

(***************************************************************************)
(* main and run_one_council.                                               *)
(***************************************************************************)
StartJob ==
  /\ job.pc = "idle" /\ job' = [pc |-> "next", council |-> 0, session |-> TRUE]
  /\ results' = [s \in DOMAIN results |-> {}] /\ faults' = {} /\ exit' = UNSET
  /\ UNCHANGED <<child, timer, said, stored, jobSpent>>

\* A session that was not rolled back refuses the first count of the next run.
SkipCouncil ==
  /\ job.pc = "next" /\ Current + 1 \in Councils /\ ~job.session
  /\ job' = [job EXCEPT !.council = @ + 1]
  /\ UNCHANGED <<child, timer, said, stored, results, exit, faults, jobSpent>>

StartCouncil ==
  /\ job.pc = "next" /\ Current + 1 \in Councils /\ job.session
  /\ job' = [job EXCEPT !.pc = "starting", !.council = @ + 1]
  /\ UNCHANGED <<child, timer, said, stored, results, exit, faults, jobSpent>>

\* The row is committed before the subprocess starts, the timer after.
Spawn ==
  /\ job.pc = "starting"
  /\ stored' = [stored EXCEPT ![Current] = "running"]
  /\ child' = [child EXCEPT ![Current] = [alive |-> TRUE, pipe |-> TRUE, code |-> 0]]
  /\ timer' = "armed" /\ said' = NONE
  /\ job' = [job EXCEPT !.pc = "reading"]
  /\ UNCHANGED <<results, exit, faults, jobSpent>>

\* The count or the insert fails.
SpawnFails(sticky) ==
  /\ job.pc = "starting" /\ Errs(sticky) /\ job' = AfterError(sticky)
  /\ UNCHANGED <<child, timer, said, stored, results, exit>>

\* The commit of a memory line fails in the middle of the output: the reading
\* loop and its timer end, the subprocess does not.
LineFails ==
  /\ job.pc = "reading" /\ child[Current].alive /\ Errs(TRUE)
  /\ timer' = "off" /\ job' = AfterError(TRUE)
  /\ UNCHANGED <<child, said, stored, results, exit>>

\* All output is read and the subprocess has been waited for.
EndOfOutput ==
  /\ job.pc = "reading" /\ ~child[Current].pipe /\ ~child[Current].alive
  /\ job' = [job EXCEPT !.pc = "waited"]
  /\ UNCHANGED <<child, timer, said, stored, results, exit, faults, jobSpent>>

\* A crash or a timeout is a failure whatever the run said before.
StatusOf ==
  IF timer = "fired" \/ child[Current].code # 0 THEN "failed"
  ELSE IF said # NONE THEN said ELSE "success"

RecordCouncil ==
  /\ job.pc = "waited"
  /\ stored' = [stored EXCEPT ![Current] = StatusOf]
  /\ results' = [results EXCEPT ![StatusOf] = @ \cup {Current}]
  /\ timer' = "off" /\ job' = [job EXCEPT !.pc = "next"]
  /\ UNCHANGED <<child, said, exit, faults, jobSpent>>

RecordFails(sticky) ==
  /\ job.pc = "waited" /\ Errs(sticky)
  /\ timer' = "off" /\ job' = AfterError(sticky)
  /\ UNCHANGED <<child, said, stored, results, exit>>

\* Mutant of _exit_code: councils that were skipped are not counted.
RecordedOnly ==
  IF results["failed"] = {} THEN 0 ELSE 1

_exit_code ==
  IF Cardinality(results["success"]) + Cardinality(results["partial"]) = Cardinality(Councils)
  THEN 0 ELSE 1

\* The container ends with the job, and with it whatever still runs in it.
EndJob ==
  /\ job.pc = "next" /\ Current + 1 \notin Councils
  /\ exit' = _exit_code /\ job' = Idle
  /\ child' = [c \in Councils |-> NoChild]
  /\ UNCHANGED <<timer, said, stored, results, faults, jobSpent>>

\* The container is killed: nothing more is written.
ContainerKilled ==
  /\ job.pc # "idle" /\ jobSpent.kills < MaxKills /\ jobSpent' = [jobSpent EXCEPT !.kills = @ + 1]
  /\ job' = Idle /\ timer' = "off" /\ child' = [c \in Councils |-> NoChild]
  /\ UNCHANGED <<said, stored, results, exit, faults>>

(***************************************************************************)
(* The subprocess and the timer.                                           *)
(***************************************************************************)
\* The health line, the last thing a run prints.
Says(s) ==
  /\ job.pc = "reading" /\ child[Current].alive /\ said = NONE /\ said' = s
  /\ UNCHANGED <<job, child, timer, stored, results, exit, faults, jobSpent>>

\* It exits or crashes; a browser it leaves behind still holds the pipe.  An
\* orphan dies of its next line, as nobody reads it.
Exits(c, code, pipe) ==
  /\ child[c].alive
  /\ child' = [child EXCEPT ![c] = [alive |-> FALSE, pipe |-> pipe, code |-> code]]
  /\ UNCHANGED <<job, timer, said, stored, results, exit, faults, jobSpent>>

\* Mutant of Killing: the tracked process only.
KillingOne == [child[Current] EXCEPT !.alive = FALSE]

\* _kill_process_tree: the whole group, browser and all; an exit code that was
\* there already stays.
Killing ==
  [alive |-> FALSE, pipe |-> FALSE, code |-> IF child[Current].alive THEN -9 ELSE child[Current].code]

_on_timeout ==
  /\ timer = "armed" /\ timer' = "fired"
  /\ child' = [child EXCEPT ![Current] = Killing]
  /\ UNCHANGED <<job, said, stored, results, exit, faults, jobSpent>>

JobStep ==
  \/ StartJob \/ SkipCouncil \/ StartCouncil \/ Spawn \/ EndOfOutput \/ RecordCouncil \/ EndJob

JobNext ==
  \/ JobStep \/ _on_timeout \/ ContainerKilled \/ LineFails
  \/ \E sticky \in BOOLEAN : SpawnFails(sticky) \/ RecordFails(sticky)
  \/ \E s \in {"success", "partial", "failed"} : Says(s)
  \/ \E c \in Councils, code \in {0, 1}, pipe \in BOOLEAN : Exits(c, code, pipe)

JobSpec == JobInit /\ [][JobNext]_jobVars

\* The job is scheduled daily and goes on, and timers fire.  Nothing is assumed
\* of the subprocesses, which may hang or leave browsers behind.
JobFairSpec == JobSpec /\ WF_jobVars(JobStep) /\ WF_jobVars(_on_timeout)

(***************************************************************************)
(* Properties.                                                             *)
(***************************************************************************)
RunStatuses == {"success", "partial", "failed"}
Children    == [alive : BOOLEAN, pipe : BOOLEAN, code : {0, 1, -9}]

\* Every variable keeps its shape: a council is in hand from its start to its record,
\* and the timer runs while output is read or waited for.
DailyTypeOK ==
  /\ job \in [pc : {"idle", "next", "starting", "reading", "waited"},
              council : Councils \cup {0}, session : BOOLEAN]
  /\ job.pc \in {"starting", "reading", "waited"} => Current \in Councils
  /\ child \in [Councils -> Children] /\ said \in RunStatuses \cup {NONE}
  /\ timer \in {"off", "armed", "fired"} /\ (timer = "off" <=> job.pc \notin {"reading", "waited"})
  /\ stored \in [Councils -> RunStatuses \cup {NONE, "running"}]
  /\ results \in [RunStatuses -> SUBSET Councils]
  /\ exit \in {UNSET, 0, 1}

\* Exit code 0 means that every council has a healthy row: skipped councils and
\* lost rows count against it (_exit_code).
ExitZeroMeansHealthy == exit = 0 => \A c \in Councils : stored[c] \in Healthy

\* A council is left out only for an error of its own ("one council's
\* bookkeeping failure must not stop the rest", main).
LeftOutForItsOwnError ==
  exit # UNSET => \A c \in Councils \ faults : \E s \in DOMAIN results : c \in results[s]

\* The job ends every day, whatever its subprocesses do ("a genuinely stuck run
\* should not block the next council forever").
JobEnds == []<>(job.pc = "idle")

----------------------------------------------------------------------------
(* The inductive invariant behind ExitZeroMeansHealthy. *)

\* What is counted of a council is what its row says.
CountsAreRows == \A s \in RunStatuses : \A c \in results[s] : stored[c] = s

\* Councils are counted in their order, so none that is still to come, or in hand, has been.
CountsAreBehind ==
  \A s \in RunStatuses : \A c \in results[s] :
    /\ job.pc = "next" => c <= Current
    /\ job.pc \in {"starting", "reading", "waited"} => c < Current

\* An exit code is that of a job that has ended.
ExitIsFinal == exit = 0 => job.pc = "idle"

DailyInv ==
  /\ DailyTypeOK
  /\ CountsAreRows
  /\ CountsAreBehind
  /\ ExitIsFinal
  /\ ExitZeroMeansHealthy
=============================================================================
