--------------------------- MODULE EvaluationClaims ---------------------------
(***************************************************************************)
(* Paid evaluations of one (mandate, subject, acquisition type), from      *)
(* app/policy/agent_evaluation_persistence.py: the claim row taken before  *)
(* any provider call, the call itself (acquisition_evaluate), and the      *)
(* transaction that records history, claim and current position together. *)
(*                                                                         *)
(* Keys are the evaluation input fingerprints met over time: new facts     *)
(* about the subject give a new fingerprint, hence a claim row of its own, *)
(* while the current position is one row shared by all of them.  A step is *)
(* a statement at which another session's commit may intervene.  A claim   *)
(* transaction is short on the clock's scale: Tick waits for it.           *)
(***************************************************************************)
EXTENDS Integers, FiniteSets

CONSTANTS
  Workers,     \* processes that evaluate, each with a session of its own
  Keys,        \* evaluation input fingerprints
  Expiry,      \* CLAIM_EXPIRY_MINUTES, in ticks
  MaxLatency,  \* model bound: ticks an evaluation may last; the provider call has no limit
  MaxRuns,     \* model bound: claims taken per fingerprint
  MaxForces,   \* model bound: claims retaken with force=True
  MaxCrashes,  \* model bound: workers that die with a claim
  NoKey

ASSUME TimeAssumption == Expiry \in Nat /\ MaxLatency \in Nat
ASSUME BoundAssumption == MaxRuns \in Nat /\ MaxForces \in Nat /\ MaxCrashes \in Nat
ASSUME KeyAssumption == NoKey \notin Keys

Terminal   == {"completed", "failed"}
Statuses   == {"absent", "claimed"} \cup Terminal
Paying     == {"evaluating", "record", "inserted", "locked"}
Pcs        == {"idle", "insert", "reclaim", "retake"} \cup Paying
Results    == {"none", "completed", "failed"}

VARIABLES
  claims,    \* agent_evaluation_claims, one row per fingerprint
  history,   \* agent_evaluation_history: the committed rows
  current,   \* the current_buyer_opportunity_states row
  worker,    \* each worker's place and locals
  lastId,    \* sequence of the history table
  runs,      \* history: claims taken per fingerprint
  forced,    \* history: those retaken with force=True
  crashes,   \* history: workers that died
  late       \* history: fingerprints recorded by a worker whose claim had expired

vars == <<claims, history, current, worker, lastId, runs, forced, crashes, late>>

Claim   == [status : Statuses, age : 0 .. Expiry + 1, history : Nat]
Entry   == [id : Nat, key : Keys, result : Terminal]
Current == [present : BOOLEAN, history : Nat, key : Keys \cup {NoKey},
            lastId : Nat, lastResult : Results]
Worker  == [pc : Pcs, key : Keys \cup {NoKey}, seen : Statuses, elapsed : Nat, calls : 0 .. 2,
            result : Results, id : Nat, base : Current]

NoClaim   == [status |-> "absent", age |-> 0, history |-> 0]
NoCurrent == [present |-> FALSE, history |-> 0, key |-> NoKey, lastId |-> 0,
              lastResult |-> "none"]
Idle      == [pc |-> "idle", key |-> NoKey, seen |-> "absent", elapsed |-> 0, calls |-> 0,
              result |-> "none", id |-> 0, base |-> NoCurrent]

Init ==
  /\ claims = [k \in Keys |-> NoClaim]
  /\ history = {}
  /\ current = NoCurrent
  /\ worker = [w \in Workers |-> Idle]
  /\ lastId = 0
  /\ runs = [k \in Keys |-> 0]
  /\ forced = [k \in Keys |-> 0]
  /\ crashes = 0
  /\ late = {}

Goto(w, pc) == worker' = [worker EXCEPT ![w].pc = pc]
Leave(w)    == worker' = [worker EXCEPT ![w] = Idle]

-----------------------------------------------------------------------------
(* try_claim_evaluation: a read, then one guarded write that commits. *)

\* claimed_at < utcnow() - CLAIM_EXPIRY_MINUTES
Expired(k) == claims[k].age > Expiry

\* The select: another worker's fresh claim, and a settled one without force,
\* return to the caller with no state changed.
Look(w, k, force) ==
  /\ worker[w].pc = "idle"
  /\ runs[k] < MaxRuns
  /\ force => forced[k] < MaxForces
  /\ \E step \in {"insert", "reclaim", "retake"} :
       /\ step = "insert"  => claims[k].status = "absent"
       /\ step = "reclaim" => claims[k].status = "claimed" /\ Expired(k)
       /\ step = "retake"  => claims[k].status \in Terminal /\ force
       /\ worker' = [worker EXCEPT ![w] = [Idle EXCEPT !.pc = step, !.key = k,
                                                       !.seen = claims[k].status]]
  /\ UNCHANGED <<claims, history, current, lastId, runs, forced, crashes, late>>

WinsByStatus(w, k) ==
  LET pc == worker[w].pc
  IN  \/ pc = "insert" /\ claims[k].status = "absent"
      \/ pc = "reclaim" /\ claims[k].status = "claimed"
      \/ pc = "retake" /\ claims[k].status = worker[w].seen

\* The unique key of the insert, the WHERE of the two conditional updates.
Wins(w, k) ==
  LET pc == worker[w].pc
  IN  \/ pc = "insert" /\ claims[k].status = "absent"
      \/ pc = "reclaim" /\ claims[k].status = "claimed" /\ Expired(k)
      \/ pc = "retake" /\ claims[k].status = worker[w].seen

TakeClaim(w) ==
  LET k == worker[w].key
  IN  /\ worker[w].pc \in {"insert", "reclaim", "retake"}
      /\ Wins(w, k)
      /\ claims' = [claims EXCEPT ![k] = [NoClaim EXCEPT !.status = "claimed"]]
      /\ runs' = [runs EXCEPT ![k] = @ + 1]
      /\ forced' = [forced EXCEPT ![k] = IF worker[w].pc = "retake" THEN @ + 1 ELSE @]
      /\ Goto(w, "evaluating")
      /\ UNCHANGED <<history, current, lastId, crashes, late>>

\* IntegrityError on the insert, rowcount 0 on an update: already in progress.
LoseClaim(w) ==
  /\ worker[w].pc \in {"insert", "reclaim", "retake"}
  /\ ~Wins(w, worker[w].key)
  /\ Leave(w)
  /\ UNCHANGED <<claims, history, current, lastId, runs, forced, crashes, late>>

-----------------------------------------------------------------------------
(* evaluate(): no transaction is open.  At most one repair retry. *)

\* A type outside the mandate fails, a terminal exclusion succeeds: no call.
DecideWithoutCall(w, result) ==
  /\ worker[w].pc = "evaluating" /\ worker[w].calls = 0
  /\ worker' = [worker EXCEPT ![w].pc = "record", ![w].result = result]
  /\ UNCHANGED <<claims, history, current, lastId, runs, forced, crashes, late>>

CallProvider(w, valid) ==
  /\ worker[w].pc = "evaluating" /\ worker[w].calls < 2
  /\ worker' = [worker EXCEPT
       ![w].calls = @ + 1,
       ![w].pc = IF valid \/ worker[w].calls = 1 THEN "record" ELSE @,
       ![w].result = IF valid THEN "completed"
                     ELSE IF worker[w].calls = 1 THEN "failed" ELSE @]
  /\ UNCHANGED <<claims, history, current, lastId, runs, forced, crashes, late>>

-----------------------------------------------------------------------------
(* record_evaluation_outcome: one transaction, four statements. *)

\* session.flush(): the row gets its id and stays invisible.
InsertHistory(w) ==
  /\ worker[w].pc = "record"
  /\ lastId' = lastId + 1
  /\ worker' = [worker EXCEPT ![w].pc = "inserted", ![w].id = lastId + 1]
  /\ UNCHANGED <<claims, history, current, runs, forced, crashes, late>>

\* The autoflush writes the claim row, which stays locked until the commit,
\* then the current row is read without a lock.
ReadCurrent(w) ==
  /\ worker[w].pc = "inserted"
  /\ \A v \in Workers : worker[v].pc = "locked" => worker[v].key # worker[w].key
  /\ worker' = [worker EXCEPT ![w].pc = "locked", ![w].base = current]
  /\ UNCHANGED <<claims, history, current, lastId, runs, forced, crashes, late>>

\* What the row becomes.  The UPDATE carries only the columns whose value differs
\* from the one this session loaded; the timestamp and the id always do.
Updated(w) ==
  LET me == worker[w]
      changed(new, loaded, now) == IF new = loaded THEN now ELSE new
  IN  [present |-> TRUE,
       history |-> IF me.result = "completed" THEN me.id ELSE current.history,
       key |-> IF me.result = "completed" THEN changed(me.key, me.base.key, current.key)
               ELSE current.key,
       lastId |-> me.id,
       lastResult |-> changed(me.result, me.base.lastResult, current.lastResult)]

Settled(w) == [claims[worker[w].key] EXCEPT !.status = worker[w].result,
                                            !.history = worker[w].id]

\* Two first recorders of a subject collide on the unique key of the current row.
Collides(w) == ~worker[w].base.present /\ current.present

Commit(w) ==
  LET me == worker[w]
  IN  /\ me.pc = "locked" /\ ~Collides(w)
      /\ history' = history \cup {[id |-> me.id, key |-> me.key, result |-> me.result]}
      /\ claims' = [claims EXCEPT ![me.key] = Settled(w)]
      /\ current' = Updated(w)
      /\ Leave(w)
      /\ late' = IF me.elapsed > Expiry THEN late \cup {me.key} ELSE late
      /\ UNCHANGED <<lastId, runs, forced, crashes>>

\* IntegrityError: the whole transaction is undone and the exception leaves
\* run_persisted_evaluation; the claim stays taken.
RollBack(w) ==
  /\ worker[w].pc = "locked" /\ Collides(w)
  /\ Leave(w)
  /\ UNCHANGED <<claims, history, current, lastId, runs, forced, crashes, late>>

\* The process dies, or an exception escapes, anywhere after the claim.
Crash(w) ==
  /\ worker[w].pc \in Paying
  /\ crashes < MaxCrashes
  /\ crashes' = crashes + 1
  /\ Leave(w)
  /\ UNCHANGED <<claims, history, current, lastId, runs, forced, late>>

-----------------------------------------------------------------------------
\* One tick of utcnow().
Tick ==
  /\ \A w \in Workers : /\ worker[w].pc \notin {"insert", "reclaim", "retake"}
                        /\ worker[w].pc \in Paying => worker[w].elapsed < MaxLatency
  /\ \E k \in Keys : claims[k].status = "claimed" /\ claims[k].age <= Expiry
  /\ claims' = [k \in Keys |->
       IF claims[k].status = "claimed" /\ claims[k].age <= Expiry
       THEN [claims[k] EXCEPT !.age = @ + 1] ELSE claims[k]]
  /\ worker' = [w \in Workers |-> IF worker[w].pc \in Paying
                                  THEN [worker[w] EXCEPT !.elapsed = @ + 1] ELSE worker[w]]
  /\ UNCHANGED <<history, current, lastId, runs, forced, crashes, late>>

Next ==
  \/ \E w \in Workers, k \in Keys, force \in BOOLEAN : Look(w, k, force)
  \/ \E w \in Workers : TakeClaim(w)
  \/ \E w \in Workers : LoseClaim(w)
  \/ \E w \in Workers, result \in Terminal : DecideWithoutCall(w, result)
  \/ \E w \in Workers, valid \in BOOLEAN : CallProvider(w, valid)
  \/ \E w \in Workers : InsertHistory(w)
  \/ \E w \in Workers : ReadCurrent(w)
  \/ \E w \in Workers : Commit(w)
  \/ \E w \in Workers : RollBack(w)
  \/ \E w \in Workers : Crash(w)
  \/ Tick

Spec == Init /\ [][Next]_vars
=============================================================================
