------------------------------- MODULE Ledger -------------------------------
(***************************************************************************)
(* The durable work ledger of app/ingestion/ledger.py: work items with     *)
(* leases and fences, finite authority grants, per-council cooldowns and   *)
(* one global stop.  Every method of class Ledger runs inside Ledger.tx,   *)
(* which takes the control row's lock first, so one method is one atomic   *)
(* step; fenced_effect is the exception (an external writer commits on its *)
(* own connection and a second transaction reports an uncertain result).   *)
(*                                                                         *)
(* A Claim is the triple the code hands out.  Callers keep claims for as   *)
(* long as they like, so any claim ever issued may be used at any time:    *)
(* a delayed, duplicated or stale call is just a step with an old claim.   *)
(***************************************************************************)
EXTENDS Integers, FiniteSets

CONSTANTS
  Keys,             \* work keys: digests of (subject, task, contract, revision)
  Identity,         \* what a key is the digest of: [task, kind, council, contract]
  Owners,           \* worker identities
  Authorities,      \* names under which grants are registered
  Councils,
  Contracts,
  Evidence,         \* receipts a caller may store as a checkpoint
  ClosedEvidence,   \* those that prove cleanup CLOSED, accounting and outer bounds
  None,             \* the null of owner, authority and checkpoint
  EnqueueRequests,  \* argument tuples of enqueue
  GrantRequests,    \* argument tuples of grant
  Leases,           \* lease_seconds arguments
  Delays,           \* delay arguments of finish
  Cooldowns,        \* council_defer_seconds arguments; 0 is no deferral
  MaxTries,         \* CHECK (max_attempts BETWEEN 1 AND 3) of the table
  RowCap,           \* row ceiling of the work table, without the control row
  AttemptCap,       \* row ceiling of the attempt table
  GrantCap,         \* registered grants at most
  MaxClock          \* model bound on the clock

Tasks      == {"DISCOVERY", "LISTING_METADATA", "SCREENING", "FACTUAL_REFRESH"}
Blocked    == {"UNSUPPORTED_CONTRACT", "SAFETY_BLOCKED", "PERSISTENCE_UNCERTAIN"}
Claimable  == {"QUEUED", "DEFERRED"}
Outcomes   == {"COMPLETE", "DEFERRED"} \cup Blocked
States     == {"ABSENT", "CLAIMED", "COMPLETE"} \cup Claimable \cup Blocked
Intents    == {"SOURCE_INTENT", "WRITE_INTENT"}
Phases     == {"IDLE", "CLAIMED", "CHECKPOINTED", "FINISHED", "RECOVERED"} \cup Intents
Operations == {"source_calls", "writes"}
Fences     == 1 .. 2 * MaxTries
Receipts   == Evidence \cup {None}

Requests == [key : Keys, deps : SUBSET Keys, limits : {"DEFAULT", "REDUCED"},
             maxAttempts : 1 .. MaxTries, priority : 0 .. 100, eligibleAt : Nat,
             state : Claimable \cup Blocked]

Claims == [key : Keys, fence : Fences, owner : Owners]

Row == [state : States, phase : Phases, fence : Nat, owner : Owners \cup {None},
        authority : Authorities \cup {None}, leaseUntil : Nat, tries : Nat,
        eligibleAt : Nat, checkpoint : Receipts, deps : SUBSET Keys,
        maxAttempts : 1 .. MaxTries, limits : {"DEFAULT", "REDUCED"},
        priority : 0 .. 100]

Attempt == [owner : Owners \cup {None}, phase : Phases, checkpoint : Receipts,
            open : BOOLEAN]

Grant == [keys : SUBSET Keys, contracts : SUBSET Contracts, expiresAt : Nat,
          detailKeys : SUBSET Keys, left : [Operations -> Nat]]

ASSUME IdentityAssumption ==
  Identity \in [Keys -> [task : Tasks, kind : {"DISCOVERY_SCOPE", "APPLICATION", "SCHEME"},
                         council : Councils, contract : Contracts]]
ASSUME EvidenceAssumption ==
  /\ ClosedEvidence \subseteq Evidence
  /\ None \notin Evidence
  /\ None \notin Owners
ASSUME RequestAssumption ==
  /\ EnqueueRequests \subseteq Requests
  /\ \A r \in EnqueueRequests :
       Identity[r.key].kind = "DISCOVERY_SCOPE"
         => Identity[r.key].task \in {"DISCOVERY", "LISTING_METADATA"}
  /\ GrantRequests \subseteq [authority : Authorities, grant : Grant]
  /\ \A q \in GrantRequests :
       q.grant.keys # {} /\ q.grant.detailKeys \subseteq q.grant.keys
ASSUME BoundAssumption ==
  /\ Leases \subseteq Nat \ {0}
  /\ Delays \subseteq Nat
  /\ Cooldowns \subseteq Nat
  /\ MaxTries \in Nat \ {0}
  /\ RowCap \in Nat /\ AttemptCap \in Nat /\ GrantCap \in Nat /\ MaxClock \in Nat

VARIABLES
  clock,          \* self.clock()
  stopped,        \* control outcome global_stop is set
  deferredUntil,  \* control outcome council_deferred_until, 0 when unset
  grants,         \* control outcome grants
  rows,           \* work table
  attempts,       \* attempt table, one row per (work_key, fence)
  uncertain,      \* claims whose fenced_effect raised after entering the writer
  calls,          \* history: source intents granted per item
  paid,           \* history: write allowance spent per item
  written,        \* history: commits of the external writer per item
  known           \* history: those whose read-back reached the checkpoint

control == <<stopped, deferredUntil, grants>>
history == <<calls, paid, written, known>>
vars    == <<clock, stopped, deferredUntil, grants, rows, attempts, uncertain,
             calls, paid, written, known>>

NoGrant   == [keys |-> {}, contracts |-> {}, expiresAt |-> 0, detailKeys |-> {},
              left |-> [op \in Operations |-> 0]]
NoRow     == [state |-> "ABSENT", phase |-> "IDLE", fence |-> 0, owner |-> None,
              authority |-> None, leaseUntil |-> 0, tries |-> 0, eligibleAt |-> 0,
              checkpoint |-> None, deps |-> {}, maxAttempts |-> 1,
              limits |-> "DEFAULT", priority |-> 0]
NoAttempt == [owner |-> None, phase |-> "IDLE", checkpoint |-> None, open |-> FALSE]

\* schema.install: a control row with no stop and no grants, no work.
Init ==
  /\ clock = 0
  /\ stopped = FALSE
  /\ deferredUntil = [l \in Councils |-> 0]
  /\ grants = [a \in Authorities |-> NoGrant]
  /\ rows = [k \in Keys |-> NoRow]
  /\ attempts = [k \in Keys |-> [f \in Fences |-> NoAttempt]]
  /\ uncertain = {}
  /\ calls = [k \in Keys |-> 0]
  /\ paid = [k \in Keys |-> 0]
  /\ written = [k \in Keys |-> 0]
  /\ known = [k \in Keys |-> 0]

-----------------------------------------------------------------------------
(* State predicates: what the transactions read before they decide. *)

Exists(k)     == rows[k].state # "ABSENT"
Registered(a) == grants[a].keys # {}
Enqueued      == {k \in Keys : Exists(k)}
Logged        == {x \in Keys \X Fences : attempts[x[1]][x[2]].owner # None}
ClaimAt(x)    == [key |-> x[1], fence |-> x[2], owner |-> attempts[x[1]][x[2]].owner]
Issued        == {ClaimAt(x) : x \in Logged}
RowOf(c)      == rows[c.key]
AttemptOf(c)  == attempts[c.key][c.fence]

\* The two tables' UPDATE statements, by primary key.
PutRow(k, row)        == rows' = [rows EXCEPT ![k] = row]
PutAttempt(k, f, row) == attempts' = [attempts EXCEPT ![k][f] = row]

IsScopeTask(k) ==
  /\ Identity[k].task \in {"DISCOVERY", "LISTING_METADATA"}
  /\ Identity[k].kind = "DISCOVERY_SCOPE"

CouncilDeferred(k) == IsScopeTask(k) /\ deferredUntil[Identity[k].council] > clock

WriteBarrier(k) == \E j \in Keys \ {k} : rows[j].phase = "WRITE_INTENT"

\* Mutants of Permitted: no write barrier, no cooldown, no stop.
PermittedBesideWriter(k, a) ==
  /\ ~stopped /\ ~CouncilDeferred(k)
  /\ k \in grants[a].keys /\ Identity[k].contract \in grants[a].contracts
  /\ clock < grants[a].expiresAt

PermittedInCooldown(k, a) ==
  /\ ~stopped /\ ~WriteBarrier(k)
  /\ k \in grants[a].keys /\ Identity[k].contract \in grants[a].contracts
  /\ clock < grants[a].expiresAt

PermittedAfterStop(k, a) ==
  /\ ~CouncilDeferred(k) /\ ~WriteBarrier(k)
  /\ k \in grants[a].keys /\ Identity[k].contract \in grants[a].contracts
  /\ clock < grants[a].expiresAt

\* _permit without an operation.
Permitted(k, a) ==
  /\ ~stopped
  /\ ~CouncilDeferred(k)
  /\ ~WriteBarrier(k)
  /\ a \in Authorities
  /\ k \in grants[a].keys
  /\ Identity[k].contract \in grants[a].contracts
  /\ clock < grants[a].expiresAt

\* The test of stop and recover: the claim still names the row's live attempt.
Current(c) ==
  /\ rows[c.key].state = "CLAIMED"
  /\ rows[c.key].fence = c.fence
  /\ rows[c.key].owner = c.owner

\* _owned: current, lease not expired, and still permitted.
Owned(c) ==
  /\ Current(c)
  /\ rows[c.key].leaseUntil > clock
  /\ Permitted(c.key, rows[c.key].authority)

\* Closure that checkpoint and finish ask of a receipt after a source intent.
SettlesIntent(phase, e) ==
  /\ phase # "WRITE_INTENT"
  /\ phase = "SOURCE_INTENT" => e \in ClosedEvidence

\* A claim whose writer raised is not used again by its holder: the exception
\* leaves factual_refresh and new_identity.execute, which call no more methods.
Usable(c) == Owned(c) /\ c \notin uncertain

-----------------------------------------------------------------------------
(* Grants and enqueue. *)

RegisterGrant(q) ==
  /\ q.grant.expiresAt > clock
  /\ ~Registered(q.authority)
  /\ Cardinality({a \in Authorities : Registered(a)}) < GrantCap
  /\ grants' = [grants EXCEPT ![q.authority] = q.grant]
  /\ UNCHANGED <<clock, stopped, deferredUntil, rows, attempts, uncertain, history>>

NewRow(r) ==
  [NoRow EXCEPT !.state = r.state, !.deps = r.deps, !.limits = r.limits,
                !.maxAttempts = r.maxAttempts, !.priority = r.priority,
                !.eligibleAt = r.eligibleAt]

\* The insert of enqueue.  A key that exists is returned unchanged (or refused
\* when it conflicts), so only a new key is a step.
Insert(r) ==
  /\ ~Exists(r.key)
  /\ r.key \notin r.deps
  /\ \A d \in r.deps : Exists(d)
  /\ Cardinality(Enqueued) < RowCap
  /\ PutRow(r.key, NewRow(r))
  /\ UNCHANGED <<clock, control, attempts, uncertain, history>>

Enqueue(r) == Insert(r)

\* enqueue with parent_claim: the child names its parent, whose lease is live.
EnqueueChild(r, c) ==
  /\ Usable(c)
  /\ c.key \in r.deps
  /\ Insert(r)

-----------------------------------------------------------------------------
(* A claimed attempt. *)

CanClaimOnceMore(k, a) ==
  /\ Exists(k)
  /\ Permitted(k, a)
  /\ rows[k].state \in Claimable /\ rows[k].eligibleAt <= clock
  /\ rows[k].tries <= rows[k].maxAttempts
  /\ \A d \in rows[k].deps : rows[d].state = "COMPLETE"

CanClaim(k, a) ==
  /\ Exists(k)
  /\ Permitted(k, a)
  /\ rows[k].state \in Claimable
  /\ rows[k].eligibleAt <= clock
  /\ rows[k].tries < rows[k].maxAttempts
  /\ \A d \in rows[k].deps : rows[d].state = "COMPLETE"
  /\ Cardinality(Logged) < AttemptCap

Claim(k, o, a, lease) ==
  /\ CanClaim(k, a)
  /\ LET f == rows[k].fence + 1 IN
     /\ PutRow(k, [rows[k] EXCEPT !.state = "CLAIMED", !.phase = "CLAIMED",
                     !.owner = o, !.authority = a, !.fence = f, !.tries = @ + 1,
                     !.leaseUntil = clock + lease])
     /\ PutAttempt(k, f, [owner |-> o, phase |-> "CLAIMED",
                          checkpoint |-> rows[k].checkpoint, open |-> TRUE])
  /\ UNCHANGED <<clock, control, uncertain, history>>

\* The paired update of the work row and of the attempt row of a claim.
Record(c, e) ==
  /\ PutRow(c.key, [RowOf(c) EXCEPT !.phase = "CHECKPOINTED", !.checkpoint = e])
  /\ PutAttempt(c.key, c.fence,
                [AttemptOf(c) EXCEPT !.phase = "CHECKPOINTED", !.checkpoint = e])

Checkpoint(c, e) ==
  /\ Usable(c)
  /\ SettlesIntent(rows[c.key].phase, e)
  /\ Record(c, e)
  /\ UNCHANGED <<clock, control, uncertain, history>>

\* TASK_OPERATION: which tasks may reach a source or a writer at all.
TaskMay(c, op) ==
  \/ op = "writes" /\ Identity[c.key].task = "FACTUAL_REFRESH"
  \/ op = "source_calls" /\ IsScopeTask(c.key)
  \/ /\ op = "source_calls"
     /\ Identity[c.key].task = "FACTUAL_REFRESH"
     /\ Identity[c.key].kind = "APPLICATION"
     /\ c.key \in grants[rows[c.key].authority].detailKeys

\* Mutants of CanIntent: no replay check, no allowance check.
CanIntentReplay(c, op, cost) ==
  /\ Usable(c)
  /\ rows[c.key].phase \in {"CLAIMED", "CHECKPOINTED"}
  /\ TaskMay(c, op)
  /\ op = "source_calls" => cost = 1
  /\ grants[rows[c.key].authority].left[op] >= cost

CanIntent(c, op, cost) ==
  /\ Usable(c)
  /\ rows[c.key].phase \in {"CLAIMED", "CHECKPOINTED"}
  /\ TaskMay(c, op)
  /\ op = "source_calls" => cost = 1 /\ rows[c.key].checkpoint = None
  /\ grants[rows[c.key].authority].left[op] >= cost

Bump(counter, k, n) == [counter EXCEPT ![k] = @ + n]

Intent(c, op, cost) ==
  /\ CanIntent(c, op, cost)
  /\ grants' = [grants EXCEPT ![rows[c.key].authority].left[op] = @ - cost]
  /\ LET phase == IF op = "writes" THEN "WRITE_INTENT" ELSE "SOURCE_INTENT" IN
     /\ PutRow(c.key, [RowOf(c) EXCEPT !.phase = phase])
     /\ PutAttempt(c.key, c.fence, [AttemptOf(c) EXCEPT !.phase = phase])
  /\ calls' = Bump(calls, c.key, IF op = "source_calls" THEN 1 ELSE 0)
  /\ paid' = Bump(paid, c.key, IF op = "writes" THEN cost ELSE 0)
  /\ UNCHANGED <<clock, stopped, deferredUntil, uncertain, written, known>>

\* finish needs a settled phase, or settles it with the receipt it is given.
CanFinish(c, receipt) ==
  /\ Usable(c)
  /\ IF receipt = None THEN rows[c.key].phase \notin Intents
                       ELSE SettlesIntent(rows[c.key].phase, receipt)

Later(s, t) == IF s >= t THEN s ELSE t

Finish(c, state, receipt, delay, cooldown) ==
  /\ CanFinish(c, receipt)
  /\ LET e == IF receipt = None THEN rows[c.key].checkpoint ELSE receipt
         l == Identity[c.key].council
     IN
     /\ PutRow(c.key, [RowOf(c) EXCEPT !.state = state, !.phase = "FINISHED",
                         !.checkpoint = e, !.owner = None, !.leaseUntil = 0,
                         !.eligibleAt = clock + delay])
     /\ PutAttempt(c.key, c.fence,
          [AttemptOf(c) EXCEPT !.phase = "FINISHED", !.open = FALSE,
                               !.checkpoint = IF receipt = None THEN @ ELSE receipt])
     /\ deferredUntil' = IF cooldown = 0 THEN deferredUntil
                         ELSE [deferredUntil EXCEPT ![l] = Later(@, clock + cooldown)]
  /\ stopped' = (stopped \/ state = "PERSISTENCE_UNCERTAIN")
  /\ UNCHANGED <<clock, grants, uncertain, history>>

-----------------------------------------------------------------------------
(* Cooldowns, the global stop and recovery. *)

DeferCouncil(l, until) ==
  /\ until > clock
  /\ deferredUntil' = [deferredUntil EXCEPT ![l] = Later(@, until)]
  /\ UNCHANGED <<clock, stopped, grants, rows, attempts, uncertain, history>>

\* stop without a claim.
Stop ==
  /\ stopped' = TRUE
  /\ UNCHANGED <<clock, deferredUntil, grants, rows, attempts, uncertain, history>>

\* stop with a claim: the phase is left alone, so a WRITE_INTENT stays a barrier.
StopClaim(c, uncertainWrite) ==
  /\ stopped' = TRUE
  /\ IF Current(c)
     THEN /\ PutRow(c.key,
               [RowOf(c) EXCEPT !.state = IF uncertainWrite THEN "PERSISTENCE_UNCERTAIN"
                                                            ELSE "SAFETY_BLOCKED",
                                !.owner = None, !.leaseUntil = 0, !.fence = @ + 1])
          /\ PutAttempt(c.key, c.fence, [AttemptOf(c) EXCEPT !.open = FALSE])
     ELSE UNCHANGED <<rows, attempts>>
  /\ UNCHANGED <<clock, deferredUntil, grants, uncertain, history>>

\* The second transaction of fenced_effect, after its writer raised.  It may
\* never happen: the code swallows its failure, and the process may have died.
ReportUncertain(c) == c \in uncertain /\ StopClaim(c, TRUE)

\* Mutant of Abandoned: a confirmed cleanup is enough to try a source call again.
AbandonedByCleanup(c, cleanupClosed) ==
  IF rows[c.key].phase = "WRITE_INTENT" THEN "PERSISTENCE_UNCERTAIN"
  ELSE IF cleanupClosed THEN "DEFERRED" ELSE "SAFETY_BLOCKED"

\* Mutant of Abandoned: a write intent is deferred like an idle claim.
AbandonedAsIdle(c, cleanupClosed) ==
  IF cleanupClosed /\ rows[c.key].phase # "SOURCE_INTENT" THEN "DEFERRED"
                                                           ELSE "SAFETY_BLOCKED"

Abandoned(c, cleanupClosed) ==
  CASE rows[c.key].phase = "WRITE_INTENT" -> "PERSISTENCE_UNCERTAIN"
    [] rows[c.key].phase = "SOURCE_INTENT" -> "SAFETY_BLOCKED"
    [] OTHER -> IF cleanupClosed THEN "DEFERRED" ELSE "SAFETY_BLOCKED"

CanRecover(c) == Current(c) /\ rows[c.key].leaseUntil <= clock

Recover(c, cleanupClosed) ==
  /\ CanRecover(c)
  /\ PutRow(c.key, [RowOf(c) EXCEPT !.state = Abandoned(c, cleanupClosed),
                      !.phase = "RECOVERED", !.owner = None, !.leaseUntil = 0,
                      !.fence = @ + 1])
  /\ PutAttempt(c.key, c.fence,
                [AttemptOf(c) EXCEPT !.phase = "RECOVERED", !.open = FALSE])
  /\ stopped' = (stopped \/ Abandoned(c, cleanupClosed) # "DEFERRED")
  /\ UNCHANGED <<clock, deferredUntil, grants, uncertain, history>>

-----------------------------------------------------------------------------
(* fenced_effect: the writer commits outside the ledger's transaction. *)

EnterWriter(c) == Usable(c) /\ rows[c.key].phase = "WRITE_INTENT"

\* Writer and ledger commit; raised is TRUE when the ledger's acknowledgement
\* is lost, so that the caller sees an exception although everything committed.
FencedEffectCommit(c, e, raised) ==
  /\ EnterWriter(c)
  /\ Record(c, e)
  /\ written' = Bump(written, c.key, 1)
  /\ known' = Bump(known, c.key, 1)
  /\ uncertain' = IF raised THEN uncertain \cup {c} ELSE uncertain
  /\ UNCHANGED <<clock, control, calls, paid>>

\* The writer raised, with or without having committed, or the ledger's own
\* commit failed: the ledger rolls back to the durable WRITE_INTENT.
FencedEffectRollback(c, committed) ==
  /\ EnterWriter(c)
  /\ written' = Bump(written, c.key, IF committed THEN 1 ELSE 0)
  /\ uncertain' = uncertain \cup {c}
  /\ UNCHANGED <<clock, control, rows, attempts, calls, paid, known>>

Tick ==
  /\ clock < MaxClock
  /\ clock' = clock + 1
  /\ UNCHANGED <<control, rows, attempts, uncertain, history>>

-----------------------------------------------------------------------------
NextGrant    == \E q \in GrantRequests : RegisterGrant(q)
NextEnqueue  == \E r \in EnqueueRequests :
                  Enqueue(r) \/ \E c \in Issued : EnqueueChild(r, c)
NextClaim    == \E k \in Keys, o \in Owners, a \in Authorities, l \in Leases :
                  Claim(k, o, a, l)
NextStage    == \E c \in Issued :
                  \/ \E e \in Evidence : Checkpoint(c, e)
                  \/ \E op \in Operations, cost \in 1 .. 2 : Intent(c, op, cost)
NextFinish   == \E c \in Issued, s \in Outcomes, e \in Receipts,
                   d \in Delays, w \in Cooldowns : Finish(c, s, e, d, w)
NextStop     == \/ Stop
                \/ \E c \in Issued, u \in BOOLEAN : StopClaim(c, u)
                \/ \E c \in uncertain : ReportUncertain(c)
NextRecover  == \E c \in Issued, closed \in BOOLEAN : Recover(c, closed)
NextEffect   == \E c \in Issued :
                  \/ \E e \in Evidence, b \in BOOLEAN : FencedEffectCommit(c, e, b)
                  \/ \E b \in BOOLEAN : FencedEffectRollback(c, b)
NextCooldown == \E l \in Councils, w \in Cooldowns : DeferCouncil(l, clock + w)

Next ==
  \/ NextGrant \/ NextEnqueue \/ NextClaim \/ NextStage \/ NextFinish
  \/ NextStop \/ NextRecover \/ NextEffect \/ NextCooldown \/ Tick

Spec == Init /\ [][Next]_vars
=============================================================================
