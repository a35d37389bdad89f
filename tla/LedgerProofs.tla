---------------------------- MODULE LedgerProofs ----------------------------
(* The ledger, for every value of the constants: its types, its safety          *)
(* invariants, leases, attempts and dependencies, what a step may never do, and *)
(* the refinement of WorkAuthority.                                             *)
EXTENDS LedgerProperties, LedgerRefinement, FiniteSetTheorems, TLAPS

(* A claim that was issued is a well-typed claim: the attempt row it was read from
   has an owner (claim's insert into the attempt table). *)
LEMMA IssuedAreClaims ==
  ASSUME TypeOK
  PROVE  Issued \subseteq Claims
<1>1. SUFFICES ASSUME NEW x \in Logged PROVE ClaimAt(x) \in Claims
  BY DEF Issued
<1>2. attempts[x[1]][x[2]] \in Attempt
  BY <1>1 DEF Logged, TypeOK
<1>. QED
  BY <1>1, <1>2 DEF Logged, ClaimAt, Claims, Attempt

(* The empty tables and the empty control row are well typed (schema.install). *)
LEMMA InitTypeOK == Init => TypeOK
<1>. SUFFICES ASSUME Init PROVE TypeOK
  OBVIOUS
<1>1. NoGrant \in Grant
  BY DEF NoGrant, Grant
<1>2. NoRow \in Row
  BY BoundAssumption DEF NoRow, Row, States, Claimable, Blocked, Phases, Intents, Receipts
<1>3. NoAttempt \in Attempt
  BY DEF NoAttempt, Attempt, Phases, Intents, Receipts
<1>. QED
  BY <1>1, <1>2, <1>3 DEF Init, TypeOK, Claims

(* A row or attempt of the tables is well typed, and so is the row a claim names. *)
LEMMA ClaimedRowTyped ==
  ASSUME TypeOK, NEW c \in Issued
  PROVE  /\ c.key \in Keys /\ c.fence \in Fences /\ c.owner \in Owners
         /\ c \in Claims
         /\ rows[c.key] \in Row
         /\ attempts[c.key][c.fence] \in Attempt
BY IssuedAreClaims DEF Claims, TypeOK

(* The enumerated columns: the values the operations write are among those the
   columns admit. *)
LEMMA EnumerationsTyped ==
  /\ {"CLAIMED", "COMPLETE", "DEFERRED", "QUEUED", "ABSENT"} \subseteq States
  /\ Blocked \subseteq States /\ Outcomes \subseteq States
  /\ {"IDLE", "CLAIMED", "CHECKPOINTED", "FINISHED", "RECOVERED",
      "SOURCE_INTENT", "WRITE_INTENT"} \subseteq Phases
  /\ Evidence \subseteq Receipts /\ None \in Receipts
BY DEF States, Blocked, Outcomes, Claimable, Phases, Intents, Receipts

(* The updates that the operations make to a work row assign values of the column
   types: those of record and intent, of claim, of finish, of stop and of recover. *)
LEMMA RowUpdatesTyped ==
  ASSUME NEW r \in Row, NEW p \in Phases, NEW e \in Receipts
  PROVE  /\ [r EXCEPT !.phase = p, !.checkpoint = e] \in Row
         /\ [r EXCEPT !.phase = p] \in Row
<1>1. [r EXCEPT !.phase = p, !.checkpoint = e] \in Row BY Zenon DEF Row
<1>2. [r EXCEPT !.phase = p] \in Row BY Zenon DEF Row
<1>. QED
  BY <1>1, <1>2

(* A row that claim leases to an owner. *)
LEMMA LeasedRowTyped ==
  ASSUME NEW r \in Row, NEW s \in States, NEW p \in Phases, NEW o \in Owners,
         NEW a \in Authorities, NEW f \in Nat, NEW n \in Nat, NEW t \in Nat
  PROVE  [r EXCEPT !.state = s, !.phase = p, !.owner = o, !.authority = a,
                   !.fence = f, !.tries = n, !.leaseUntil = t] \in Row
BY Zenon DEF Row

(* A row that finish releases with its outcome. *)
LEMMA FinishedRowTyped ==
  ASSUME NEW r \in Row, NEW s \in States, NEW p \in Phases, NEW e \in Receipts,
         NEW n \in Nat, NEW t \in Nat
  PROVE  [r EXCEPT !.state = s, !.phase = p, !.checkpoint = e, !.owner = None,
                   !.leaseUntil = n, !.eligibleAt = t] \in Row
BY Zenon DEF Row

(* A row that stop blocks. *)
LEMMA StoppedRowTyped ==
  ASSUME NEW r \in Row, NEW s \in States, NEW n \in Nat, NEW f \in Nat
  PROVE  [r EXCEPT !.state = s, !.owner = None, !.leaseUntil = n, !.fence = f] \in Row
BY Zenon DEF Row

(* A row that recover releases. *)
LEMMA RecoveredRowTyped ==
  ASSUME NEW r \in Row, NEW s \in States, NEW p \in Phases, NEW n \in Nat, NEW f \in Nat
  PROVE  [r EXCEPT !.state = s, !.phase = p, !.owner = None, !.leaseUntil = n,
                   !.fence = f] \in Row
BY Zenon DEF Row

(* The same for the attempt row: what claim, record, finish and stop store in it. *)
LEMMA AttemptUpdatesTyped ==
  ASSUME NEW r \in Attempt, NEW p \in Phases, NEW e \in Receipts
  PROVE  /\ [r EXCEPT !.phase = p, !.checkpoint = e] \in Attempt
         /\ [r EXCEPT !.phase = p] \in Attempt
         /\ [r EXCEPT !.open = FALSE] \in Attempt
         /\ [r EXCEPT !.phase = p, !.open = FALSE] \in Attempt
         /\ [r EXCEPT !.phase = p, !.open = FALSE, !.checkpoint = e] \in Attempt
BY Zenon DEF Attempt

(* The two UPDATE statements keep their tables typed. *)
LEMMA PutRowTyped ==
  ASSUME TypeOK, NEW k \in Keys, NEW row \in Row, PutRow(k, row)
  PROVE  rows' \in [Keys -> Row]
BY DEF TypeOK, PutRow

(* The UPDATE of the attempt table by (work_key, fence). *)
LEMMA PutAttemptTyped ==
  ASSUME TypeOK, NEW k \in Keys, NEW f, NEW row \in Attempt, PutAttempt(k, f, row)
  PROVE  attempts' \in [Keys -> [Fences -> Attempt]]
<1>. DEFINE g == [attempts[k] EXCEPT ![f] = row]
<1>1. g \in [Fences -> Attempt]
  BY DEF TypeOK
<1>2. attempts' = [attempts EXCEPT ![k] = g]
  BY DEF PutAttempt
<1>. QED
  BY <1>1, <1>2 DEF TypeOK

\* The tuples of UNCHANGED and the two row selectors are expanded from here on.
USE DEF control, history, RowOf, AttemptOf

(* Ledger.grant stores a registered grant, which is well typed by assumption. *)
LEMMA GrantStepTyped ==
  ASSUME TypeOK, NEW q \in GrantRequests, RegisterGrant(q)
  PROVE  TypeOK'
BY RequestAssumption DEF TypeOK, RegisterGrant

(* Ledger.enqueue inserts a row built from a well-typed request. *)
LEMMA EnqueueStepTyped ==
  ASSUME TypeOK, NEW r \in EnqueueRequests, Insert(r)
  PROVE  TypeOK'
<1>1. r \in Requests
  BY RequestAssumption
<1>2. NewRow(r) \in Row
  BY <1>1, BoundAssumption
     DEF NewRow, NoRow, Row, Requests, States, Claimable, Blocked, Phases, Intents, Receipts
<1>. QED
  BY <1>1, <1>2, PutRowTyped DEF TypeOK, Insert, Requests

(* The fence a claim takes is one of those the attempt table is indexed by. *)
LEMMA ClaimStepTyped ==
  ASSUME TypeOK, NEW k \in Keys, NEW o \in Owners, NEW a \in Authorities,
         NEW l \in Leases, Claim(k, o, a, l)
  PROVE  TypeOK'
<1>1. rows[k] \in Row
  BY DEF TypeOK
<1>2. clock + l \in Nat
  BY BoundAssumption DEF TypeOK
<1>3. rows' \in [Keys -> Row]
  <2>. DEFINE row == [rows[k] EXCEPT !.state = "CLAIMED", !.phase = "CLAIMED",
                     !.owner = o, !.authority = a, !.fence = rows[k].fence + 1,
                     !.tries = @ + 1, !.leaseUntil = clock + l]
  <2>1. row \in Row
    <3>1. rows[k].fence + 1 \in Nat /\ rows[k].tries + 1 \in Nat
      BY <1>1 DEF Row
    <3>2. "CLAIMED" \in States /\ "CLAIMED" \in Phases
      BY EnumerationsTyped
    <3>. QED
      BY <1>1, <1>2, <3>1, <3>2, LeasedRowTyped, Zenon
  <2>2. PutRow(k, row)
    BY DEF Claim
  <2>. QED
    BY <2>1, <2>2, PutRowTyped
<1>4. attempts' \in [Keys -> [Fences -> Attempt]]
  <2>. DEFINE row == [owner |-> o, phase |-> "CLAIMED",
                      checkpoint |-> rows[k].checkpoint, open |-> TRUE]
  <2>1. row \in Attempt
    BY <1>1 DEF Row, Attempt, Phases
  <2>2. PutAttempt(k, rows[k].fence + 1, row)
    BY DEF Claim
  <2>. QED
    BY <2>1, <2>2, PutAttemptTyped
<1>. QED
  BY <1>3, <1>4 DEF TypeOK, Claim

(* Record stores a receipt in both tables. *)
LEMMA RecordTyped ==
  ASSUME TypeOK, NEW c \in Issued, NEW e \in Evidence, Record(c, e)
  PROVE  rows' \in [Keys -> Row] /\ attempts' \in [Keys -> [Fences -> Attempt]]
<1>. DEFINE row == [RowOf(c) EXCEPT !.phase = "CHECKPOINTED", !.checkpoint = e]
            attempt == [AttemptOf(c) EXCEPT !.phase = "CHECKPOINTED", !.checkpoint = e]
<1>1. row \in Row
  BY ClaimedRowTyped, EnumerationsTyped, RowUpdatesTyped
<1>2. attempt \in Attempt
  BY ClaimedRowTyped, EnumerationsTyped, AttemptUpdatesTyped
<1>3. PutRow(c.key, row) /\ PutAttempt(c.key, c.fence, attempt)
  BY DEF Record
<1>. QED
  BY <1>1, <1>2, <1>3, ClaimedRowTyped, PutRowTyped, PutAttemptTyped

(* Ledger.checkpoint keeps the tables typed. *)
LEMMA CheckpointStepTyped ==
  ASSUME TypeOK, NEW c \in Issued, NEW e \in Evidence, Checkpoint(c, e)
  PROVE  TypeOK'
BY RecordTyped DEF TypeOK, Checkpoint

(* Ledger.intent keeps the tables typed: the allowance it takes was there. *)
LEMMA IntentStepTyped ==
  ASSUME TypeOK, NEW c \in Issued, NEW op \in Operations, NEW cost \in 1 .. 2,
         Intent(c, op, cost)
  PROVE  TypeOK'
<1>. DEFINE a == rows[c.key].authority
            phase == IF op = "writes" THEN "WRITE_INTENT" ELSE "SOURCE_INTENT"
            row == [RowOf(c) EXCEPT !.phase = phase]
            attempt == [AttemptOf(c) EXCEPT !.phase = phase]
<1>2. a \in Authorities /\ grants[a].left[op] >= cost
  BY DEF Intent, CanIntent, Usable, Owned, Permitted
<1>3. grants[a] \in Grant /\ grants[a].left[op] - cost \in Nat
  BY <1>2 DEF TypeOK, Grant
<1>4. grants' \in [Authorities -> Grant]
  <2>. DEFINE g == [grants[a] EXCEPT !.left = [grants[a].left EXCEPT ![op] = @ - cost]]
  <2>1. g \in Grant
    BY <1>3 DEF Grant
  <2>2. grants' = [grants EXCEPT ![a] = g]
    BY DEF Intent
  <2>. QED
    BY <2>1, <2>2 DEF TypeOK
<1>5. row \in Row /\ attempt \in Attempt
  BY ClaimedRowTyped, EnumerationsTyped, RowUpdatesTyped, AttemptUpdatesTyped
<1>6. PutRow(c.key, row) /\ PutAttempt(c.key, c.fence, attempt)
  BY DEF Intent
<1>7. rows' \in [Keys -> Row] /\ attempts' \in [Keys -> [Fences -> Attempt]]
  BY <1>5, <1>6, ClaimedRowTyped, PutRowTyped, PutAttemptTyped
<1>8. calls' \in [Keys -> Nat] /\ paid' \in [Keys -> Nat]
  BY ClaimedRowTyped DEF TypeOK, Intent, Bump
<1>. QED
  BY <1>4, <1>7, <1>8 DEF TypeOK, Intent

(* Ledger.finish keeps the tables and the cooldowns typed. *)
LEMMA FinishStepTyped ==
  ASSUME TypeOK, NEW c \in Issued, NEW s \in Outcomes, NEW e \in Receipts,
         NEW d \in Delays, NEW w \in Cooldowns, Finish(c, s, e, d, w)
  PROVE  TypeOK'
<1>. DEFINE r == IF e = None THEN rows[c.key].checkpoint ELSE e
            row == [RowOf(c) EXCEPT !.state = s, !.phase = "FINISHED",
                      !.checkpoint = r, !.owner = None, !.leaseUntil = 0,
                      !.eligibleAt = clock + d]
            er == IF e = None THEN AttemptOf(c).checkpoint ELSE e
            attempt == [AttemptOf(c) EXCEPT !.phase = "FINISHED", !.open = FALSE,
                          !.checkpoint = er]
<1>1. clock + d \in Nat /\ clock + w \in Nat
  BY BoundAssumption DEF TypeOK
<1>2. r \in Receipts
  BY ClaimedRowTyped DEF Row
<1>3. row \in Row
  <2>. HIDE DEF r
  <2>1. s \in States /\ RowOf(c) \in Row
    BY ClaimedRowTyped, EnumerationsTyped
  <2>2. "FINISHED" \in Phases /\ 0 \in Nat
    BY EnumerationsTyped
  <2>. QED
    BY <2>1, <2>2, <1>1, <1>2, FinishedRowTyped, Zenon
<1>4. attempt \in Attempt
  <2>1. er \in Receipts
    BY ClaimedRowTyped DEF Attempt
  <2>. QED
    BY ClaimedRowTyped, EnumerationsTyped, AttemptUpdatesTyped, <2>1
<1>5. PutRow(c.key, row) /\ PutAttempt(c.key, c.fence, attempt)
  BY DEF Finish
<1>6. rows' \in [Keys -> Row] /\ attempts' \in [Keys -> [Fences -> Attempt]]
  BY <1>3, <1>4, <1>5, ClaimedRowTyped, PutRowTyped, PutAttemptTyped
<1>7. deferredUntil' \in [Councils -> Nat]
  BY <1>1 DEF TypeOK, Finish, Later
<1>. QED
  BY <1>6, <1>7 DEF TypeOK, Finish

(* Ledger.stop with a claim keeps the tables typed. *)
LEMMA StopStepTyped ==
  ASSUME TypeOK, NEW c \in Claims, NEW u \in BOOLEAN, StopClaim(c, u)
  PROVE  TypeOK'
<1>. DEFINE s == IF u THEN "PERSISTENCE_UNCERTAIN" ELSE "SAFETY_BLOCKED"
            row == [RowOf(c) EXCEPT !.state = s, !.owner = None, !.leaseUntil = 0,
                                    !.fence = @ + 1]
            attempt == [AttemptOf(c) EXCEPT !.open = FALSE]
<1>1. RowOf(c) \in Row /\ AttemptOf(c) \in Attempt /\ c.key \in Keys /\ c.fence \in Fences
  BY DEF TypeOK, Claims
<1>2. row \in Row /\ attempt \in Attempt
  <2>1. RowOf(c).fence + 1 \in Nat /\ s \in States /\ 0 \in Nat
    BY <1>1, EnumerationsTyped DEF Row, Blocked
  <2>2. row \in Row
    BY <1>1, <2>1, StoppedRowTyped, Zenon
  <2>3. attempt \in Attempt
    BY <1>1, EnumerationsTyped, AttemptUpdatesTyped
  <2>. QED
    BY <2>2, <2>3
<1>3. Current(c) => PutRow(c.key, row) /\ PutAttempt(c.key, c.fence, attempt)
  BY DEF StopClaim
<1>4. rows' \in [Keys -> Row] /\ attempts' \in [Keys -> [Fences -> Attempt]]
  <2>1. CASE Current(c)
    BY <2>1, <1>1, <1>2, <1>3, PutRowTyped, PutAttemptTyped
  <2>2. CASE ~Current(c)
    BY <2>2 DEF StopClaim, TypeOK
  <2>. QED
    BY <2>1, <2>2
<1>. QED
  BY <1>4 DEF TypeOK, StopClaim

(* Ledger.recover keeps the tables typed. *)
LEMMA RecoverStepTyped ==
  ASSUME TypeOK, NEW c \in Issued, NEW b \in BOOLEAN, Recover(c, b)
  PROVE  TypeOK'
<1>. DEFINE row == [RowOf(c) EXCEPT !.state = Abandoned(c, b), !.phase = "RECOVERED",
                      !.owner = None, !.leaseUntil = 0, !.fence = @ + 1]
            attempt == [AttemptOf(c) EXCEPT !.phase = "RECOVERED", !.open = FALSE]
<1>1. Abandoned(c, b) \in States
  BY DEF Abandoned, States, Blocked, Claimable
<1>2. row \in Row /\ attempt \in Attempt
  <2>1. RowOf(c) \in Row /\ RowOf(c).fence + 1 \in Nat /\ 0 \in Nat
    BY ClaimedRowTyped DEF Row
  <2>2. "RECOVERED" \in Phases
    BY EnumerationsTyped
  <2>3. row \in Row
    BY <1>1, <2>1, <2>2, RecoveredRowTyped, Zenon
  <2>4. attempt \in Attempt
    BY ClaimedRowTyped, EnumerationsTyped, AttemptUpdatesTyped
  <2>. QED
    BY <2>3, <2>4
<1>3. PutRow(c.key, row) /\ PutAttempt(c.key, c.fence, attempt)
  BY DEF Recover
<1>4. rows' \in [Keys -> Row] /\ attempts' \in [Keys -> [Fences -> Attempt]]
  BY <1>2, <1>3, ClaimedRowTyped, PutRowTyped, PutAttemptTyped
<1>. QED
  BY <1>4 DEF TypeOK, Recover

(* A fenced effect that commits keeps the tables and histories typed. *)
LEMMA CommitStepTyped ==
  ASSUME TypeOK, NEW c \in Issued, NEW e \in Evidence, NEW b \in BOOLEAN,
         FencedEffectCommit(c, e, b)
  PROVE  TypeOK'
<1>1. rows' \in [Keys -> Row] /\ attempts' \in [Keys -> [Fences -> Attempt]]
  BY RecordTyped DEF FencedEffectCommit
<1>2. uncertain' \in SUBSET Claims
  BY ClaimedRowTyped DEF TypeOK, FencedEffectCommit
<1>3. written' \in [Keys -> Nat] /\ known' \in [Keys -> Nat]
  BY ClaimedRowTyped DEF TypeOK, FencedEffectCommit, Bump
<1>. QED
  BY <1>1, <1>2, <1>3 DEF TypeOK, FencedEffectCommit

(* A fenced effect that raises keeps the histories typed. *)
LEMMA RollbackStepTyped ==
  ASSUME TypeOK, NEW c \in Issued, NEW b \in BOOLEAN, FencedEffectRollback(c, b)
  PROVE  TypeOK'
<1>1. uncertain' \in SUBSET Claims
  BY ClaimedRowTyped DEF TypeOK, FencedEffectRollback
<1>2. written' \in [Keys -> Nat]
  BY ClaimedRowTyped DEF TypeOK, FencedEffectRollback, Bump
<1>. QED
  BY <1>1, <1>2 DEF TypeOK, FencedEffectRollback

(* Ledger.defer_council keeps the control row typed. *)
LEMMA CooldownStepTyped ==
  ASSUME TypeOK, NEW l \in Councils, NEW w \in Cooldowns, DeferCouncil(l, clock + w)
  PROVE  TypeOK'
<1>1. clock + w \in Nat
  BY BoundAssumption DEF TypeOK
<1>. QED
  BY <1>1 DEF TypeOK, DeferCouncil, Later

(* Every step of the ledger keeps its tables typed. *)
LEMMA NextTyped ==
  ASSUME TypeOK, [Next]_vars
  PROVE  TypeOK'
<1>1. CASE NextGrant
  BY <1>1, GrantStepTyped DEF NextGrant
<1>2. CASE NextEnqueue
  BY <1>2, EnqueueStepTyped DEF NextEnqueue, Enqueue, EnqueueChild
<1>3. CASE NextClaim
  BY <1>3, ClaimStepTyped DEF NextClaim
<1>4. CASE NextStage
  BY <1>4, CheckpointStepTyped, IntentStepTyped DEF NextStage
<1>5. CASE NextFinish
  BY <1>5, FinishStepTyped DEF NextFinish
<1>6. CASE NextStop
  <2>1. CASE Stop
    BY <2>1 DEF Stop, TypeOK
  <2>2. ASSUME NEW c \in Issued, NEW u \in BOOLEAN, StopClaim(c, u) PROVE TypeOK'
    BY <2>2, StopStepTyped, IssuedAreClaims
  <2>3. ASSUME NEW c \in uncertain, ReportUncertain(c) PROVE TypeOK'
    BY <2>3, StopStepTyped DEF ReportUncertain, TypeOK
  <2>. QED
    BY <1>6, <2>1, <2>2, <2>3 DEF NextStop
<1>7. CASE NextRecover
  BY <1>7, RecoverStepTyped DEF NextRecover
<1>8. CASE NextEffect
  BY <1>8, CommitStepTyped, RollbackStepTyped DEF NextEffect
<1>9. CASE NextCooldown
  BY <1>9, CooldownStepTyped DEF NextCooldown
<1>10. CASE Tick
  BY <1>10 DEF Tick, TypeOK
<1>11. CASE UNCHANGED vars
  BY <1>11 DEF vars, TypeOK
<1>. QED
  BY <1>1, <1>2, <1>3, <1>4, <1>5, <1>6, <1>7, <1>8, <1>9, <1>10, <1>11 DEF Next

(* Type correctness of the ledger: whatever calls are made, with whatever claims,
   the control row, both tables and the histories stay within their columns. *)
THEOREM TypeCorrect == Spec => []TypeOK
<1>1. Init => TypeOK
  BY InitTypeOK
<1>2. TypeOK /\ [Next]_vars => TypeOK'
  BY NextTyped
<1>. QED
  BY <1>1, <1>2, PTL DEF Spec

-----------------------------------------------------------------------------
(* Effect accounting. *)

(* An UPDATE by primary key changes the row it names and no other. *)
LEMMA PutRowFrame ==
  ASSUME TypeOK, NEW k \in Keys, NEW row, PutRow(k, row)
  PROVE  /\ rows'[k] = row
         /\ \A j \in Keys : j # k => rows'[j] = rows[j]
BY DEF TypeOK, PutRow

(* A claim that passes the ownership test is the one its row is leased under. *)
LEMMA CurrentIsLive ==
  ASSUME TypeOK, NEW c \in Claims, Current(c)
  PROVE  /\ c = LiveClaim(c.key)
         /\ rows[c.key].state = "CLAIMED"
BY DEF Claims, Current, LiveClaim

(* What a successful _owned guarantees about the rest of the ledger. *)
LEMMA UsableFacts ==
  ASSUME TypeOK, NEW c \in Issued, Usable(c)
  PROVE  /\ c.key \in Keys
         /\ rows[c.key].state = "CLAIMED"
         /\ c = LiveClaim(c.key)
         /\ LiveClaim(c.key) \notin uncertain
         /\ ~stopped
         /\ \A j \in Keys : j # c.key => rows[j].phase # "WRITE_INTENT"
BY ClaimedRowTyped, CurrentIsLive DEF Usable, Owned, Permitted, WriteBarrier

(* The empty ledger has no effects to account for (schema.install). *)
LEMMA InitEffects == Init => EffectInv
BY DEF Init, EffectInv, SingleWriter, IntentsAreHeld, SourceCallLeavesATrace,
       WriterAccounts, NoRow, Intents

(* Steps that leave every row, the stop and the histories alone. *)
LEMMA QuietStepEffects ==
  ASSUME EffectInv, UNCHANGED <<rows, stopped, uncertain, calls, paid, written, known>>
  PROVE  EffectInv'
BY DEF EffectInv, SingleWriter, IntentsAreHeld, SourceCallLeavesATrace,
       WriterAccounts, LiveClaim

(* A new item has no effects: Ledger.enqueue preserves the accounting. *)
LEMMA EnqueueStepEffects ==
  ASSUME TypeOK, EffectInv, NEW r \in EnqueueRequests, Insert(r)
  PROVE  EffectInv'
<1>. DEFINE k == r.key
            row == NewRow(r)
<1>1. k \in Keys /\ row.phase = "IDLE" /\ row.checkpoint = None /\ row.state # "CLAIMED"
  BY RequestAssumption DEF Requests, NewRow, NoRow, Claimable, Blocked
<1>2. rows'[k] = row /\ \A j \in Keys : j # k => rows'[j] = rows[j]
  BY <1>1, PutRowFrame DEF Insert
<1>3. rows[k].state = "ABSENT" /\ UNCHANGED <<stopped, uncertain, calls, paid, written, known>>
  BY DEF Insert, Exists
<1>4. SingleWriter' /\ IntentsAreHeld'
  BY <1>1, <1>2, <1>3 DEF EffectInv, SingleWriter, IntentsAreHeld, Intents
<1>5. SourceCallLeavesATrace'
  BY <1>1, <1>2, <1>3 DEF EffectInv, SourceCallLeavesATrace
<1>6. WriterAccounts'
  BY <1>1, <1>2, <1>3 DEF EffectInv, WriterAccounts, LiveClaim
<1>. QED
  BY <1>4, <1>5, <1>6 DEF EffectInv

(* Ledger.claim takes no item whose intent is unsettled. *)
LEMMA ClaimStepEffects ==
  ASSUME TypeOK, EffectInv, NEW k \in Keys, NEW o \in Owners, NEW a \in Authorities,
         NEW l \in Leases, Claim(k, o, a, l)
  PROVE  EffectInv'
<1>1. /\ rows'[k].state = "CLAIMED" /\ rows'[k].phase = "CLAIMED"
      /\ rows'[k].checkpoint = rows[k].checkpoint
      /\ \A j \in Keys : j # k => rows'[j] = rows[j]
  <2>. DEFINE row == [rows[k] EXCEPT !.state = "CLAIMED", !.phase = "CLAIMED",
                     !.owner = o, !.authority = a, !.fence = rows[k].fence + 1,
                     !.tries = @ + 1, !.leaseUntil = clock + l]
  <2>1. PutRow(k, row)
    BY DEF Claim
  <2>2. row.state = "CLAIMED" /\ row.phase = "CLAIMED" /\ row.checkpoint = rows[k].checkpoint
    BY DEF TypeOK, Row
  <2>. QED
    BY <2>1, <2>2, PutRowFrame
<1>2. /\ rows[k].state \in Claimable /\ ~stopped
      /\ UNCHANGED <<stopped, uncertain, calls, paid, written, known>>
  BY DEF Claim, CanClaim, Permitted
<1>3. SingleWriter' /\ IntentsAreHeld'
  BY <1>1 DEF EffectInv, SingleWriter, IntentsAreHeld, Intents
<1>4. SourceCallLeavesATrace'
  BY <1>1, <1>2 DEF EffectInv, SourceCallLeavesATrace, IntentsAreHeld, Intents,
                    Claimable, Blocked
<1>5. WriterAccounts'
  BY <1>1, <1>2 DEF EffectInv, WriterAccounts, LiveClaim, Claimable
<1>. QED
  BY <1>3, <1>4, <1>5 DEF EffectInv

(* Record settles the phase and stores a receipt. *)
LEMMA RecordEffects ==
  ASSUME TypeOK, NEW c \in Issued, NEW e \in Evidence, Record(c, e)
  PROVE  /\ rows'[c.key].state = rows[c.key].state
         /\ rows'[c.key].fence = rows[c.key].fence
         /\ rows'[c.key].owner = rows[c.key].owner
         /\ rows'[c.key].phase = "CHECKPOINTED"
         /\ rows'[c.key].checkpoint = e
         /\ \A j \in Keys : j # c.key => rows'[j] = rows[j]
<1>. DEFINE row == [RowOf(c) EXCEPT !.phase = "CHECKPOINTED", !.checkpoint = e]
<1>1. c.key \in Keys /\ rows[c.key] \in Row
  BY ClaimedRowTyped
<1>2. /\ row.state = rows[c.key].state /\ row.fence = rows[c.key].fence
      /\ row.owner = rows[c.key].owner
      /\ row.phase = "CHECKPOINTED" /\ row.checkpoint = e
  BY <1>1 DEF Row
<1>3. PutRow(c.key, row)
  BY DEF Record
<1>. QED
  BY <1>1, <1>2, <1>3, PutRowFrame

(* Ledger.checkpoint settles a source intent only with a receipt. *)
LEMMA CheckpointStepEffects ==
  ASSUME TypeOK, EffectInv, NEW c \in Issued, NEW e \in Evidence, Checkpoint(c, e)
  PROVE  EffectInv'
<1>1. UNCHANGED <<stopped, uncertain, calls, paid, written, known>>
  BY DEF Checkpoint
<1>2. e # None
  BY EvidenceAssumption
<1>3. rows[c.key].phase # "WRITE_INTENT" /\ Usable(c) /\ Record(c, e)
  BY DEF Checkpoint, SettlesIntent
<1>4. SingleWriter' /\ IntentsAreHeld'
  BY <1>3, RecordEffects DEF EffectInv, SingleWriter, IntentsAreHeld, Intents
<1>5. SourceCallLeavesATrace'
  BY <1>1, <1>2, <1>3, UsableFacts, RecordEffects DEF EffectInv, SourceCallLeavesATrace
<1>6. WriterAccounts'
  BY <1>1, <1>3, UsableFacts, RecordEffects DEF EffectInv, WriterAccounts, LiveClaim
<1>. QED
  BY <1>4, <1>5, <1>6 DEF EffectInv

(* Ledger.intent enters an intent alone, paid for and never twice for a source. *)
LEMMA IntentStepEffects ==
  ASSUME TypeOK, EffectInv, NEW c \in Issued, NEW op \in Operations,
         NEW cost \in 1 .. 2, Intent(c, op, cost)
  PROVE  EffectInv'
<1>. DEFINE phase == IF op = "writes" THEN "WRITE_INTENT" ELSE "SOURCE_INTENT"
            row == [RowOf(c) EXCEPT !.phase = phase]
            k == c.key
<1>1. /\ Usable(c) /\ rows[k].phase \in {"CLAIMED", "CHECKPOINTED"}
      /\ op = "source_calls" => rows[k].checkpoint = None
      /\ UNCHANGED <<stopped, uncertain, written, known>>
  BY DEF Intent, CanIntent
<1>2. k \in Keys /\ rows[k] \in Row
  BY ClaimedRowTyped
<1>3. /\ row.state = rows[k].state /\ row.fence = rows[k].fence
      /\ row.owner = rows[k].owner /\ row.checkpoint = rows[k].checkpoint
      /\ row.phase = phase
  BY <1>2 DEF Row
<1>4. PutRow(k, row)
  BY DEF Intent
<1>5. rows'[k] = row /\ \A j \in Keys : j # k => rows'[j] = rows[j]
  BY <1>2, <1>4, PutRowFrame
<1>6. /\ calls'[k] = IF op = "source_calls" THEN calls[k] + 1 ELSE calls[k]
      /\ paid'[k] = IF op = "writes" THEN paid[k] + cost ELSE paid[k]
      /\ \A j \in Keys : j # k => calls'[j] = calls[j] /\ paid'[j] = paid[j]
  BY <1>2 DEF Intent, Bump, TypeOK
<1>. HIDE DEF row
<1>7. SingleWriter'
  BY <1>1, <1>3, <1>5, UsableFacts DEF EffectInv, SingleWriter
<1>8. IntentsAreHeld'
  BY <1>1, <1>3, <1>5, UsableFacts DEF EffectInv, IntentsAreHeld
<1>9. SourceCallLeavesATrace'
  <2>1. CASE op = "source_calls"
    <3>1. calls[k] = 0
      BY <1>1, <1>2, <2>1, UsableFacts
         DEF EffectInv, SourceCallLeavesATrace, Blocked, TypeOK
    <3>. QED
      BY <1>1, <1>2, <1>3, <1>5, <1>6, <2>1, <3>1, UsableFacts
         DEF EffectInv, SourceCallLeavesATrace
  <2>2. CASE op = "writes"
    BY <1>1, <1>2, <1>3, <1>5, <1>6, <2>2, UsableFacts
       DEF EffectInv, SourceCallLeavesATrace, Blocked
  <2>. QED
    BY <2>1, <2>2 DEF Operations
<1>10. WriterAccounts'
  <2>1. SUFFICES ASSUME NEW j \in Keys PROVE
          /\ known'[j] <= written'[j]
          /\ written'[j] <= paid'[j]
          /\ written'[j] > known'[j] =>
               \/ stopped'
               \/ /\ rows'[j].state = "CLAIMED"
                  /\ rows'[j].phase = "WRITE_INTENT"
                  /\ LiveClaim(j)' \in uncertain'
          /\ /\ rows'[j].state = "CLAIMED"
             /\ rows'[j].phase = "WRITE_INTENT"
             /\ LiveClaim(j)' \notin uncertain'
             => written'[j] < paid'[j]
    BY DEF WriterAccounts
  <2>2. CASE j # k
    BY <1>1, <1>5, <1>6, <2>2 DEF EffectInv, WriterAccounts, LiveClaim
  <2>3. CASE j = k
    <3>1. written[k] \in Nat /\ known[k] \in Nat /\ paid[k] \in Nat
      BY <1>2 DEF TypeOK
    <3>2. ~(written[k] > known[k]) /\ known[k] <= written[k] /\ written[k] <= paid[k]
      BY <1>1, <1>2, UsableFacts DEF EffectInv, WriterAccounts
    <3>3. written[k] <= paid'[k] /\ (op = "writes" => written[k] < paid'[k])
      BY <1>6, <3>1, <3>2
    <3>4. rows'[k].phase = "WRITE_INTENT" => op = "writes"
      BY <1>3, <1>5
    <3>. QED
      BY <1>1, <2>3, <3>1, <3>2, <3>3, <3>4
  <2>. QED
    BY <2>2, <2>3
<1>. QED
  BY <1>7, <1>8, <1>9, <1>10 DEF EffectInv

(* Ledger.finish never ends an attempt with an unsettled intent. *)
LEMMA FinishStepEffects ==
  ASSUME TypeOK, EffectInv, NEW c \in Issued, NEW s \in Outcomes, NEW e \in Receipts,
         NEW d \in Delays, NEW w \in Cooldowns, Finish(c, s, e, d, w)
  PROVE  EffectInv'
<1>. DEFINE r == IF e = None THEN rows[c.key].checkpoint ELSE e
            row == [RowOf(c) EXCEPT !.state = s, !.phase = "FINISHED",
                      !.checkpoint = r, !.owner = None, !.leaseUntil = 0,
                      !.eligibleAt = clock + d]
            k == c.key
<1>1. /\ Usable(c)
      /\ e = None => rows[k].phase \notin Intents
      /\ UNCHANGED <<uncertain, calls, paid, written, known>>
      /\ stopped => stopped'
  BY DEF Finish, CanFinish
<1>2. k \in Keys /\ rows[k] \in Row
  BY ClaimedRowTyped
<1>3. row.state = s /\ row.phase = "FINISHED" /\ row.checkpoint = r
  BY <1>2 DEF Row
<1>4. rows'[k] = row /\ \A j \in Keys : j # k => rows'[j] = rows[j]
  <2>1. PutRow(k, row)
    BY DEF Finish
  <2>. QED
    BY <1>2, <2>1, PutRowFrame
<1>. HIDE DEF row
<1>5. SingleWriter' /\ IntentsAreHeld'
  BY <1>3, <1>4 DEF EffectInv, SingleWriter, IntentsAreHeld, Intents
<1>6. SourceCallLeavesATrace'
  <2>1. s # "ABSENT"
    BY DEF Outcomes, Blocked
  <2>2. rows[k].state = "CLAIMED"
    BY <1>1, UsableFacts
  <2>. QED
    BY <1>1, <1>2, <1>3, <1>4, <2>1, <2>2
       DEF EffectInv, SourceCallLeavesATrace, Intents, Blocked
<1>7. WriterAccounts'
  <2>1. s # "CLAIMED"
    BY DEF Outcomes, Blocked
  <2>2. ~(written[k] > known[k])
    BY <1>1, <1>2, UsableFacts DEF EffectInv, WriterAccounts
  <2>. QED
    BY <1>1, <1>2, <1>3, <1>4, <2>1, <2>2 DEF EffectInv, WriterAccounts, LiveClaim
<1>. QED
  BY <1>5, <1>6, <1>7 DEF EffectInv

(* Stopping, by anyone and with any claim, keeps a write intent and its barrier. *)
LEMMA StopStepEffects ==
  ASSUME TypeOK, EffectInv, NEW c \in Claims, NEW u \in BOOLEAN, StopClaim(c, u)
  PROVE  EffectInv'
<1>1. CASE ~Current(c)
  BY <1>1 DEF StopClaim, EffectInv, SingleWriter, IntentsAreHeld,
              SourceCallLeavesATrace, WriterAccounts, LiveClaim
<1>2. CASE Current(c)
  <2>. DEFINE s == IF u THEN "PERSISTENCE_UNCERTAIN" ELSE "SAFETY_BLOCKED"
              row == [RowOf(c) EXCEPT !.state = s, !.owner = None, !.leaseUntil = 0,
                                      !.fence = @ + 1]
              k == c.key
  <2>1. k \in Keys /\ rows[k] \in Row
    BY DEF Claims, TypeOK
  <2>2. row.state = s /\ row.phase = rows[k].phase /\ row.checkpoint = rows[k].checkpoint
    BY <2>1 DEF Row
  <2>3. rows'[k] = row /\ \A j \in Keys : j # k => rows'[j] = rows[j]
    <3>1. PutRow(k, row)
      BY <1>2 DEF StopClaim
    <3>. QED
      BY <2>1, <3>1, PutRowFrame
  <2>4. stopped' /\ UNCHANGED <<uncertain, calls, paid, written, known>>
    BY DEF StopClaim
  <2>5. s \in Blocked /\ s # "CLAIMED" /\ s # "ABSENT"
    BY DEF Blocked
  <2>. HIDE DEF row, s
  <2>6. SingleWriter' /\ IntentsAreHeld'
    BY <2>2, <2>3, <2>5 DEF EffectInv, SingleWriter, IntentsAreHeld
  <2>7. SourceCallLeavesATrace'
    BY <2>1, <2>2, <2>3, <2>4, <2>5 DEF EffectInv, SourceCallLeavesATrace
  <2>8. WriterAccounts'
    BY <2>1, <2>2, <2>3, <2>4, <2>5 DEF EffectInv, WriterAccounts, LiveClaim
  <2>. QED
    BY <2>6, <2>7, <2>8 DEF EffectInv
<1>. QED
  BY <1>1, <1>2

(* Ledger.recover blocks and stops whatever an abandoned intent may have done. *)
LEMMA RecoverStepEffects ==
  ASSUME TypeOK, EffectInv, NEW c \in Issued, NEW b \in BOOLEAN, Recover(c, b)
  PROVE  EffectInv'
<1>. DEFINE s == Abandoned(c, b)
            row == [RowOf(c) EXCEPT !.state = s, !.phase = "RECOVERED", !.owner = None,
                                    !.leaseUntil = 0, !.fence = @ + 1]
            k == c.key
<1>1. k \in Keys /\ rows[k] \in Row
  BY ClaimedRowTyped
<1>2. /\ s \in {"DEFERRED"} \cup Blocked /\ s # "CLAIMED" /\ s # "ABSENT"
      /\ s = "DEFERRED" => rows[k].phase \notin Intents
  BY DEF Abandoned, Blocked, Intents
<1>3. row.state = s /\ row.phase = "RECOVERED" /\ row.checkpoint = rows[k].checkpoint
  BY <1>1 DEF Row
<1>4. rows'[k] = row /\ \A j \in Keys : j # k => rows'[j] = rows[j]
  <2>1. PutRow(k, row)
    BY DEF Recover
  <2>. QED
    BY <1>1, <2>1, PutRowFrame
<1>5. /\ UNCHANGED <<uncertain, calls, paid, written, known>>
      /\ stopped => stopped'
      /\ s # "DEFERRED" => stopped'
      /\ rows[k].state = "CLAIMED"
  BY DEF Recover, CanRecover, Current
<1>. HIDE DEF row, s
<1>6. SingleWriter' /\ IntentsAreHeld'
  BY <1>3, <1>4 DEF EffectInv, SingleWriter, IntentsAreHeld, Intents
<1>7. SourceCallLeavesATrace'
  BY <1>1, <1>2, <1>3, <1>4, <1>5
     DEF EffectInv, SourceCallLeavesATrace, Intents, Blocked
<1>8. WriterAccounts'
  BY <1>1, <1>2, <1>3, <1>4, <1>5 DEF EffectInv, WriterAccounts, LiveClaim, Intents
<1>. QED
  BY <1>6, <1>7, <1>8 DEF EffectInv

(* A committed write is both paid for and read back. *)
LEMMA CommitStepEffects ==
  ASSUME TypeOK, EffectInv, NEW c \in Issued, NEW e \in Evidence, NEW b \in BOOLEAN,
         FencedEffectCommit(c, e, b)
  PROVE  EffectInv'
<1>. DEFINE k == c.key
<1>1. /\ Usable(c) /\ rows[k].phase = "WRITE_INTENT" /\ Record(c, e)
      /\ UNCHANGED <<stopped, calls, paid>>
      /\ uncertain \subseteq uncertain'
      /\ written' = Bump(written, k, 1) /\ known' = Bump(known, k, 1)
  BY DEF FencedEffectCommit, EnterWriter
<1>2. k \in Keys
  BY ClaimedRowTyped
<1>3. e # None
  BY EvidenceAssumption
<1>4. SingleWriter' /\ IntentsAreHeld'
  BY <1>1, RecordEffects DEF EffectInv, SingleWriter, IntentsAreHeld, Intents
<1>5. SourceCallLeavesATrace'
  BY <1>1, <1>2, <1>3, UsableFacts, RecordEffects DEF EffectInv, SourceCallLeavesATrace
<1>6. WriterAccounts'
  <2>1. /\ written[k] \in Nat /\ known[k] \in Nat /\ paid[k] \in Nat
        /\ written'[k] = written[k] + 1 /\ known'[k] = known[k] + 1
        /\ \A j \in Keys : j # k => written'[j] = written[j] /\ known'[j] = known[j]
    BY <1>1, <1>2 DEF TypeOK, Bump
  <2>2. /\ ~(written[k] > known[k]) /\ known[k] <= written[k]
        /\ written[k] < paid[k]
    BY <1>1, <1>2, UsableFacts DEF EffectInv, WriterAccounts
  <2>3. /\ known'[k] <= written'[k] /\ written'[k] <= paid'[k]
        /\ ~(written'[k] > known'[k])
    BY <1>1, <2>1, <2>2
  <2>. QED
    BY <1>1, <1>2, <2>1, <2>3, RecordEffects DEF EffectInv, WriterAccounts, LiveClaim
<1>. QED
  BY <1>4, <1>5, <1>6 DEF EffectInv

(* A raised writer uses up its payment and bars its claim from a second entry. *)
LEMMA RollbackStepEffects ==
  ASSUME TypeOK, EffectInv, NEW c \in Issued, NEW b \in BOOLEAN,
         FencedEffectRollback(c, b)
  PROVE  EffectInv'
<1>. DEFINE k == c.key
<1>1. /\ Usable(c) /\ rows[k].phase = "WRITE_INTENT"
      /\ UNCHANGED <<rows, stopped, calls, paid, known>>
      /\ uncertain' = uncertain \cup {c}
      /\ written' = Bump(written, k, IF b THEN 1 ELSE 0)
  BY DEF FencedEffectRollback, EnterWriter
<1>2. k \in Keys
  BY ClaimedRowTyped
<1>3. SingleWriter' /\ IntentsAreHeld' /\ SourceCallLeavesATrace'
  BY <1>1 DEF EffectInv, SingleWriter, IntentsAreHeld, SourceCallLeavesATrace
<1>4. WriterAccounts'
  <2>1. /\ written[k] \in Nat /\ known[k] \in Nat /\ paid[k] \in Nat
        /\ written'[k] \in {written[k], written[k] + 1}
        /\ \A j \in Keys : j # k => written'[j] = written[j]
    BY <1>1, <1>2 DEF TypeOK, Bump
  <2>2. /\ known[k] <= written[k] /\ written[k] < paid[k]
        /\ c = LiveClaim(k) /\ rows[k].state = "CLAIMED"
    BY <1>1, <1>2, UsableFacts DEF EffectInv, WriterAccounts
  <2>3. known'[k] <= written'[k] /\ written'[k] <= paid'[k]
    BY <1>1, <2>1, <2>2
  <2>4. LiveClaim(k)' \in uncertain'
    BY <1>1, <2>2 DEF LiveClaim
  <2>. QED
    BY <1>1, <1>2, <2>1, <2>2, <2>3, <2>4 DEF EffectInv, WriterAccounts, LiveClaim
<1>. QED
  BY <1>3, <1>4 DEF EffectInv

(* Every step of the ledger keeps the accounting of effects. *)
LEMMA NextEffects ==
  ASSUME TypeOK, EffectInv, [Next]_vars
  PROVE  EffectInv'
<1>1. CASE NextGrant
  BY <1>1, QuietStepEffects DEF NextGrant, RegisterGrant
<1>2. CASE NextEnqueue
  BY <1>2, EnqueueStepEffects DEF NextEnqueue, Enqueue, EnqueueChild
<1>3. CASE NextClaim
  BY <1>3, ClaimStepEffects DEF NextClaim
<1>4. CASE NextStage
  BY <1>4, CheckpointStepEffects, IntentStepEffects DEF NextStage
<1>5. CASE NextFinish
  BY <1>5, FinishStepEffects DEF NextFinish
<1>6. CASE NextStop
  <2>1. CASE Stop
    BY <2>1 DEF Stop, EffectInv, SingleWriter, IntentsAreHeld,
                SourceCallLeavesATrace, WriterAccounts, LiveClaim
  <2>2. ASSUME NEW c \in Issued, NEW u \in BOOLEAN, StopClaim(c, u) PROVE EffectInv'
    BY <2>2, StopStepEffects, IssuedAreClaims
  <2>3. ASSUME NEW c \in uncertain, ReportUncertain(c) PROVE EffectInv'
    BY <2>3, StopStepEffects DEF ReportUncertain, TypeOK
  <2>. QED
    BY <1>6, <2>1, <2>2, <2>3 DEF NextStop
<1>7. CASE NextRecover
  BY <1>7, RecoverStepEffects DEF NextRecover
<1>8. CASE NextEffect
  BY <1>8, CommitStepEffects, RollbackStepEffects DEF NextEffect
<1>9. CASE NextCooldown
  BY <1>9, QuietStepEffects DEF NextCooldown, DeferCouncil
<1>10. CASE Tick
  BY <1>10, QuietStepEffects DEF Tick
<1>11. CASE UNCHANGED vars
  BY <1>11, QuietStepEffects DEF vars
<1>. QED
  BY <1>1, <1>2, <1>3, <1>4, <1>5, <1>6, <1>7, <1>8, <1>9, <1>10, <1>11 DEF Next

(* The accounting of effects holds in every reachable state of every ledger. *)
THEOREM EffectsAccounted == Spec => []EffectInv
<1>1. Init => EffectInv
  BY InitEffects
<1>2. TypeOK /\ EffectInv /\ [Next]_vars => EffectInv'
  BY NextEffects
<1>. QED
  BY <1>1, <1>2, TypeCorrect, PTL DEF Spec

(* Two items are never between a write intent and its read-back at once. *)
THEOREM OneWriter == Spec => []SingleWriter
<1>1. EffectInv => SingleWriter
  BY DEF EffectInv
<1>. QED
  BY <1>1, EffectsAccounted, PTL

(* No item is given two source calls, however often it is leased. *)
THEOREM SourceCalledAtMostOnce == Spec => []AtMostOneSourceCall
<1>1. TypeOK /\ EffectInv => AtMostOneSourceCall
  BY DEF TypeOK, EffectInv, SourceCallLeavesATrace, AtMostOneSourceCall
<1>. QED
  BY <1>1, TypeCorrect, EffectsAccounted, PTL

(* A committed write the ledger does not know of is barred or everything is stopped. *)
THEOREM UnknownWritesGuarded == Spec => []UnknownWriteIsGuarded
<1>1. EffectInv => UnknownWriteIsGuarded
  BY DEF EffectInv, WriterAccounts, UnknownWriteIsGuarded
<1>. QED
  BY <1>1, EffectsAccounted, PTL

(* External writes never outnumber the allowance spent on them. *)
THEOREM WritesPaid == Spec => []WritesArePaid
<1>1. EffectInv => WritesArePaid
  BY DEF EffectInv, WriterAccounts, WritesArePaid
<1>. QED
  BY <1>1, EffectsAccounted, PTL

-----------------------------------------------------------------------------
(* Leases, attempts and dependencies: the invariant LeaseInv of LedgerProperties and what
   follows from it. *)

USE DEF control, history, RowOf, AttemptOf

(* An UPDATE of the attempt table by (work_key, fence) changes that row alone. *)
LEMMA PutAttemptFrame ==
  ASSUME TypeOK, NEW k \in Keys, NEW f \in Fences, NEW row, PutAttempt(k, f, row)
  PROVE  /\ attempts'[k][f] = row
         /\ \A g \in Fences : g # f => attempts'[k][g] = attempts[k][g]
         /\ \A j \in Keys : j # k => attempts'[j] = attempts[j]
BY DEF TypeOK, PutAttempt

(* The attempts filed for one item are finitely many. *)
LEMMA FiledIsFinite ==
  ASSUME NEW k \in Keys
  PROVE  IsFiniteSet(Filed(k))
<1>1. IsFiniteSet(Fences)
  BY BoundAssumption, FS_Interval DEF Fences
<1>2. Filed(k) \subseteq Fences
  BY DEF Filed
<1>. QED
  BY <1>1, <1>2, FS_Subset

(* A step of a holder or of recovery: the attempt of the live fence keeps its owner,
   the others are untouched, and the row either keeps its lease in step with that
   attempt or gives it up and closes the attempt (checkpoint, intent, finish, stop,
   recover and a fenced effect that commits). *)
LEMMA HeldStepAccounts ==
  ASSUME TypeOK, TypeOK', NEW k \in Keys, LeaseAccounts(k),
         NEW f \in Fences, f = rows[k].fence, rows[k].state = "CLAIMED",
         rows'[k].tries = rows[k].tries, rows'[k].maxAttempts = rows[k].maxAttempts,
         attempts'[k][f].owner = attempts[k][f].owner,
         \A g \in Fences : g # f => attempts'[k][g] = attempts[k][g],
         \/ /\ rows'[k].state = "CLAIMED" /\ rows'[k].fence = f
            /\ rows'[k].owner = rows[k].owner
            /\ attempts'[k][f].open
            /\ attempts'[k][f].phase = rows'[k].phase
            /\ attempts'[k][f].checkpoint = rows'[k].checkpoint
         \/ /\ rows'[k].state \notin {"CLAIMED", "ABSENT"} /\ rows'[k].owner = None
            /\ rows'[k].fence \in {f, f + 1}
            /\ ~attempts'[k][f].open
  PROVE  LeaseAccounts(k)'
<1>1. \A g \in Fences : attempts'[k][g].owner = attempts[k][g].owner
  OBVIOUS
<1>2. Filed(k)' = Filed(k)
  BY <1>1 DEF Filed
<1>3. /\ rows[k] \in Row /\ rows'[k] \in Row
      /\ \A g \in Fences : attempts[k][g] \in Attempt /\ attempts'[k][g] \in Attempt
  BY DEF TypeOK
<1>4. rows[k].fence \in Nat /\ rows'[k].fence \in Nat /\ rows[k].tries \in Nat
  BY <1>3 DEF Row
<1>5. \A g \in Fences : attempts[k][g].open \in BOOLEAN /\ attempts'[k][g].open \in BOOLEAN
  BY <1>3 DEF Attempt
<1>6. Cardinality(Filed(k))' = rows'[k].tries /\ rows'[k].tries <= rows'[k].maxAttempts
  BY <1>2 DEF LeaseAccounts
<1>7. \A g \in Fences : g # f => ~attempts'[k][g].open
  BY <1>5 DEF LeaseAccounts
<1>8. /\ \A g \in Filed(k)' : g <= rows'[k].fence
      /\ rows'[k].fence <= 2 * rows'[k].tries
      /\ rows'[k].state = "CLAIMED" => rows'[k].fence < 2 * rows'[k].tries
  BY <1>2, <1>4 DEF LeaseAccounts, Fences, Filed
<1>9. \A g \in Fences :
        attempts'[k][g].open <=>
          /\ rows'[k].state = "CLAIMED" /\ rows'[k].fence = g
          /\ attempts'[k][g].owner = rows'[k].owner
          /\ attempts'[k][g].phase = rows'[k].phase
          /\ attempts'[k][g].checkpoint = rows'[k].checkpoint
  BY <1>1, <1>5, <1>7 DEF LeaseAccounts
<1>10. rows'[k].owner # None <=> rows'[k].state = "CLAIMED"
  BY DEF LeaseAccounts
<1>11. /\ rows'[k].state = "ABSENT" => rows'[k] = NoRow
       /\ rows'[k].state = "CLAIMED" =>
            rows'[k].fence \in Fences /\ attempts'[k][rows'[k].fence].open
  OBVIOUS
<1>. QED
  BY <1>6, <1>8, <1>9, <1>10, <1>11 DEF LeaseAccounts

(* The step of one existing item: what the other conjuncts of LeaseInv ask of it. *)
LEMMA OneItemStep ==
  ASSUME TypeOK, TypeOK', LeaseInv, NEW k \in Keys, LeaseAccounts(k)',
         \A j \in Keys : j # k => rows'[j] = rows[j] /\ attempts'[j] = attempts[j],
         rows'[k].deps = rows[k].deps,
         rows[k].state # "ABSENT", rows'[k].state # "ABSENT",
         rows[k].state # "COMPLETE",
         rows'[k].state \in {"CLAIMED", "COMPLETE"}
           => \A d \in rows[k].deps : rows[d].state = "COMPLETE"
  PROVE  LeaseInv'
<1>1. \A j \in Keys : LeaseAccounts(j)'
  <2>. SUFFICES ASSUME NEW j \in Keys, j # k PROVE LeaseAccounts(j)'
    OBVIOUS
  <2>1. rows'[j] = rows[j] /\ attempts'[j] = attempts[j] /\ LeaseAccounts(j)
    BY DEF LeaseInv
  <2>2. Filed(j)' = Filed(j)
    BY <2>1 DEF Filed
  <2>. QED
    BY <2>1, <2>2 DEF LeaseAccounts
<1>2. \A j \in Keys : rows'[j].deps = rows[j].deps /\ (Exists(j)' <=> Exists(j))
  BY DEF Exists
<1>3. \A j \in Keys : rows[j].deps \subseteq Keys
  BY DEF TypeOK, Row
<1>4. DependenciesExist'
  BY <1>2, <1>3 DEF LeaseInv, DependenciesExist
<1>5. \A d \in Keys : rows[d].state = "COMPLETE" => rows'[d].state = "COMPLETE"
  OBVIOUS
<1>6. DependenciesComplete'
  BY <1>2, <1>3, <1>5 DEF LeaseInv, DependenciesComplete
<1>7. DependenciesAcyclic'
  <2>1. Enqueued' = Enqueued
    BY <1>2 DEF Enqueued
  <2>. QED
    BY <1>2, <2>1 DEF LeaseInv, DependenciesAcyclic, Enqueued
<1>. QED
  BY <1>1, <1>4, <1>6, <1>7 DEF LeaseInv
-----------------------------------------------------------------------------
(* One lemma per step. *)

(* Neither table is touched: grants, cooldowns, the bare stop, a raising writer. *)
LEMMA QuietStepLeases ==
  ASSUME LeaseInv, UNCHANGED <<rows, attempts>>
  PROVE  LeaseInv'
<1>1. \A k \in Keys : LeaseAccounts(k)'
  <2>. SUFFICES ASSUME NEW k \in Keys PROVE LeaseAccounts(k)'
    OBVIOUS
  <2>1. Filed(k)' = Filed(k)
    BY DEF Filed
  <2>. QED
    BY <2>1 DEF LeaseInv, LeaseAccounts
<1>2. DependenciesExist' /\ DependenciesComplete' /\ DependenciesAcyclic'
  BY DEF LeaseInv, DependenciesExist, DependenciesComplete, DependenciesAcyclic, Exists,
         Enqueued
<1>. QED
  BY <1>1, <1>2 DEF LeaseInv

(* The empty tables (schema.install). *)
LEMMA InitLeases == Init => LeaseInv
<1>. SUFFICES ASSUME Init PROVE LeaseInv
  OBVIOUS
<1>1. \A k \in Keys : Filed(k) = {} /\ Cardinality(Filed(k)) = 0
  BY FS_EmptySet DEF Init, Filed, NoAttempt
<1>2. \A k \in Keys : LeaseAccounts(k)
  BY <1>1 DEF Init, LeaseAccounts, NoRow, NoAttempt
<1>3. DependenciesExist /\ DependenciesComplete /\ DependenciesAcyclic
  BY DEF Init, DependenciesExist, DependenciesComplete, DependenciesAcyclic, NoRow,
         Enqueued, Exists
<1>. QED
  BY <1>2, <1>3 DEF LeaseInv

(* Ledger.enqueue adds an item whose dependencies are all there, so no cycle closes. *)
LEMMA EnqueueStepLeases ==
  ASSUME TypeOK, TypeOK', LeaseInv, NEW r \in EnqueueRequests, Insert(r)
  PROVE  LeaseInv'
<1>. DEFINE k == r.key
            row == NewRow(r)
<1>1. /\ k \in Keys /\ row.deps = r.deps /\ r.deps \subseteq Keys
      /\ row.state \notin {"ABSENT", "CLAIMED", "COMPLETE"}
      /\ row.owner = None /\ row.fence = 0 /\ row.tries = 0
      /\ row.maxAttempts = r.maxAttempts /\ r.maxAttempts \in 1 .. MaxTries
  BY RequestAssumption DEF Requests, NewRow, NoRow, Claimable, Blocked
<1>2. rows'[k] = row /\ \A j \in Keys : j # k => rows'[j] = rows[j]
  BY <1>1, PutRowFrame DEF Insert
<1>3. /\ rows[k].state = "ABSENT" /\ attempts' = attempts
      /\ k \notin r.deps /\ \A d \in r.deps : rows[d].state # "ABSENT"
  BY DEF Insert, Exists
<1>. HIDE DEF row
<1>4. \A j \in Keys : LeaseAccounts(j)'
  <2>1. ASSUME NEW j \in Keys, j # k PROVE LeaseAccounts(j)'
    <3>1. Filed(j)' = Filed(j)
      BY <1>3 DEF Filed
    <3>. QED
      BY <1>2, <1>3, <2>1, <3>1 DEF LeaseInv, LeaseAccounts
  <2>2. LeaseAccounts(k)'
    <3>1. Filed(k)' = Filed(k)
      BY <1>3 DEF Filed
    <3>2. LeaseAccounts(k) /\ rows[k].state = "ABSENT"
      BY <1>1, <1>3 DEF LeaseInv
    <3>3. rows[k].tries = 0 /\ rows[k].fence = 0 /\ rows[k].state # "CLAIMED"
      BY <3>2 DEF LeaseAccounts, NoRow
    <3>4. Cardinality(Filed(k)) = 0 /\ \A f \in Filed(k) : f <= 0
      BY <3>2, <3>3 DEF LeaseAccounts
    <3>5. \A f \in Fences : ~attempts[k][f].open
      <4>1. \A f \in Fences : attempts[k][f] \in Attempt
        BY <1>1 DEF TypeOK
      <4>. QED
        BY <3>2, <3>3, <4>1 DEF LeaseAccounts, Attempt
    <3>. QED
      BY <1>1, <1>2, <1>3, <3>1, <3>4, <3>5 DEF LeaseAccounts
  <2>. QED
    BY <2>1, <2>2
<1>5. \A j \in Keys : j # k => k \notin rows[j].deps
  BY <1>1, <1>3 DEF LeaseInv, DependenciesExist, Exists
<1>6. /\ rows'[k].deps = r.deps /\ rows'[k].state \notin {"ABSENT", "CLAIMED", "COMPLETE"}
      /\ \A j \in Keys : rows[j].deps \subseteq Keys
  BY <1>1, <1>2 DEF TypeOK, Row
<1>7. DependenciesExist' /\ DependenciesComplete'
  <2>1. ASSUME NEW j \in Keys, NEW d \in rows'[j].deps
        PROVE  /\ Exists(j)' /\ Exists(d)'
               /\ rows'[j].state \in {"CLAIMED", "COMPLETE"} => rows'[d].state = "COMPLETE"
    <3>1. CASE j = k
      BY <1>1, <1>2, <1>3, <1>6, <2>1, <3>1 DEF Exists
    <3>2. CASE j # k
      BY <1>2, <1>5, <1>6, <2>1, <3>2
         DEF LeaseInv, DependenciesExist, DependenciesComplete, Exists
    <3>. QED
      BY <3>1, <3>2
  <2>. QED
    BY <2>1 DEF DependenciesExist, DependenciesComplete
<1>8. DependenciesAcyclic'
  <2>. SUFFICES ASSUME NEW S \in SUBSET Enqueued', S # {}
                PROVE  \E j \in S : rows'[j].deps \cap S = {}
    BY DEF DependenciesAcyclic
  <2>1. S \subseteq Keys /\ S \ {k} \subseteq Enqueued
    BY <1>2 DEF Enqueued, Exists
  <2>2. CASE S \ {k} = {}
    BY <1>1, <1>2, <1>3, <2>2
  <2>3. CASE S \ {k} # {}
    <3>1. PICK j \in S \ {k} : rows[j].deps \cap (S \ {k}) = {}
      BY <2>1, <2>3 DEF LeaseInv, DependenciesAcyclic
    <3>. QED
      BY <1>2, <1>5, <2>1, <3>1
  <2>. QED
    BY <2>2, <2>3
<1>. QED
  BY <1>4, <1>7, <1>8 DEF LeaseInv

(* Ledger.claim opens one attempt under a fresh fence. *)
LEMMA ClaimStepLeases ==
  ASSUME TypeOK, TypeOK', LeaseInv, NEW k \in Keys, NEW o \in Owners,
         NEW a \in Authorities, NEW l \in Leases, Claim(k, o, a, l)
  PROVE  LeaseInv'
<1>. DEFINE f == rows[k].fence + 1
            row == [rows[k] EXCEPT !.state = "CLAIMED", !.phase = "CLAIMED",
                     !.owner = o, !.authority = a, !.fence = f,
                     !.tries = @ + 1, !.leaseUntil = clock + l]
            attempt == [owner |-> o, phase |-> "CLAIMED",
                        checkpoint |-> rows[k].checkpoint, open |-> TRUE]
<1>1. /\ rows[k] \in Row /\ rows[k].state \in Claimable
      /\ rows[k].tries < rows[k].maxAttempts
      /\ \A d \in rows[k].deps : rows[d].state = "COMPLETE"
      /\ PutRow(k, row) /\ PutAttempt(k, f, attempt)
  BY DEF Claim, CanClaim, TypeOK
<1>2. LeaseAccounts(k)
  BY DEF LeaseInv
<1>3. /\ rows[k].fence \in Nat /\ rows[k].tries \in Nat
      /\ rows[k].maxAttempts \in 1 .. MaxTries
  BY <1>1 DEF Row
<1>4. rows[k].fence <= 2 * rows[k].tries /\ rows[k].tries < MaxTries
  BY <1>1, <1>2, <1>3, BoundAssumption DEF LeaseAccounts
<1>5. f \in Fences
  BY <1>3, <1>4, BoundAssumption DEF Fences
<1>6. /\ row.state = "CLAIMED" /\ row.phase = "CLAIMED" /\ row.owner = o
      /\ row.fence = f /\ row.tries = rows[k].tries + 1
      /\ row.maxAttempts = rows[k].maxAttempts /\ row.deps = rows[k].deps
      /\ row.checkpoint = rows[k].checkpoint
  BY <1>1 DEF Row
<1>7. rows'[k] = row /\ \A j \in Keys : j # k => rows'[j] = rows[j]
  BY <1>1, PutRowFrame
<1>8. /\ attempts'[k][f] = attempt
      /\ \A g \in Fences : g # f => attempts'[k][g] = attempts[k][g]
      /\ \A j \in Keys : j # k => attempts'[j] = attempts[j]
  BY <1>1, <1>5, PutAttemptFrame
<1>. HIDE DEF row
<1>9. o # None
  BY EvidenceAssumption
<1>10. Filed(k)' = Filed(k) \cup {f} /\ f \notin Filed(k)
  <2>1. f \notin Filed(k)
    BY <1>2, <1>3 DEF LeaseAccounts
  <2>2. \A g \in Fences : attempts'[k][g].owner # None
                             <=> g = f \/ attempts[k][g].owner # None
    BY <1>8, <1>9
  <2>. QED
    BY <1>5, <2>1, <2>2 DEF Filed
<1>11. Cardinality(Filed(k))' = rows[k].tries + 1
  <2>1. IsFiniteSet(Filed(k)) /\ Cardinality(Filed(k)) = rows[k].tries
    BY <1>2, FiledIsFinite DEF LeaseAccounts
  <2>2. Cardinality(Filed(k) \cup {f}) = Cardinality(Filed(k)) + 1
    BY <1>10, <2>1, FS_AddElement
  <2>. QED
    BY <1>10, <2>1, <2>2
<1>12. \A g \in Fences : g # f => ~attempts'[k][g].open
  <2>1. \A g \in Fences : attempts[k][g] \in Attempt
    BY DEF TypeOK
  <2>2. rows[k].state # "CLAIMED"
    BY <1>1 DEF Claimable
  <2>3. \A g \in Fences : ~attempts[k][g].open
    BY <1>2, <2>1, <2>2 DEF LeaseAccounts, Attempt
  <2>. QED
    BY <1>8, <2>3
<1>13. LeaseAccounts(k)'
  <2>1. \A g \in Fences :
          attempts'[k][g].open <=>
            /\ rows'[k].state = "CLAIMED" /\ rows'[k].fence = g
            /\ attempts'[k][g].owner = rows'[k].owner
            /\ attempts'[k][g].phase = rows'[k].phase
            /\ attempts'[k][g].checkpoint = rows'[k].checkpoint
    BY <1>6, <1>7, <1>8, <1>12
  <2>2. \A g \in Filed(k)' : g <= rows'[k].fence
    BY <1>2, <1>3, <1>6, <1>7, <1>10 DEF LeaseAccounts, Filed, Fences
  <2>3. /\ rows'[k].fence < 2 * rows'[k].tries
        /\ rows'[k].fence <= 2 * rows'[k].tries
        /\ rows'[k].tries <= rows'[k].maxAttempts
    BY <1>1, <1>3, <1>4, <1>6, <1>7
  <2>. QED
    BY <1>5, <1>6, <1>7, <1>8, <1>9, <1>11, <2>1, <2>2, <2>3 DEF LeaseAccounts
<1>. QED
  BY <1>1, <1>6, <1>7, <1>8, <1>13, OneItemStep DEF Claimable
(* What a current claim says of its row and of the attempt it names. *)
LEMMA CurrentAccounts ==
  ASSUME TypeOK, LeaseInv, NEW c \in Claims, Current(c)
  PROVE  /\ c.key \in Keys /\ c.fence \in Fences /\ c.fence = rows[c.key].fence
         /\ rows[c.key] \in Row /\ attempts[c.key][c.fence] \in Attempt
         /\ rows[c.key].state = "CLAIMED" /\ LeaseAccounts(c.key)
         /\ attempts[c.key][c.fence].open
         /\ attempts[c.key][c.fence].owner = rows[c.key].owner
         /\ attempts[c.key][c.fence].phase = rows[c.key].phase
         /\ attempts[c.key][c.fence].checkpoint = rows[c.key].checkpoint
         /\ \A d \in rows[c.key].deps : rows[d].state = "COMPLETE"
<1>1. c.key \in Keys /\ c.fence \in Fences
  BY DEF Claims
<1>2. rows[c.key] \in Row /\ attempts[c.key][c.fence] \in Attempt
  BY <1>1 DEF TypeOK
<1>3. c.fence = rows[c.key].fence /\ rows[c.key].state = "CLAIMED"
  BY DEF Current
<1>4. LeaseAccounts(c.key) /\ DependenciesComplete
  BY <1>1 DEF LeaseInv
<1>. QED
  BY <1>1, <1>2, <1>3, <1>4 DEF LeaseAccounts, DependenciesComplete

(* Any step that updates the row and the attempt of a current claim together. *)
LEMMA CurrentStep ==
  ASSUME TypeOK, TypeOK', LeaseInv, NEW c \in Claims, Current(c),
         NEW row, NEW attempt, PutRow(c.key, row), PutAttempt(c.key, c.fence, attempt),
         row.tries = rows[c.key].tries, row.maxAttempts = rows[c.key].maxAttempts,
         row.deps = rows[c.key].deps, attempt.owner = attempts[c.key][c.fence].owner,
         \/ /\ row.state = "CLAIMED" /\ row.fence = c.fence
            /\ row.owner = rows[c.key].owner /\ attempt.open
            /\ attempt.phase = row.phase /\ attempt.checkpoint = row.checkpoint
         \/ /\ row.state \notin {"CLAIMED", "ABSENT"} /\ row.owner = None
            /\ row.fence \in {c.fence, c.fence + 1}
            /\ ~attempt.open
  PROVE  LeaseInv'
<1>1. /\ rows'[c.key] = row
      /\ \A j \in Keys : j # c.key => rows'[j] = rows[j]
  BY CurrentAccounts, PutRowFrame
<1>2. /\ attempts'[c.key][c.fence] = attempt
      /\ \A g \in Fences : g # c.fence => attempts'[c.key][g] = attempts[c.key][g]
      /\ \A j \in Keys : j # c.key => attempts'[j] = attempts[j]
  BY CurrentAccounts, PutAttemptFrame
<1>3. LeaseAccounts(c.key)'
  BY <1>1, <1>2, CurrentAccounts, HeldStepAccounts
<1>. QED
  BY <1>1, <1>2, <1>3, CurrentAccounts, OneItemStep

(* A usable claim is current. *)
LEMMA UsableIsCurrent ==
  ASSUME TypeOK, NEW c \in Issued, Usable(c)
  PROVE  c \in Claims /\ Current(c)
BY IssuedAreClaims DEF Usable, Owned

(* checkpoint and a fenced effect that commits: the paired update of both tables. *)
LEMMA RecordLeases ==
  ASSUME TypeOK, TypeOK', LeaseInv, NEW c \in Issued, Usable(c), NEW e \in Evidence,
         Record(c, e)
  PROVE  LeaseInv'
<1>. DEFINE row == [RowOf(c) EXCEPT !.phase = "CHECKPOINTED", !.checkpoint = e]
            attempt == [AttemptOf(c) EXCEPT !.phase = "CHECKPOINTED", !.checkpoint = e]
<1>1. PutRow(c.key, row) /\ PutAttempt(c.key, c.fence, attempt)
  BY DEF Record
<1>2. c \in Claims /\ Current(c)
  BY UsableIsCurrent
<1>3. /\ row.tries = rows[c.key].tries /\ row.maxAttempts = rows[c.key].maxAttempts
      /\ row.deps = rows[c.key].deps /\ row.state = "CLAIMED" /\ row.fence = c.fence
      /\ row.owner = rows[c.key].owner /\ row.phase = "CHECKPOINTED"
      /\ row.checkpoint = e
  BY <1>2, CurrentAccounts DEF Row
<1>4. /\ attempt.owner = attempts[c.key][c.fence].owner /\ attempt.open
      /\ attempt.phase = "CHECKPOINTED" /\ attempt.checkpoint = e
  BY <1>2, CurrentAccounts DEF Attempt
<1>. HIDE DEF row, attempt
<1>. QED
  BY <1>1, <1>2, <1>3, <1>4, CurrentStep

(* Ledger.intent keeps the lease and moves row and attempt to the same phase. *)
LEMMA IntentStepLeases ==
  ASSUME TypeOK, TypeOK', LeaseInv, NEW c \in Issued, NEW op \in Operations,
         NEW cost \in 1 .. 2, Intent(c, op, cost)
  PROVE  LeaseInv'
<1>. DEFINE phase == IF op = "writes" THEN "WRITE_INTENT" ELSE "SOURCE_INTENT"
            row == [RowOf(c) EXCEPT !.phase = phase]
            attempt == [AttemptOf(c) EXCEPT !.phase = phase]
<1>1. PutRow(c.key, row) /\ PutAttempt(c.key, c.fence, attempt)
  BY DEF Intent
<1>2. c \in Claims /\ Current(c)
  BY UsableIsCurrent DEF Intent, CanIntent
<1>3. /\ row.tries = rows[c.key].tries /\ row.maxAttempts = rows[c.key].maxAttempts
      /\ row.deps = rows[c.key].deps /\ row.state = "CLAIMED" /\ row.fence = c.fence
      /\ row.owner = rows[c.key].owner /\ row.phase = phase
      /\ row.checkpoint = rows[c.key].checkpoint
  BY <1>2, CurrentAccounts DEF Row
<1>4. /\ attempt.owner = attempts[c.key][c.fence].owner /\ attempt.open
      /\ attempt.phase = phase /\ attempt.checkpoint = rows[c.key].checkpoint
  BY <1>2, CurrentAccounts DEF Attempt
<1>. HIDE DEF row, attempt
<1>. QED
  BY <1>1, <1>2, <1>3, <1>4, CurrentStep

(* Ledger.finish gives the lease up and closes its attempt. *)
LEMMA FinishStepLeases ==
  ASSUME TypeOK, TypeOK', LeaseInv, NEW c \in Issued, NEW s \in Outcomes,
         NEW e \in Receipts, NEW d \in Delays, NEW w \in Cooldowns, Finish(c, s, e, d, w)
  PROVE  LeaseInv'
<1>. DEFINE r == IF e = None THEN rows[c.key].checkpoint ELSE e
            row == [RowOf(c) EXCEPT !.state = s, !.phase = "FINISHED",
                      !.checkpoint = r, !.owner = None, !.leaseUntil = 0,
                      !.eligibleAt = clock + d]
            attempt == [AttemptOf(c) EXCEPT !.phase = "FINISHED", !.open = FALSE,
                          !.checkpoint = IF e = None THEN @ ELSE e]
<1>1. PutRow(c.key, row) /\ PutAttempt(c.key, c.fence, attempt)
  BY DEF Finish
<1>2. c \in Claims /\ Current(c)
  BY UsableIsCurrent DEF Finish, CanFinish
<1>3. /\ row.tries = rows[c.key].tries /\ row.maxAttempts = rows[c.key].maxAttempts
      /\ row.deps = rows[c.key].deps /\ row.state = s /\ row.fence = c.fence
      /\ row.owner = None
  BY <1>2, CurrentAccounts DEF Row
<1>4. attempt.owner = attempts[c.key][c.fence].owner /\ ~attempt.open
  BY <1>2, CurrentAccounts DEF Attempt
<1>5. s \notin {"CLAIMED", "ABSENT"}
  BY DEF Outcomes, Blocked
<1>. HIDE DEF row, attempt
<1>. QED
  BY <1>1, <1>2, <1>3, <1>4, <1>5, CurrentStep

(* Ledger.stop with a claim blocks the item and closes its attempt, or does nothing. *)
LEMMA StopStepLeases ==
  ASSUME TypeOK, TypeOK', LeaseInv, NEW c \in Claims, NEW u \in BOOLEAN, StopClaim(c, u)
  PROVE  LeaseInv'
<1>1. CASE ~Current(c)
  BY <1>1, QuietStepLeases DEF StopClaim
<1>2. CASE Current(c)
  <2>. DEFINE s == IF u THEN "PERSISTENCE_UNCERTAIN" ELSE "SAFETY_BLOCKED"
              row == [RowOf(c) EXCEPT !.state = s, !.owner = None, !.leaseUntil = 0,
                                      !.fence = @ + 1]
              attempt == [AttemptOf(c) EXCEPT !.open = FALSE]
  <2>1. PutRow(c.key, row) /\ PutAttempt(c.key, c.fence, attempt)
    BY <1>2 DEF StopClaim
  <2>2. /\ row.tries = rows[c.key].tries /\ row.maxAttempts = rows[c.key].maxAttempts
        /\ row.deps = rows[c.key].deps /\ row.state \notin {"CLAIMED", "ABSENT"}
        /\ row.fence = c.fence + 1 /\ row.owner = None
    BY <1>2, CurrentAccounts DEF Row
  <2>3. attempt.owner = attempts[c.key][c.fence].owner /\ ~attempt.open
    BY <1>2, CurrentAccounts DEF Attempt
  <2>. HIDE DEF row, attempt
  <2>. QED
    BY <1>2, <2>1, <2>2, <2>3, CurrentStep
<1>. QED
  BY <1>1, <1>2

(* Ledger.recover takes the lease away under a new fence and closes its attempt. *)
LEMMA RecoverStepLeases ==
  ASSUME TypeOK, TypeOK', LeaseInv, NEW c \in Issued, NEW b \in BOOLEAN, Recover(c, b)
  PROVE  LeaseInv'
<1>. DEFINE row == [RowOf(c) EXCEPT !.state = Abandoned(c, b), !.phase = "RECOVERED",
                      !.owner = None, !.leaseUntil = 0, !.fence = @ + 1]
            attempt == [AttemptOf(c) EXCEPT !.phase = "RECOVERED", !.open = FALSE]
<1>1. PutRow(c.key, row) /\ PutAttempt(c.key, c.fence, attempt)
  BY DEF Recover
<1>2. c \in Claims /\ Current(c)
  BY IssuedAreClaims DEF Recover, CanRecover
<1>3. Abandoned(c, b) \notin {"CLAIMED", "ABSENT"}
  BY DEF Abandoned
<1>4. /\ row.tries = rows[c.key].tries /\ row.maxAttempts = rows[c.key].maxAttempts
      /\ row.deps = rows[c.key].deps /\ row.state = Abandoned(c, b)
      /\ row.fence = c.fence + 1 /\ row.owner = None
  BY <1>2, CurrentAccounts DEF Row
<1>5. attempt.owner = attempts[c.key][c.fence].owner /\ ~attempt.open
  BY <1>2, CurrentAccounts DEF Attempt
<1>. HIDE DEF row, attempt
<1>. QED
  BY <1>1, <1>2, <1>3, <1>4, <1>5, CurrentStep

(* Every step of the ledger keeps leases, attempts and dependencies in step. *)
LEMMA NextLeases ==
  ASSUME TypeOK, TypeOK', LeaseInv, [Next]_vars
  PROVE  LeaseInv'
<1>1. CASE NextGrant
  BY <1>1, QuietStepLeases DEF NextGrant, RegisterGrant
<1>2. CASE NextEnqueue
  BY <1>2, EnqueueStepLeases DEF NextEnqueue, Enqueue, EnqueueChild
<1>3. CASE NextClaim
  BY <1>3, ClaimStepLeases DEF NextClaim
<1>4. CASE NextStage
  BY <1>4, RecordLeases, IntentStepLeases DEF NextStage, Checkpoint
<1>5. CASE NextFinish
  BY <1>5, FinishStepLeases DEF NextFinish
<1>6. CASE NextStop
  <2>1. CASE Stop
    BY <2>1, QuietStepLeases DEF Stop
  <2>2. ASSUME NEW c \in Issued, NEW u \in BOOLEAN, StopClaim(c, u) PROVE LeaseInv'
    BY <2>2, StopStepLeases, IssuedAreClaims
  <2>3. ASSUME NEW c \in uncertain, ReportUncertain(c) PROVE LeaseInv'
    BY <2>3, StopStepLeases DEF ReportUncertain, TypeOK
  <2>. QED
    BY <1>6, <2>1, <2>2, <2>3 DEF NextStop
<1>7. CASE NextRecover
  BY <1>7, RecoverStepLeases DEF NextRecover
<1>8. CASE NextEffect
  BY <1>8, RecordLeases, QuietStepLeases
     DEF NextEffect, FencedEffectCommit, FencedEffectRollback, EnterWriter
<1>9. CASE NextCooldown
  BY <1>9, QuietStepLeases DEF NextCooldown, DeferCouncil
<1>10. CASE Tick
  BY <1>10, QuietStepLeases DEF Tick
<1>11. CASE UNCHANGED vars
  BY <1>11, QuietStepLeases DEF vars
<1>. QED
  BY <1>1, <1>2, <1>3, <1>4, <1>5, <1>6, <1>7, <1>8, <1>9, <1>10, <1>11 DEF Next

(* Leases, attempts and dependencies agree in every reachable state of every ledger. *)
THEOREM LeasesAccounted == Spec => []LeaseInv
<1>1. Init => LeaseInv
  BY InitLeases
<1>2. TypeOK /\ TypeOK' /\ LeaseInv /\ [Next]_vars => LeaseInv'
  BY NextLeases
<1>. QED
  BY <1>1, <1>2, TypeCorrect, PTL DEF Spec

(* The attempt table and the work table agree on what is leased, by whom, in which
   phase and with which receipt (claim, stop, recover, finish). *)
THEOREM OpenAttemptsAreLeases == Spec => []OpenAttemptIsTheLease
<1>1. LeaseInv => OpenAttemptIsTheLease
  BY DEF LeaseInv, LeaseAccounts, OpenAttemptIsTheLease
<1>. QED
  BY <1>1, LeasesAccounted, PTL

(* One attempt row per lease ever given, never more than max_attempts of them. *)
THEOREM EveryAttemptAccounted == Spec => []AttemptsAreAccounted
<1>1. LeaseInv => AttemptsAreAccounted
  BY DEF LeaseInv, LeaseAccounts, AttemptsAreAccounted, Filed
<1>. QED
  BY <1>1, LeasesAccounted, PTL

(* What an item waits for stays complete while it is leased and after. *)
THEOREM DependenciesStayComplete == Spec => []DependenciesComplete
<1>1. LeaseInv => DependenciesComplete
  BY DEF LeaseInv
<1>. QED
  BY <1>1, LeasesAccounted, PTL

(* No set of items waits for itself. *)
THEOREM NoDependencyCycle == Spec => []DependenciesAcyclic
<1>1. LeaseInv => DependenciesAcyclic
  BY DEF LeaseInv
<1>. QED
  BY <1>1, LeasesAccounted, PTL

-----------------------------------------------------------------------------
(* What a step may never do: the action properties of LedgerProperties.            *)

(* A step through a claim c touches the row and the attempt c names and no other. *)
OnlyAt(c) ==
  /\ \A j \in Keys : j # c.key => rows'[j] = rows[j] /\ attempts'[j] = attempts[j]
  /\ \A f \in Fences : f # c.fence => attempts'[c.key][f] = attempts[c.key][f]

(* An intent is entered by Ledger.intent or kept. *)
EntersNoIntent(c) ==
  \/ rows'[c.key].phase \notin Intents
  \/ rows'[c.key].phase = rows[c.key].phase

(* What no call of a holder changes: an item stays enqueued, with its priority, its
   dependencies and its count of leases, is not leased under another fence or to
   another owner, and the attempt stays the owner's. *)
KeepsItem(c) ==
  /\ rows'[c.key].state # "ABSENT"
  /\ rows'[c.key].priority = rows[c.key].priority
  /\ rows'[c.key].deps = rows[c.key].deps
  /\ rows'[c.key].tries = rows[c.key].tries
  /\ rows'[c.key].maxAttempts = rows[c.key].maxAttempts
  /\ attempts'[c.key][c.fence].owner = attempts[c.key][c.fence].owner
  /\ rows'[c.key].state = "CLAIMED" =>
       rows'[c.key].fence = rows[c.key].fence /\ rows'[c.key].owner = rows[c.key].owner

(* The paired UPDATEs of a current claim are confined to it. *)
LEMMA PairedUpdate ==
  ASSUME TypeOK, NEW c \in Claims, NEW row, NEW attempt,
         PutRow(c.key, row), PutAttempt(c.key, c.fence, attempt)
  PROVE  OnlyAt(c) /\ rows'[c.key] = row /\ attempts'[c.key][c.fence] = attempt
<1>1. c.key \in Keys /\ c.fence \in Fences
  BY DEF Claims
<1>. QED
  BY <1>1, PutRowFrame, PutAttemptFrame DEF OnlyAt

(* Record changes the phase and the receipt of its row only. *)
LEMMA RecordKeeps ==
  ASSUME TypeOK, NEW c \in Claims, Current(c), NEW e \in Evidence, Record(c, e)
  PROVE  /\ OnlyAt(c) /\ KeepsItem(c)
         /\ rows'[c.key].state = "CLAIMED"
         /\ rows'[c.key].phase = "CHECKPOINTED" /\ rows'[c.key].checkpoint = e
<1>. DEFINE row == [RowOf(c) EXCEPT !.phase = "CHECKPOINTED", !.checkpoint = e]
            attempt == [AttemptOf(c) EXCEPT !.phase = "CHECKPOINTED", !.checkpoint = e]
<1>1. rows[c.key] \in Row /\ rows[c.key].state = "CLAIMED"
  BY DEF Claims, TypeOK, Current
<1>2. /\ row.state = "CLAIMED" /\ row.priority = rows[c.key].priority
      /\ row.tries = rows[c.key].tries /\ row.maxAttempts = rows[c.key].maxAttempts
      /\ row.deps = rows[c.key].deps /\ row.fence = rows[c.key].fence
      /\ row.owner = rows[c.key].owner /\ row.phase = "CHECKPOINTED" /\ row.checkpoint = e
  BY <1>1 DEF Row
<1>3. attempt.owner = AttemptOf(c).owner
  <2>1. AttemptOf(c) \in Attempt
    BY DEF Claims, TypeOK
  <2>. QED
    BY <2>1 DEF Attempt
<1>4. OnlyAt(c) /\ rows'[c.key] = row /\ attempts'[c.key][c.fence] = attempt
  BY PairedUpdate DEF Record
<1>. QED
  BY <1>2, <1>3, <1>4 DEF KeepsItem

(* Intent changes the phase of its row only. *)
LEMMA IntentKeeps ==
  ASSUME TypeOK, NEW c \in Claims, NEW op \in Operations, NEW cost \in 1 .. 2,
         Intent(c, op, cost)
  PROVE  /\ Current(c) /\ OnlyAt(c) /\ KeepsItem(c)
         /\ rows'[c.key].state = "CLAIMED"
         /\ rows'[c.key].phase = IF op = "writes" THEN "WRITE_INTENT" ELSE "SOURCE_INTENT"
         /\ rows'[c.key].checkpoint = rows[c.key].checkpoint
<1>. DEFINE row == [RowOf(c) EXCEPT !.phase = IF op = "writes" THEN "WRITE_INTENT"
                                                               ELSE "SOURCE_INTENT"]
            attempt == [AttemptOf(c) EXCEPT !.phase = IF op = "writes" THEN "WRITE_INTENT"
                                                               ELSE "SOURCE_INTENT"]
<1>1. Current(c) /\ rows[c.key] \in Row /\ rows[c.key].state = "CLAIMED"
  BY DEF Claims, TypeOK, Intent, CanIntent, Usable, Owned, Current
<1>2. /\ row.state = "CLAIMED" /\ row.priority = rows[c.key].priority
      /\ row.tries = rows[c.key].tries /\ row.maxAttempts = rows[c.key].maxAttempts
      /\ row.deps = rows[c.key].deps /\ row.fence = rows[c.key].fence
      /\ row.owner = rows[c.key].owner /\ row.checkpoint = rows[c.key].checkpoint
      /\ row.phase = IF op = "writes" THEN "WRITE_INTENT" ELSE "SOURCE_INTENT"
  BY <1>1 DEF Row
<1>3. attempt.owner = AttemptOf(c).owner
  <2>1. AttemptOf(c) \in Attempt
    BY DEF Claims, TypeOK
  <2>. QED
    BY <2>1 DEF Attempt
<1>4. OnlyAt(c) /\ rows'[c.key] = row /\ attempts'[c.key][c.fence] = attempt
  BY PairedUpdate DEF Intent
<1>. QED
  BY <1>1, <1>2, <1>3, <1>4 DEF KeepsItem

(* Finish releases its row under the outcome, with the receipt it is given if any. *)
LEMMA FinishReleases ==
  ASSUME TypeOK, NEW c \in Claims, NEW s \in Outcomes, NEW e \in Receipts,
         NEW d, NEW w, Finish(c, s, e, d, w)
  PROVE  /\ Current(c) /\ OnlyAt(c) /\ KeepsItem(c)
         /\ rows'[c.key].state = s /\ s # "CLAIMED"
         /\ rows'[c.key].phase = "FINISHED"
         /\ rows'[c.key].checkpoint = IF e = None THEN rows[c.key].checkpoint ELSE e
<1>. DEFINE r == IF e = None THEN rows[c.key].checkpoint ELSE e
            row == [RowOf(c) EXCEPT !.state = s, !.phase = "FINISHED",
                      !.checkpoint = r, !.owner = None, !.leaseUntil = 0,
                      !.eligibleAt = clock + d]
            attempt == [AttemptOf(c) EXCEPT !.phase = "FINISHED", !.open = FALSE,
                          !.checkpoint = IF e = None THEN @ ELSE e]
<1>1. Current(c) /\ rows[c.key] \in Row /\ s \notin {"CLAIMED", "ABSENT"}
  BY DEF Claims, TypeOK, Finish, CanFinish, Usable, Owned, Outcomes, Blocked
<1>2. /\ row.state = s /\ row.priority = rows[c.key].priority
      /\ row.tries = rows[c.key].tries /\ row.maxAttempts = rows[c.key].maxAttempts
      /\ row.deps = rows[c.key].deps /\ row.phase = "FINISHED" /\ row.checkpoint = r
  BY <1>1 DEF Row
<1>3. attempt.owner = AttemptOf(c).owner
  <2>1. AttemptOf(c) \in Attempt
    BY DEF Claims, TypeOK
  <2>. QED
    BY <2>1 DEF Attempt
<1>4. OnlyAt(c) /\ rows'[c.key] = row /\ attempts'[c.key][c.fence] = attempt
  <2>1. PutRow(c.key, row) /\ PutAttempt(c.key, c.fence, attempt)
    BY DEF Finish
  <2>. HIDE DEF row, attempt
  <2>. QED
    BY <2>1, PairedUpdate
<1>. QED
  BY <1>1, <1>2, <1>3, <1>4 DEF KeepsItem

(* Stop of a current claim releases its row, blocked and otherwise as it was. *)
LEMMA StopReleases ==
  ASSUME TypeOK, NEW c \in Claims, NEW u \in BOOLEAN, StopClaim(c, u), Current(c)
  PROVE  /\ OnlyAt(c) /\ KeepsItem(c)
         /\ rows'[c.key].state \in Blocked
         /\ rows'[c.key].phase = rows[c.key].phase
<1>. DEFINE s == IF u THEN "PERSISTENCE_UNCERTAIN" ELSE "SAFETY_BLOCKED"
            row == [RowOf(c) EXCEPT !.state = s, !.owner = None, !.leaseUntil = 0,
                                    !.fence = @ + 1]
            attempt == [AttemptOf(c) EXCEPT !.open = FALSE]
<1>1. rows[c.key] \in Row
  BY DEF Claims, TypeOK
<1>2. /\ row.state = s /\ row.priority = rows[c.key].priority
      /\ row.tries = rows[c.key].tries /\ row.maxAttempts = rows[c.key].maxAttempts
      /\ row.deps = rows[c.key].deps /\ row.phase = rows[c.key].phase
  BY <1>1 DEF Row
<1>3. attempt.owner = AttemptOf(c).owner
  <2>1. AttemptOf(c) \in Attempt
    BY DEF Claims, TypeOK
  <2>. QED
    BY <2>1 DEF Attempt
<1>4. OnlyAt(c) /\ rows'[c.key] = row /\ attempts'[c.key][c.fence] = attempt
  BY PairedUpdate DEF StopClaim
<1>5. s \in Blocked /\ s \notin {"CLAIMED", "ABSENT"}
  BY DEF Blocked
<1>. HIDE DEF s, row, attempt
<1>. QED
  BY <1>2, <1>3, <1>4, <1>5 DEF KeepsItem

(* Recover releases a row whose lease has expired. *)
LEMMA RecoverReleases ==
  ASSUME TypeOK, NEW c \in Claims, NEW b \in BOOLEAN, Recover(c, b)
  PROVE  /\ Current(c) /\ OnlyAt(c) /\ KeepsItem(c)
         /\ rows'[c.key].state \in Blocked \cup {"DEFERRED"}
         /\ rows'[c.key].phase = "RECOVERED"
         /\ rows'[c.key].checkpoint = rows[c.key].checkpoint
         /\ rows[c.key].phase = "WRITE_INTENT" => rows'[c.key].state \in Blocked
<1>. DEFINE s == Abandoned(c, b)
            row == [RowOf(c) EXCEPT !.state = s, !.phase = "RECOVERED",
                      !.owner = None, !.leaseUntil = 0, !.fence = @ + 1]
            attempt == [AttemptOf(c) EXCEPT !.phase = "RECOVERED", !.open = FALSE]
<1>1. Current(c) /\ rows[c.key] \in Row
  BY DEF Claims, TypeOK, Recover, CanRecover
<1>2. /\ s \in Blocked \cup {"DEFERRED"} /\ s \notin {"CLAIMED", "ABSENT"}
      /\ rows[c.key].phase = "WRITE_INTENT" => s \in Blocked
  BY DEF Abandoned, Blocked
<1>3. attempt.owner = AttemptOf(c).owner
  <2>1. AttemptOf(c) \in Attempt
    BY DEF Claims, TypeOK
  <2>. QED
    BY <2>1 DEF Attempt
<1>4. OnlyAt(c) /\ rows'[c.key] = row /\ attempts'[c.key][c.fence] = attempt
  BY PairedUpdate DEF Recover
<1>. HIDE DEF s
<1>5. /\ row.state = s /\ row.priority = rows[c.key].priority
      /\ row.tries = rows[c.key].tries /\ row.maxAttempts = rows[c.key].maxAttempts
      /\ row.deps = rows[c.key].deps /\ row.phase = "RECOVERED"
      /\ row.checkpoint = rows[c.key].checkpoint
  BY <1>1 DEF Row
<1>. HIDE DEF row, attempt
<1>. QED
  BY <1>1, <1>2, <1>3, <1>4, <1>5 DEF KeepsItem

(* A step is a bookkeeping step, an insert, a claim, an intent, or another step of a
   current claim that enters no intent. *)
LEMMA StepShapes ==
  ASSUME TypeOK, [Next]_vars
  PROVE  \/ UNCHANGED <<rows, attempts>>
         \/ \E r \in EnqueueRequests : Insert(r)
         \/ \E k \in Keys, o \in Owners, a \in Authorities, l \in Leases : Claim(k, o, a, l)
         \/ \E c \in Issued, op \in Operations, cost \in 1 .. 2 :
              Intent(c, op, cost) /\ Current(c) /\ OnlyAt(c) /\ KeepsItem(c)
         \/ \E c \in Claims :
              Current(c) /\ OnlyAt(c) /\ EntersNoIntent(c) /\ KeepsItem(c)
<1>. DEFINE Quiet == UNCHANGED <<rows, attempts>>
            Settled(c) == Current(c) /\ OnlyAt(c) /\ EntersNoIntent(c) /\ KeepsItem(c)
<1>1. ASSUME NEW c \in Issued, NEW e \in Evidence, Usable(c), Record(c, e)
      PROVE  c \in Claims /\ Settled(c)
  <2>1. c \in Claims /\ Current(c)
    BY <1>1, UsableIsCurrent
  <2>. QED
    BY <1>1, <2>1, RecordKeeps DEF EntersNoIntent, Intents
<1>2. ASSUME NEW c \in Issued, NEW op \in Operations, NEW cost \in 1 .. 2,
             Intent(c, op, cost)
      PROVE  Current(c) /\ OnlyAt(c) /\ KeepsItem(c)
  BY <1>2, IssuedAreClaims, IntentKeeps
<1>3. ASSUME NEW c \in Issued, NEW s \in Outcomes, NEW e \in Receipts, NEW d \in Delays,
             NEW w \in Cooldowns, Finish(c, s, e, d, w)
      PROVE  c \in Claims /\ Settled(c)
  <2>1. c \in Claims
    BY IssuedAreClaims
  <2>2. /\ Current(c) /\ OnlyAt(c) /\ KeepsItem(c) /\ rows'[c.key].phase = "FINISHED"
    BY <1>3, <2>1, FinishReleases
  <2>. QED
    BY <2>1, <2>2 DEF EntersNoIntent, Intents
<1>4. ASSUME NEW c \in Claims, NEW u \in BOOLEAN, StopClaim(c, u)
      PROVE  Quiet \/ Settled(c)
  <2>1. CASE ~Current(c)
    BY <1>4, <2>1 DEF StopClaim
  <2>2. CASE Current(c)
    BY <1>4, <2>2, StopReleases DEF EntersNoIntent
  <2>. QED
    BY <2>1, <2>2
<1>5. ASSUME NEW c \in Issued, NEW b \in BOOLEAN, Recover(c, b)
      PROVE  c \in Claims /\ Settled(c)
  <2>1. c \in Claims
    BY IssuedAreClaims
  <2>. QED
    BY <1>5, <2>1, RecoverReleases DEF EntersNoIntent, Intents
<1>6. CASE NextGrant
  BY <1>6 DEF NextGrant, RegisterGrant
<1>7. CASE NextEnqueue
  BY <1>7 DEF NextEnqueue, Enqueue, EnqueueChild
<1>8. CASE NextClaim
  BY <1>8 DEF NextClaim
<1>9. CASE NextStage
  BY <1>1, <1>2, <1>9 DEF NextStage, Checkpoint
<1>10. CASE NextFinish
  BY <1>3, <1>10 DEF NextFinish
<1>11. CASE NextStop
  BY <1>4, <1>11, IssuedAreClaims DEF NextStop, Stop, ReportUncertain, TypeOK
<1>12. CASE NextRecover
  BY <1>5, <1>12 DEF NextRecover
<1>13. CASE NextEffect
  BY <1>1, <1>13 DEF NextEffect, FencedEffectCommit, FencedEffectRollback, EnterWriter
<1>14. CASE NextCooldown \/ Tick \/ UNCHANGED vars
  BY <1>14 DEF NextCooldown, DeferCouncil, Tick, vars
<1>. QED
  BY <1>6, <1>7, <1>8, <1>9, <1>10, <1>11, <1>12, <1>13, <1>14 DEF Next

(* The row an insert adds, and the row a claim leases. *)
LEMMA InsertedRow ==
  ASSUME TypeOK, NEW r \in EnqueueRequests, Insert(r)
  PROVE  /\ r.key \in Keys /\ rows[r.key].state = "ABSENT"
         /\ rows'[r.key].state \notin {"ABSENT", "CLAIMED", "COMPLETE"}
         /\ rows'[r.key].phase = "IDLE" /\ rows'[r.key].tries = 0
         /\ rows'[r.key].maxAttempts = r.maxAttempts
         /\ rows'[r.key].priority = r.priority /\ rows'[r.key].deps = r.deps
         /\ \A j \in Keys : j # r.key => rows'[j] = rows[j]
         /\ attempts' = attempts
<1>1. r \in Requests
  BY RequestAssumption
<1>2. r.key \in Keys /\ r.state \in Claimable \cup Blocked
  BY <1>1 DEF Requests
<1>3. /\ NewRow(r).state = r.state /\ NewRow(r).phase = "IDLE" /\ NewRow(r).tries = 0
      /\ NewRow(r).maxAttempts = r.maxAttempts
      /\ NewRow(r).priority = r.priority /\ NewRow(r).deps = r.deps
  BY DEF NewRow, NoRow
<1>4. r.state \notin {"ABSENT", "CLAIMED", "COMPLETE"}
  BY <1>2 DEF Claimable, Blocked
<1>5. /\ rows[r.key].state = "ABSENT" /\ rows'[r.key] = NewRow(r) /\ attempts' = attempts
      /\ \A j \in Keys : j # r.key => rows'[j] = rows[j]
  BY <1>2, PutRowFrame DEF Insert, Exists
<1>. QED
  BY <1>2, <1>3, <1>4, <1>5

(* The row and the attempt of a new lease. *)
LEMMA LeasedRow ==
  ASSUME TypeOK, LeaseInv, NEW k \in Keys, NEW o \in Owners, NEW a \in Authorities,
         NEW l \in Leases, Claim(k, o, a, l)
  PROVE  /\ Permitted(k, a) /\ rows[k].state \in Claimable
         /\ rows'[k].state = "CLAIMED" /\ rows'[k].phase = "CLAIMED"
         /\ rows'[k].fence = rows[k].fence + 1 /\ rows'[k].owner = o
         /\ rows'[k].tries = rows[k].tries + 1
         /\ rows'[k].maxAttempts = rows[k].maxAttempts
         /\ rows'[k].checkpoint = rows[k].checkpoint
         /\ rows'[k].priority = rows[k].priority /\ rows'[k].deps = rows[k].deps
         /\ \A j \in Keys : j # k => rows'[j] = rows[j] /\ attempts'[j] = attempts[j]
         /\ \A f \in Filed(k) : attempts'[k][f] = attempts[k][f]
         /\ rows[k].fence + 1 \in Fences /\ rows[k].fence + 1 \notin Filed(k)
         /\ attempts'[k][rows[k].fence + 1].owner = o
<1>. DEFINE f == rows[k].fence + 1
            row == [rows[k] EXCEPT !.state = "CLAIMED", !.phase = "CLAIMED",
                     !.owner = o, !.authority = a, !.fence = f,
                     !.tries = @ + 1, !.leaseUntil = clock + l]
            attempt == [owner |-> o, phase |-> "CLAIMED",
                        checkpoint |-> rows[k].checkpoint, open |-> TRUE]
<1>1. /\ rows[k] \in Row /\ rows[k].state \in Claimable /\ Permitted(k, a)
      /\ rows[k].tries < rows[k].maxAttempts
      /\ PutRow(k, row) /\ PutAttempt(k, f, attempt)
  BY DEF Claim, CanClaim, TypeOK
<1>2. /\ row.state = "CLAIMED" /\ row.phase = "CLAIMED" /\ row.fence = f /\ row.owner = o
      /\ row.tries = rows[k].tries + 1 /\ row.maxAttempts = rows[k].maxAttempts
      /\ row.checkpoint = rows[k].checkpoint /\ row.priority = rows[k].priority
      /\ row.deps = rows[k].deps
  BY <1>1 DEF Row
<1>3. rows'[k] = row /\ \A j \in Keys : j # k => rows'[j] = rows[j]
  BY <1>1, PutRowFrame
<1>4. f \notin Filed(k)
  BY <1>1 DEF LeaseInv, LeaseAccounts, Row
<1>5. f \in Fences
  <2>1. /\ rows[k].fence \in Nat /\ rows[k].tries \in Nat
        /\ rows[k].maxAttempts \in 1 .. MaxTries
    BY <1>1 DEF Row
  <2>2. rows[k].fence <= 2 * rows[k].tries
    BY DEF LeaseInv, LeaseAccounts
  <2>. QED
    BY <1>1, <2>1, <2>2, BoundAssumption DEF Fences
<1>6. /\ attempts'[k][f] = attempt
      /\ \A j \in Keys : j # k => attempts'[j] = attempts[j]
      /\ \A g \in Fences : g # f => attempts'[k][g] = attempts[k][g]
  BY <1>1, <1>5, PutAttemptFrame
<1>7. \A g \in Filed(k) : attempts'[k][g] = attempts[k][g]
  BY <1>4, <1>6 DEF Filed
<1>. HIDE DEF row
<1>. QED
  BY <1>1, <1>2, <1>3, <1>4, <1>5, <1>6, <1>7
-----------------------------------------------------------------------------
(* No call changes an item that is complete or blocked. *)
LEMMA TerminalStep ==
  ASSUME TypeOK, LeaseInv, [Next]_vars, NEW k \in Keys,
         rows[k].state \in Blocked \cup {"COMPLETE"}
  PROVE  rows'[k] = rows[k]
<1>1. rows[k].state \notin {"ABSENT", "CLAIMED"} \cup Claimable
  BY DEF Blocked, Claimable
<1>. QED
  BY <1>1, StepShapes, InsertedRow, LeasedRow DEF OnlyAt, Current

(* There is no unblock and no late finish or recovery: what is complete or blocked
   stays as it is for good. *)
THEOREM TerminalStaysFinal == Spec => TerminalIsFinal
<1>. DEFINE A == \A k \in Keys :
                   rows[k].state \in Blocked \cup {"COMPLETE"} => rows'[k] = rows[k]
<1>1. TypeOK /\ LeaseInv /\ [Next]_vars => A
  BY TerminalStep
<1>. QED
  BY <1>1, TypeCorrect, LeasesAccounted, PTL DEF Spec, TerminalIsFinal

(* The evidence of a closed attempt is out of reach of every later call, by its former
   holder or by anyone else. *)
THEOREM ClosedAttemptsStay == Spec => ClosedAttemptIsFinal
<1>. DEFINE A == \A k \in Keys, f \in Fences :
                   attempts[k][f].owner # None /\ ~attempts[k][f].open
                     => attempts'[k][f] = attempts[k][f]
<1>1. TypeOK /\ LeaseInv /\ [Next]_vars => A
  <2>. SUFFICES ASSUME TypeOK, LeaseInv, [Next]_vars, NEW k \in Keys, NEW f \in Fences,
                       attempts[k][f].owner # None, ~attempts[k][f].open
                PROVE  attempts'[k][f] = attempts[k][f]
    OBVIOUS
  <2>1. f \in Filed(k)
    BY DEF Filed
  <2>2. ASSUME NEW c \in Claims, Current(c), OnlyAt(c)
        PROVE  attempts'[k][f] = attempts[k][f]
    <3>1. attempts[c.key][c.fence].open
      BY <2>2, CurrentAccounts
    <3>. QED
      BY <2>2, <3>1 DEF OnlyAt
  <2>. QED
    BY <2>1, <2>2, StepShapes, InsertedRow, LeasedRow, IssuedAreClaims
<1>. QED
  BY <1>1, TypeCorrect, LeasesAccounted, PTL DEF Spec, ClosedAttemptIsFinal

(* Every entry into an intent is paid in the same transaction. *)
THEOREM IntentsPaid == Spec => IntentIsPaid
<1>. DEFINE Pays(k) ==
       \E op \in Operations :
         /\ op = IF rows'[k].phase = "WRITE_INTENT" THEN "writes" ELSE "source_calls"
         /\ grants'[rows[k].authority].left[op] < grants[rows[k].authority].left[op]
<1>1. ASSUME TypeOK, LeaseInv, [Next]_vars, NEW k \in Keys,
             rows'[k].phase \in Intents, rows[k].phase \notin Intents
      PROVE  Pays(k)
  <2>1. PICK c \in Issued, op \in Operations, cost \in 1 .. 2 :
          Intent(c, op, cost) /\ Current(c) /\ OnlyAt(c) /\ c.key = k
    BY <1>1, StepShapes, InsertedRow, LeasedRow DEF OnlyAt, EntersNoIntent, Intents
  <2>. DEFINE a == rows[k].authority
              phase == IF op = "writes" THEN "WRITE_INTENT" ELSE "SOURCE_INTENT"
              row == [RowOf(c) EXCEPT !.phase = phase]
  <2>2. a \in Authorities /\ grants[a] \in Grant
    BY <1>1, <2>1 DEF Intent, CanIntent, Usable, Owned, Permitted, TypeOK
  <2>3. grants[a].left[op] \in Nat
    BY <2>2 DEF Grant
  <2>4. grants'[a].left[op] = grants[a].left[op] - cost
    BY <1>1, <2>1, <2>2 DEF Intent, TypeOK, Grant
  <2>5. rows'[k].phase = phase
    <3>1. PutRow(k, row)
      BY <2>1 DEF Intent
    <3>2. row.phase = phase
      BY <1>1, <2>1 DEF TypeOK, Row
    <3>. QED
      BY <1>1, <3>1, <3>2, PutRowFrame
  <2>6. op = IF rows'[k].phase = "WRITE_INTENT" THEN "writes" ELSE "source_calls"
    BY <2>5 DEF Operations
  <2>. QED
    BY <2>3, <2>4, <2>6
<1>2. TypeOK /\ LeaseInv /\ [Next]_vars =>
        \A k \in Keys : rows'[k].phase \in Intents /\ rows[k].phase \notin Intents => Pays(k)
  BY <1>1
<1>. QED
  BY <1>2, TypeCorrect, LeasesAccounted, PTL DEF Spec, IntentIsPaid

(* After the global stop no lease is given, no intent entered and no writer started. *)
THEOREM StopIsFinal == Spec => StopFreezesEffects
<1>. DEFINE A == stopped =>
                   /\ stopped'
                   /\ written' = written
                   /\ \A k \in Keys :
                        /\ rows'[k].state = "CLAIMED" => rows[k].state = "CLAIMED"
                        /\ rows'[k].phase \in Intents => rows[k].phase = rows'[k].phase
<1>1. TypeOK /\ LeaseInv /\ [Next]_vars => A
  <2>. SUFFICES ASSUME TypeOK, LeaseInv, [Next]_vars, stopped PROVE A
    OBVIOUS
  <2>1. \A c : ~Usable(c)
    BY DEF Usable, Owned, Permitted
  <2>2. \A k, a : ~Permitted(k, a)
    BY DEF Permitted
  <2>3. stopped' /\ written' = written
    <3>1. CASE NextGrant \/ NextEnqueue \/ NextClaim
      BY <3>1 DEF NextGrant, RegisterGrant, NextEnqueue, Enqueue, EnqueueChild, Insert,
                  NextClaim, Claim
    <3>2. CASE NextStage
      BY <2>1, <3>2 DEF NextStage, Checkpoint, Intent, CanIntent
    <3>3. CASE NextFinish
      BY <2>1, <3>3 DEF NextFinish, Finish, CanFinish
    <3>4. CASE NextStop
      BY <3>4 DEF NextStop, Stop, ReportUncertain, StopClaim
    <3>5. CASE NextRecover
      BY <3>5 DEF NextRecover, Recover
    <3>6. CASE NextEffect
      BY <2>1, <3>6 DEF NextEffect, FencedEffectCommit, FencedEffectRollback, EnterWriter
    <3>7. CASE NextCooldown \/ Tick \/ UNCHANGED vars
      BY <3>7 DEF NextCooldown, DeferCouncil, Tick, vars
    <3>. QED
      BY <3>1, <3>2, <3>3, <3>4, <3>5, <3>6, <3>7 DEF Next
  <2>4. ASSUME NEW k \in Keys
        PROVE  /\ rows'[k].state = "CLAIMED" => rows[k].state = "CLAIMED"
               /\ rows'[k].phase \in Intents => rows[k].phase = rows'[k].phase
    <3>1. CASE UNCHANGED <<rows, attempts>>
      BY <3>1
    <3>2. ASSUME NEW r \in EnqueueRequests, Insert(r)
          PROVE  /\ rows'[k].state # "CLAIMED" \/ rows'[k] = rows[k]
                 /\ rows'[k].phase \notin Intents \/ rows'[k] = rows[k]
      BY <3>2, InsertedRow DEF Intents
    <3>3. ASSUME NEW c \in Claims, Current(c), OnlyAt(c), EntersNoIntent(c)
          PROVE  /\ rows'[k].state = "CLAIMED" => rows[k].state = "CLAIMED"
                 /\ rows'[k].phase \in Intents => rows[k].phase = rows'[k].phase
      BY <3>3 DEF OnlyAt, EntersNoIntent, Current
    <3>4. ~ \E c \in Issued, op \in Operations, cost \in 1 .. 2 :
               Intent(c, op, cost) /\ Current(c) /\ OnlyAt(c)
      <4>1. \A c, op, cost : Intent(c, op, cost) => Usable(c)
        BY DEF Intent, CanIntent
      <4>. QED
        BY <2>1, <4>1
    <3>5. ~ \E j \in Keys, o \in Owners, a \in Authorities, l \in Leases : Claim(j, o, a, l)
      BY <2>2 DEF Claim, CanClaim
    <3>6. CASE \E r \in EnqueueRequests : Insert(r)
      BY <3>2, <3>6
    <3>7. CASE \E c \in Claims : Current(c) /\ OnlyAt(c) /\ EntersNoIntent(c)
      BY <3>3, <3>7
    <3>. QED
      BY <3>1, <3>4, <3>5, <3>6, <3>7, StepShapes
  <2>. QED
    BY <2>3, <2>4
<1>. QED
  BY <1>1, TypeCorrect, LeasesAccounted, PTL DEF Spec, StopFreezesEffects

(* A cooldown is never shortened and no scope of its council starts anything. *)
THEOREM CooldownsHonoured == Spec => CooldownIsHonoured
<1>. DEFINE A == /\ \A l \in Councils : deferredUntil'[l] >= deferredUntil[l]
                 /\ \A k \in Keys : CouncilDeferred(k) =>
                      /\ rows'[k].state = "CLAIMED" => rows[k].state = "CLAIMED"
                      /\ rows'[k].phase = "SOURCE_INTENT"
                           => rows[k].phase = "SOURCE_INTENT"
<1>1. TypeOK /\ LeaseInv /\ [Next]_vars => A
  <2>. SUFFICES ASSUME TypeOK, LeaseInv, [Next]_vars PROVE A
    OBVIOUS
  <2>1. ASSUME NEW l \in Councils PROVE deferredUntil'[l] >= deferredUntil[l]
    <3>1. deferredUntil[l] \in Nat /\ clock \in Nat
      BY <2>1 DEF TypeOK
    <3>2. ASSUME NEW w \in Cooldowns, NEW m \in Councils,
                 deferredUntil' = [deferredUntil EXCEPT ![m] = Later(@, clock + w)]
          PROVE  deferredUntil'[l] >= deferredUntil[l]
      BY <3>1, <3>2, BoundAssumption DEF TypeOK, Later
    <3>3. \A k \in Keys : Identity[k].council \in Councils
      BY IdentityAssumption
    <3>4. CASE NextFinish
      BY <3>1, <3>2, <3>3, <3>4, ClaimedRowTyped DEF NextFinish, Finish
    <3>5. CASE NextCooldown
      BY <3>1, <3>2, <3>5 DEF NextCooldown, DeferCouncil
    <3>6. CASE deferredUntil' = deferredUntil
      BY <3>1, <3>6
    <3>7. ASSUME ~NextFinish, ~NextCooldown PROVE deferredUntil' = deferredUntil
      <4>1. CASE NextGrant \/ NextEnqueue
        BY <4>1 DEF NextGrant, RegisterGrant, NextEnqueue, Enqueue, EnqueueChild, Insert
      <4>2. CASE NextClaim
        BY <4>2 DEF NextClaim, Claim
      <4>3. CASE NextStage
        BY <4>3 DEF NextStage, Checkpoint, Intent
      <4>4. CASE NextStop
        BY <4>4 DEF NextStop, Stop, ReportUncertain, StopClaim
      <4>5. CASE NextRecover
        BY <4>5 DEF NextRecover, Recover
      <4>6. CASE NextEffect \/ Tick \/ UNCHANGED vars
        BY <4>6 DEF NextEffect, FencedEffectCommit, FencedEffectRollback, Tick, vars
      <4>. QED
        BY <3>7, <4>1, <4>2, <4>3, <4>4, <4>5, <4>6 DEF Next
    <3>. QED
      BY <3>4, <3>5, <3>6, <3>7
  <2>2. ASSUME NEW k \in Keys, CouncilDeferred(k)
        PROVE  /\ rows'[k].state = "CLAIMED" => rows[k].state = "CLAIMED"
               /\ rows'[k].phase = "SOURCE_INTENT" => rows[k].phase = "SOURCE_INTENT"
    <3>1. \A a : ~Permitted(k, a)
      BY <2>2 DEF Permitted
    <3>2. \A c : c.key = k => ~Usable(c)
      BY <3>1 DEF Usable, Owned
    <3>3. CASE UNCHANGED <<rows, attempts>>
      BY <3>3
    <3>4. ASSUME NEW r \in EnqueueRequests, Insert(r)
          PROVE  /\ rows'[k].state # "CLAIMED" \/ rows'[k] = rows[k]
                 /\ rows'[k].phase \notin Intents \/ rows'[k] = rows[k]
      BY <3>4, InsertedRow DEF Intents
    <3>5. ASSUME NEW j \in Keys, NEW o \in Owners, NEW a \in Authorities, NEW l \in Leases,
                 Claim(j, o, a, l)
          PROVE  rows'[k] = rows[k]
      BY <3>1, <3>5, LeasedRow
    <3>6. ASSUME NEW c \in Claims, Current(c), OnlyAt(c), EntersNoIntent(c)
          PROVE  /\ rows'[k].state = "CLAIMED" => rows[k].state = "CLAIMED"
                 /\ rows'[k].phase = "SOURCE_INTENT" => rows[k].phase = "SOURCE_INTENT"
      BY <3>6 DEF OnlyAt, EntersNoIntent, Current, Intents
    <3>7. ASSUME NEW c \in Issued, NEW op \in Operations, NEW cost \in 1 .. 2,
                 Intent(c, op, cost), OnlyAt(c)
          PROVE  rows'[k] = rows[k]
      BY <3>2, <3>7 DEF OnlyAt, Intent, CanIntent
    <3>8. CASE \E r \in EnqueueRequests : Insert(r)
      BY <3>4, <3>8 DEF Intents
    <3>9. CASE \E j \in Keys, o \in Owners, a \in Authorities, l \in Leases :
                 Claim(j, o, a, l)
      BY <3>5, <3>9
    <3>10. CASE \E c \in Issued, op \in Operations, cost \in 1 .. 2 :
                  Intent(c, op, cost) /\ Current(c) /\ OnlyAt(c)
      BY <3>7, <3>10
    <3>11. CASE \E c \in Claims : Current(c) /\ OnlyAt(c) /\ EntersNoIntent(c)
      BY <3>6, <3>11
    <3>. QED
      BY <3>3, <3>8, <3>9, <3>10, <3>11, StepShapes
  <2>. QED
    BY <2>1, <2>2
<1>. QED
  BY <1>1, TypeCorrect, LeasesAccounted, PTL DEF Spec, CooldownIsHonoured

(* A registered grant is never replaced or widened, and its counters never grow. *)
THEOREM AllowancesShrink == Spec => AllowanceOnlyShrinks
<1>. DEFINE Shrinks(a) ==
       /\ \A op \in Operations : grants'[a].left[op] <= grants[a].left[op]
       /\ [grants'[a] EXCEPT !.left = grants[a].left] = grants[a]
<1>1. ASSUME TypeOK, [Next]_vars, NEW a \in Authorities, Registered(a) PROVE Shrinks(a)
  <2>1. grants[a] \in Grant /\ \A op \in Operations : grants[a].left[op] \in Nat
    BY <1>1 DEF TypeOK, Grant
  <2>2. CASE grants'[a] = grants[a]
    BY <2>1, <2>2 DEF Grant
  <2>3. ASSUME NEW c \in Issued, NEW op \in Operations, NEW cost \in 1 .. 2,
               Intent(c, op, cost)
        PROVE  Shrinks(a)
    <3>. DEFINE g == [grants[a] EXCEPT !.left = [grants[a].left EXCEPT ![op] = @ - cost]]
    <3>1. grants'[a] = grants[a] \/ grants'[a] = g
      BY <1>1, <2>3 DEF Intent, TypeOK
    <3>2. /\ [g EXCEPT !.left = grants[a].left] = grants[a]
          /\ g.left = [grants[a].left EXCEPT ![op] = @ - cost]
      BY <2>1 DEF Grant
    <3>3. \A x \in Operations : g.left[x] <= grants[a].left[x]
      BY <2>1, <3>2 DEF Grant
    <3>. HIDE DEF g
    <3>. QED
      BY <2>2, <3>1, <3>2, <3>3
  <2>4. CASE NextGrant
    BY <1>1, <2>2, <2>4, RequestAssumption DEF NextGrant, RegisterGrant, TypeOK
  <2>5. CASE NextStage
    BY <2>2, <2>3, <2>5 DEF NextStage, Checkpoint
  <2>6. CASE ~NextGrant /\ ~NextStage
    <3>1. CASE NextEnqueue \/ NextClaim
      BY <2>2, <3>1 DEF NextEnqueue, Enqueue, EnqueueChild, Insert, NextClaim, Claim
    <3>2. CASE NextFinish
      BY <2>2, <3>2 DEF NextFinish, Finish
    <3>3. CASE NextStop \/ NextRecover
      BY <2>2, <3>3 DEF NextStop, Stop, ReportUncertain, StopClaim, NextRecover, Recover
    <3>4. CASE NextEffect
      BY <2>2, <3>4 DEF NextEffect, FencedEffectCommit, FencedEffectRollback
    <3>5. CASE NextCooldown \/ Tick \/ UNCHANGED vars
      BY <2>2, <3>5 DEF NextCooldown, DeferCouncil, Tick, vars
    <3>. QED
      BY <1>1, <2>6, <3>1, <3>2, <3>3, <3>4, <3>5 DEF Next
  <2>. QED
    BY <2>4, <2>5, <2>6
<1>2. TypeOK /\ [Next]_vars => \A a \in Authorities : Registered(a) => Shrinks(a)
  BY <1>1
<1>. QED
  BY <1>2, TypeCorrect, PTL DEF Spec, AllowanceOnlyShrinks

-----------------------------------------------------------------------------
(* The ledger implements the work authority: each step of a method maps to one    *)
(* abstract step or to none.                                                      *)

(* What the mapping makes of an UPDATE of one row. *)
LEMMA BarsOfPutRow ==
  ASSUME TypeOK, TypeOK', NEW k \in Keys, \A j \in Keys : j # k => rows'[j] = rows[j]
  PROVE  /\ standingBar' = [standingBar EXCEPT ![k] = StandingOf(rows'[k].state)]
         /\ holderBar' = [holderBar EXCEPT ![k] = rows'[k].owner]
         /\ writingBar' = IF rows'[k].phase = "WRITE_INTENT" THEN writingBar \cup {k}
                                                             ELSE writingBar \ {k}
BY DEF standingBar, holderBar, writingBar

(* When the row keeps its state, its owner and its write intent, nothing shows. *)
LEMMA BarsUnmoved ==
  ASSUME TypeOK, TypeOK', NEW k \in Keys, \A j \in Keys : j # k => rows'[j] = rows[j],
         rows'[k].state = rows[k].state, rows'[k].owner = rows[k].owner
  PROVE  UNCHANGED <<standingBar, holderBar>>
BY DEF standingBar, holderBar

(* A write that is read back at once leaves no doubt. *)
LEMMA UnreadUnmoved ==
  ASSUME UNCHANGED <<written, known>>
  PROVE  unreadBar' = unreadBar
BY DEF unreadBar

(* schema.install's empty ledger is the abstract initial state. *)
LEMMA InitRefines == Init => Authority!AInit
<1>. SUFFICES ASSUME Init PROVE Authority!AInit
  OBVIOUS
<1>1. \A k \in Keys : rows[k].state = "ABSENT" /\ rows[k].owner = None /\ rows[k].phase = "IDLE"
  BY DEF Init, NoRow
<1>2. standingBar = [k \in Keys |-> "unknown"] /\ holderBar = [k \in Keys |-> None]
  BY <1>1 DEF standingBar, holderBar, StandingOf, Claimable
<1>3. /\ calls = [k \in Keys |-> 0] /\ unreadBar = [k \in Keys |-> 0]
      /\ writingBar = {} /\ stopped = FALSE
  BY <1>1 DEF Init, writingBar, unreadBar
<1>. QED
  BY <1>2, <1>3 DEF Authority!AInit

(* Steps that move neither a row, nor the stop, nor a history. *)
LEMMA StutterRefines ==
  ASSUME UNCHANGED <<rows, stopped, calls, written, known>>
  PROVE  UNCHANGED Authority!avars
BY DEF Authority!avars, standingBar, holderBar, writingBar, unreadBar

(* enqueue makes an item known. *)
LEMMA EnqueueRefines ==
  ASSUME TypeOK, TypeOK', EffectInv, LeaseInv, NEW r \in EnqueueRequests, Insert(r)
  PROVE  Authority!ANext
<1>. DEFINE k == r.key
            row == NewRow(r)
            s == StandingOf(row.state)
<1>1. /\ k \in Keys /\ row.state \in Claimable \cup Blocked
      /\ row.owner = None /\ row.phase = "IDLE"
  BY RequestAssumption DEF Requests, NewRow, NoRow
<1>2. rows'[k] = row /\ \A j \in Keys : j # k => rows'[j] = rows[j]
  BY <1>1, PutRowFrame DEF Insert
<1>3. rows[k] = NoRow
  BY <1>1 DEF Insert, Exists, LeaseInv, LeaseAccounts
<1>. HIDE DEF row
<1>4. s \in {"open", "closed"}
  BY <1>1 DEF StandingOf, Claimable, Blocked
<1>5. standingBar' = [standingBar EXCEPT ![k] = s] /\ standingBar[k] = "unknown"
  <2>1. standingBar' = [standingBar EXCEPT ![k] = s]
    BY <1>1, <1>2, BarsOfPutRow
  <2>2. rows[k].state = "ABSENT"
    BY <1>3 DEF NoRow
  <2>. QED
    BY <1>1, <2>1, <2>2 DEF standingBar, StandingOf, Claimable
<1>6. holderBar' = holderBar /\ writingBar' = writingBar
  BY <1>1, <1>2, <1>3 DEF holderBar, writingBar, NoRow
<1>7. UNCHANGED <<unreadBar, calls, stopped>>
  BY UnreadUnmoved DEF Insert
<1>8. Authority!Add(k, s)
  BY <1>4, <1>5, <1>6, <1>7 DEF Authority!Add
<1>. QED
  BY <1>1, <1>4, <1>8 DEF Authority!ANext

(* claim hands an open item to one holder. *)
LEMMA ClaimRefines ==
  ASSUME TypeOK, TypeOK', EffectInv, LeaseInv, NEW k \in Keys, NEW o \in Owners,
         NEW a \in Authorities, NEW l \in Leases, Claim(k, o, a, l)
  PROVE  Authority!ANext
<1>. DEFINE row == [rows[k] EXCEPT !.state = "CLAIMED", !.phase = "CLAIMED",
                     !.owner = o, !.authority = a, !.fence = rows[k].fence + 1,
                     !.tries = @ + 1, !.leaseUntil = clock + l]
<1>1. /\ rows[k] \in Row /\ rows[k].state \in Claimable /\ ~stopped
      /\ PutRow(k, row) /\ UNCHANGED <<stopped, calls, written, known>>
  BY DEF Claim, CanClaim, Permitted, TypeOK
<1>2. row.state = "CLAIMED" /\ row.phase = "CLAIMED" /\ row.owner = o
  BY <1>1 DEF Row
<1>3. rows'[k] = row /\ \A j \in Keys : j # k => rows'[j] = rows[j]
  BY <1>1, PutRowFrame
<1>. HIDE DEF row
<1>4. rows[k].phase # "WRITE_INTENT" /\ rows[k].owner = None
  BY <1>1 DEF EffectInv, IntentsAreHeld, LeaseInv, LeaseAccounts, Intents, Claimable,
              Blocked
<1>5. /\ standingBar[k] = "open" /\ standingBar' = [standingBar EXCEPT ![k] = "held"]
      /\ holderBar[k] = None /\ holderBar' = [holderBar EXCEPT ![k] = o]
  BY <1>1, <1>2, <1>3, <1>4, BarsOfPutRow
     DEF standingBar, holderBar, StandingOf, Claimable
<1>6. writingBar' = writingBar
  BY <1>2, <1>3, <1>4 DEF writingBar
<1>7. Authority!Take(k, o)
  BY <1>1, <1>5, <1>6, UnreadUnmoved DEF Authority!Take
<1>. QED
  BY <1>7 DEF Authority!ANext

(* A usable claim holds its item, nothing is stopped and no other item writes. *)
LEMMA UsableBars ==
  ASSUME TypeOK, EffectInv, LeaseInv, NEW c \in Issued, Usable(c)
  PROVE  /\ c.key \in Keys /\ Authority!Effecting(c.key)
         /\ unreadBar[c.key] = 0
         /\ writingBar \subseteq {c.key}
<1>1. /\ c.key \in Keys /\ rows[c.key].state = "CLAIMED" /\ ~stopped
      /\ LiveClaim(c.key) \notin uncertain
      /\ \A j \in Keys : j # c.key => rows[j].phase # "WRITE_INTENT"
  BY UsableFacts
<1>2. unreadBar[c.key] = 0
  <2>1. written[c.key] \in Nat /\ known[c.key] \in Nat
    BY <1>1 DEF TypeOK
  <2>2. ~(written[c.key] > known[c.key]) /\ known[c.key] <= written[c.key]
    BY <1>1 DEF EffectInv, WriterAccounts
  <2>. QED
    BY <1>1, <2>1, <2>2 DEF unreadBar
<1>3. standingBar[c.key] = "held"
  BY <1>1 DEF standingBar, StandingOf, Claimable
<1>. QED
  BY <1>1, <1>2, <1>3 DEF Authority!Effecting, writingBar

(* checkpoint is invisible: it settles no write. *)
LEMMA CheckpointRefines ==
  ASSUME TypeOK, TypeOK', EffectInv, LeaseInv, NEW c \in Issued, NEW e \in Evidence,
         Checkpoint(c, e)
  PROVE  UNCHANGED Authority!avars
<1>1. /\ Record(c, e) /\ rows[c.key].phase # "WRITE_INTENT" /\ c.key \in Keys
      /\ UNCHANGED <<stopped, calls, written, known>>
  BY ClaimedRowTyped DEF Checkpoint, SettlesIntent
<1>2. writingBar' = writingBar
  BY <1>1, RecordEffects DEF writingBar
<1>. QED
  BY <1>1, <1>2, RecordEffects, BarsUnmoved, UnreadUnmoved DEF Authority!avars

(* intent calls a source that was never called, or begins the only write. *)
LEMMA IntentRefines ==
  ASSUME TypeOK, TypeOK', EffectInv, LeaseInv, NEW c \in Issued, NEW op \in Operations,
         NEW cost \in 1 .. 2, Intent(c, op, cost)
  PROVE  Authority!ANext
<1>. DEFINE phase == IF op = "writes" THEN "WRITE_INTENT" ELSE "SOURCE_INTENT"
            row == [RowOf(c) EXCEPT !.phase = phase]
            k == c.key
<1>1. /\ Usable(c) /\ rows[k].phase \in {"CLAIMED", "CHECKPOINTED"}
      /\ op = "source_calls" => rows[k].checkpoint = None
      /\ PutRow(k, row) /\ UNCHANGED <<stopped, written, known>>
  BY DEF Intent, CanIntent
<1>2. k \in Keys /\ rows[k] \in Row /\ calls[k] \in Nat /\ rows[k].state = "CLAIMED"
  BY <1>1, ClaimedRowTyped, UsableFacts DEF TypeOK
<1>3. row.state = rows[k].state /\ row.owner = rows[k].owner /\ row.phase = phase
  BY <1>2 DEF Row
<1>4. rows'[k] = row /\ \A j \in Keys : j # k => rows'[j] = rows[j]
  BY <1>1, <1>2, PutRowFrame
<1>. HIDE DEF row
<1>5. UNCHANGED <<standingBar, holderBar>>
  BY <1>2, <1>3, <1>4, BarsUnmoved
<1>6. /\ Authority!Effecting(k) /\ unreadBar[k] = 0 /\ writingBar = {}
      /\ unreadBar' = unreadBar
  BY <1>1, UsableBars, UnreadUnmoved DEF writingBar
<1>7. CASE op = "source_calls"
  <2>1. calls[k] = 0
    BY <1>1, <1>2, <1>7 DEF EffectInv, SourceCallLeavesATrace, Blocked
  <2>2. calls' = [calls EXCEPT ![k] = 1]
    BY <1>2, <1>7, <2>1 DEF Intent, Bump, TypeOK
  <2>3. writingBar' = writingBar
    BY <1>1, <1>3, <1>4, <1>7 DEF writingBar
  <2>4. Authority!CallSource(k)
    BY <1>1, <1>5, <1>6, <2>1, <2>2, <2>3 DEF Authority!CallSource
  <2>. QED
    BY <1>2, <2>4 DEF Authority!ANext
<1>8. CASE op = "writes"
  <2>1. calls' = calls
    BY <1>8 DEF Intent, Bump, TypeOK
  <2>2. writingBar' = {k}
    BY <1>2, <1>3, <1>4, <1>6, <1>8 DEF writingBar
  <2>3. Authority!BeginWrite(k)
    BY <1>1, <1>5, <1>6, <2>1, <2>2, UnreadUnmoved DEF Authority!BeginWrite
  <2>. QED
    BY <1>2, <2>3 DEF Authority!ANext
<1>. QED
  BY <1>7, <1>8 DEF Operations
(* A settled item that is given back, closed or open again. *)
LEMMA GiveBackRefines ==
  ASSUME TypeOK, TypeOK', NEW k \in Keys, \A j \in Keys : j # k => rows'[j] = rows[j],
         rows[k].state = "CLAIMED",
         rows'[k].state \in {"COMPLETE", "DEFERRED"} \cup Blocked, rows'[k].owner = None,
         stopped => stopped', UNCHANGED <<calls, written, known>>,
         \/ rows[k].phase # "WRITE_INTENT" /\ rows'[k].phase # "WRITE_INTENT"
         \/ rows'[k].state \in Blocked /\ stopped' /\ rows'[k].phase # "WRITE_INTENT"
         \/ rows'[k].state \in Blocked /\ stopped' /\ rows'[k].phase = rows[k].phase
  PROVE  Authority!ANext
<1>. DEFINE s == StandingOf(rows'[k].state)
<1>1. /\ s \in {"open", "closed"}
      /\ rows'[k].state \in Blocked => s = "closed"
  BY DEF StandingOf, Claimable, Blocked
<1>2. /\ standingBar' = [standingBar EXCEPT ![k] = s] /\ standingBar[k] = "held"
      /\ holderBar' = [holderBar EXCEPT ![k] = None]
  BY BarsOfPutRow DEF standingBar, StandingOf, Claimable
<1>3. /\ k \in writingBar <=> rows[k].phase = "WRITE_INTENT"
      /\ writingBar' = IF rows'[k].phase = "WRITE_INTENT" THEN writingBar \cup {k}
                                                          ELSE writingBar \ {k}
  BY BarsOfPutRow DEF writingBar
<1>. HIDE DEF s
<1>4. \/ k \notin writingBar /\ writingBar' = writingBar
      \/ s = "closed" /\ stopped' /\ writingBar' \in {writingBar, writingBar \ {k}}
  <2>1. CASE rows[k].phase # "WRITE_INTENT"
    <3>1. CASE rows'[k].phase # "WRITE_INTENT"
      BY <1>3, <2>1, <3>1
    <3>2. CASE rows'[k].phase = "WRITE_INTENT"
      BY <2>1, <3>2
    <3>. QED
      BY <3>1, <3>2
  <2>2. CASE rows[k].phase = "WRITE_INTENT"
    <3>1. writingBar' \in {writingBar, writingBar \ {k}}
      BY <1>3, <2>2
    <3>. QED
      BY <1>1, <2>2, <3>1
  <2>. QED
    BY <2>1, <2>2
<1>5. stopped' \in {stopped, TRUE}
  BY DEF TypeOK
<1>6. UNCHANGED <<unreadBar>>
  BY UnreadUnmoved
<1>7. Authority!GiveBack(k, s)
  BY <1>1, <1>2, <1>4, <1>5, <1>6 DEF Authority!GiveBack
<1>. QED
  BY <1>1, <1>7 DEF Authority!ANext

(* finish gives back a settled item. *)
LEMMA FinishRefines ==
  ASSUME TypeOK, TypeOK', NEW c \in Issued, NEW s \in Outcomes, NEW e \in Receipts,
         NEW d \in Delays, NEW w \in Cooldowns, Finish(c, s, e, d, w)
  PROVE  Authority!ANext
<1>. DEFINE r == IF e = None THEN rows[c.key].checkpoint ELSE e
            row == [RowOf(c) EXCEPT !.state = s, !.phase = "FINISHED",
                      !.checkpoint = r, !.owner = None, !.leaseUntil = 0,
                      !.eligibleAt = clock + d]
            k == c.key
<1>1. /\ Usable(c) /\ PutRow(k, row) /\ rows[k].phase # "WRITE_INTENT"
      /\ UNCHANGED <<calls, written, known>> /\ (stopped => stopped')
  BY DEF Finish, CanFinish, SettlesIntent, Intents
<1>2. k \in Keys /\ rows[k] \in Row /\ rows[k].state = "CLAIMED"
  BY <1>1, ClaimedRowTyped, UsableFacts
<1>3. row.state = s /\ row.phase = "FINISHED" /\ row.owner = None
  BY <1>2 DEF Row
<1>4. rows'[k] = row /\ \A j \in Keys : j # k => rows'[j] = rows[j]
  BY <1>1, <1>2, PutRowFrame
<1>. HIDE DEF row
<1>. QED
  BY <1>1, <1>2, <1>3, <1>4, GiveBackRefines DEF Outcomes

(* stop with a claim closes the item together with everything, or only stops. *)
LEMMA StopRefines ==
  ASSUME TypeOK, TypeOK', NEW c \in Claims, NEW u \in BOOLEAN, StopClaim(c, u)
  PROVE  Authority!ANext
<1>1. CASE ~Current(c)
  <2>1. stopped' = TRUE /\ UNCHANGED <<rows, calls, written, known>>
    BY <1>1 DEF StopClaim
  <2>2. UNCHANGED <<standingBar, holderBar, writingBar, unreadBar>>
    BY <2>1 DEF standingBar, holderBar, writingBar, unreadBar
  <2>. QED
    BY <2>1, <2>2 DEF Authority!ANext, Authority!Halt
<1>2. CASE Current(c)
  <2>. DEFINE s == IF u THEN "PERSISTENCE_UNCERTAIN" ELSE "SAFETY_BLOCKED"
              row == [RowOf(c) EXCEPT !.state = s, !.owner = None, !.leaseUntil = 0,
                                      !.fence = @ + 1]
              k == c.key
  <2>1. k \in Keys /\ rows[k] \in Row /\ rows[k].state = "CLAIMED"
    BY <1>2 DEF Claims, TypeOK, Current
  <2>2. row.state = s /\ row.phase = rows[k].phase /\ row.owner = None
    BY <2>1 DEF Row
  <2>3. rows'[k] = row /\ \A j \in Keys : j # k => rows'[j] = rows[j]
    BY <1>2, <2>1, PutRowFrame DEF StopClaim
  <2>4. stopped' /\ UNCHANGED <<calls, written, known>> /\ s \in Blocked
    BY DEF StopClaim, Blocked
  <2>. HIDE DEF row, s
  <2>. QED
    BY <2>1, <2>2, <2>3, <2>4, GiveBackRefines
<1>. QED
  BY <1>1, <1>2

(* recover gives an idle item back and closes, with everything, one in an intent. *)
LEMMA RecoverRefines ==
  ASSUME TypeOK, TypeOK', NEW c \in Issued, NEW b \in BOOLEAN, Recover(c, b)
  PROVE  Authority!ANext
<1>. DEFINE s == Abandoned(c, b)
            row == [RowOf(c) EXCEPT !.state = s, !.phase = "RECOVERED",
                      !.owner = None, !.leaseUntil = 0, !.fence = @ + 1]
            k == c.key
<1>1. /\ PutRow(k, row) /\ rows[k].state = "CLAIMED"
      /\ stopped' = (stopped \/ s # "DEFERRED") /\ UNCHANGED <<calls, written, known>>
  BY DEF Recover, CanRecover, Current
<1>2. k \in Keys /\ rows[k] \in Row
  BY ClaimedRowTyped
<1>3. row.state = s /\ row.phase = "RECOVERED" /\ row.owner = None
  BY <1>2 DEF Row
<1>4. rows'[k] = row /\ \A j \in Keys : j # k => rows'[j] = rows[j]
  BY <1>1, <1>2, PutRowFrame
<1>5. /\ s \in {"DEFERRED"} \cup Blocked
      /\ rows[k].phase = "WRITE_INTENT" => s \in Blocked /\ s # "DEFERRED"
  BY DEF Abandoned, Blocked
<1>. HIDE DEF row, s
<1>. QED
  BY <1>1, <1>2, <1>3, <1>4, <1>5, GiveBackRefines

(* A fenced effect that commits confirms the write. *)
LEMMA CommitRefines ==
  ASSUME TypeOK, TypeOK', EffectInv, LeaseInv, NEW c \in Issued, NEW e \in Evidence,
         NEW b \in BOOLEAN, FencedEffectCommit(c, e, b)
  PROVE  Authority!ANext
<1>. DEFINE k == c.key
<1>1. /\ Usable(c) /\ rows[k].phase = "WRITE_INTENT" /\ Record(c, e)
      /\ UNCHANGED <<stopped, calls>>
      /\ written' = Bump(written, k, 1) /\ known' = Bump(known, k, 1)
  BY DEF FencedEffectCommit, EnterWriter
<1>2. k \in Keys /\ Authority!Effecting(k) /\ unreadBar[k] = 0
  BY <1>1, UsableBars
<1>3. writingBar = {k} /\ writingBar' = {}
  BY <1>1, <1>2, UsableBars, RecordEffects DEF writingBar
<1>4. unreadBar' = unreadBar
  BY <1>1, <1>2 DEF unreadBar, Bump, TypeOK
<1>5. UNCHANGED <<standingBar, holderBar>>
  BY <1>1, <1>2, RecordEffects, BarsUnmoved, UnreadUnmoved
<1>6. Authority!Confirm(k)
  BY <1>1, <1>2, <1>3, <1>4, <1>5 DEF Authority!Confirm
<1>. QED
  BY <1>2, <1>6 DEF Authority!ANext

(* A fenced effect that raises leaves a doubt behind when the writer had committed. *)
LEMMA RollbackRefines ==
  ASSUME TypeOK, TypeOK', EffectInv, LeaseInv, NEW c \in Issued, NEW b \in BOOLEAN,
         FencedEffectRollback(c, b)
  PROVE  Authority!ANext \/ UNCHANGED Authority!avars
<1>. DEFINE k == c.key
<1>1. /\ Usable(c) /\ rows[k].phase = "WRITE_INTENT"
      /\ UNCHANGED <<rows, stopped, calls, known>>
      /\ written' = Bump(written, k, IF b THEN 1 ELSE 0)
  BY DEF FencedEffectRollback, EnterWriter
<1>2. k \in Keys /\ Authority!Effecting(k) /\ unreadBar[k] = 0
  BY <1>1, UsableBars
<1>3. writingBar = {k}
  BY <1>1, <1>2, UsableBars DEF writingBar
<1>4. UNCHANGED <<standingBar, holderBar, writingBar>>
  BY <1>1 DEF standingBar, holderBar, writingBar
<1>5. CASE b
  <2>1. \A j \in Keys : written[j] \in Nat /\ known[j] \in Nat
    BY DEF TypeOK
  <2>2. written' = [written EXCEPT ![k] = written[k] + 1]
    BY <1>1, <1>2, <1>5 DEF Bump
  <2>3. unreadBar' = [unreadBar EXCEPT ![k] = 1]
    <3>1. written[k] - known[k] = 0 /\ written'[k] = written[k] + 1 /\ known'[k] = known[k]
      BY <1>1, <1>2, <2>2 DEF unreadBar, TypeOK
    <3>2. \A j \in Keys : j # k => written'[j] = written[j] /\ known'[j] = known[j]
      BY <1>1, <2>2 DEF TypeOK
    <3>3. written'[k] - known'[k] = 1
      BY <1>2, <2>1, <3>1
    <3>. QED
      BY <1>2, <3>2, <3>3 DEF unreadBar
  <2>4. Authority!Doubt(k)
    BY <1>1, <1>2, <1>3, <1>4, <2>3 DEF Authority!Doubt
  <2>. QED
    BY <1>2, <2>4 DEF Authority!ANext
<1>6. CASE ~b
  BY <1>1, <1>6, StutterRefines DEF Bump, TypeOK
<1>. QED
  BY <1>5, <1>6

(* Refinement: leases, fences, grants, receipts, cooldowns and recovery implement one
   holder, one source call, one writer, no retry of a write in doubt and a final stop. *)
THEOREM LedgerImplementsAuthority == Spec => KeepsWorkAuthority
<1>1. Init => Authority!AInit
  BY InitRefines
<1>2. TypeOK /\ TypeOK' /\ EffectInv /\ LeaseInv /\ [Next]_vars
        => [Authority!ANext]_Authority!avars
  <2>. SUFFICES ASSUME TypeOK, TypeOK', EffectInv, LeaseInv, [Next]_vars
                PROVE  Authority!ANext \/ UNCHANGED Authority!avars
    OBVIOUS
  <2>1. CASE NextGrant
    BY <2>1, StutterRefines DEF NextGrant, RegisterGrant
  <2>2. CASE NextEnqueue
    BY <2>2, EnqueueRefines DEF NextEnqueue, Enqueue, EnqueueChild
  <2>3. CASE NextClaim
    BY <2>3, ClaimRefines DEF NextClaim
  <2>4. CASE NextStage
    BY <2>4, CheckpointRefines, IntentRefines DEF NextStage
  <2>5. CASE NextFinish
    BY <2>5, FinishRefines DEF NextFinish
  <2>6. CASE NextStop
    <3>1. CASE Stop
      <4>1. UNCHANGED <<standingBar, holderBar, writingBar, unreadBar>>
        BY <3>1 DEF Stop, standingBar, holderBar, writingBar, unreadBar
      <4>. QED
        BY <3>1, <4>1 DEF Stop, Authority!ANext, Authority!Halt
    <3>2. ASSUME NEW c \in Issued, NEW u \in BOOLEAN, StopClaim(c, u)
          PROVE  Authority!ANext
      BY <3>2, StopRefines, IssuedAreClaims
    <3>3. ASSUME NEW c \in uncertain, ReportUncertain(c) PROVE Authority!ANext
      BY <3>3, StopRefines DEF ReportUncertain, TypeOK
    <3>. QED
      BY <2>6, <3>1, <3>2, <3>3 DEF NextStop
  <2>7. CASE NextRecover
    BY <2>7, RecoverRefines DEF NextRecover
  <2>8. CASE NextEffect
    BY <2>8, CommitRefines, RollbackRefines DEF NextEffect
  <2>9. CASE NextCooldown
    BY <2>9, StutterRefines DEF NextCooldown, DeferCouncil
  <2>10. CASE Tick
    BY <2>10, StutterRefines DEF Tick
  <2>11. CASE UNCHANGED vars
    BY <2>11, StutterRefines DEF vars
  <2>. QED
    BY <2>1, <2>2, <2>3, <2>4, <2>5, <2>6, <2>7, <2>8, <2>9, <2>10, <2>11 DEF Next
<1>. QED
  BY <1>1, <1>2, TypeCorrect, EffectsAccounted, LeasesAccounted, PTL
     DEF Spec, KeepsWorkAuthority, Authority!ASpec
=============================================================================
