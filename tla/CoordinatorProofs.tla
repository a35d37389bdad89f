-------------------------- MODULE CoordinatorProofs --------------------------
(* The stage coordinator keeps the promises of the ledger and adds its own, for  *)
(* every value of the constants that CoordinatorAssumption allows.               *)
EXTENDS CoordinatorProperties, LedgerProofs

USE DEF control, history, RowOf, AttemptOf

(* The constants of the coordinator as the proofs use them. *)
LEMMA CoordinatorConstants ==
  ASSUME CoordinatorAssumption
  PROVE  /\ {"LISTING", "FAILURE", "SCREENED", "WITHHELD", "VERIFIED"} \subseteq Evidence
         /\ {"LISTING", "FAILURE", None} \subseteq Receipts
         /\ {"COMPLETE", "DEFERRED", "UNSUPPORTED_CONTRACT"} \subseteq Outcomes
         /\ {"source_calls", "writes"} = Operations
         /\ 0 \in Delays /\ 0 \in Cooldowns
         /\ Children \in [Keys -> SUBSET Keys]
BY DEF CoordinatorAssumption, Receipts, Outcomes, Blocked, Operations

-----------------------------------------------------------------------------
(* What a step of the ledger means for a claim that somebody holds. *)

(* A claim that was issued names the fence of a filed attempt. *)
LEMMA IssuedIsFiled ==
  ASSUME TypeOK, LeaseInv, NEW c \in Issued
  PROVE  /\ c \in Claims /\ c.key \in Keys /\ c.fence \in Filed(c.key)
         /\ attempts[c.key][c.fence].owner = c.owner
         /\ c.fence <= rows[c.key].fence
<1>1. PICK x \in Keys \X Fences : x \in Logged /\ c = ClaimAt(x)
  BY DEF Issued, Logged
<1>2. /\ x[1] \in Keys /\ x[2] \in Fences /\ attempts[x[1]][x[2]].owner # None
      /\ c.key = x[1] /\ c.fence = x[2] /\ c.owner = attempts[x[1]][x[2]].owner
  BY <1>1 DEF Logged, ClaimAt
<1>3. c.fence \in Filed(c.key)
  BY <1>2 DEF Filed
<1>4. c.fence <= rows[c.key].fence
  BY <1>2, <1>3 DEF LeaseInv, LeaseAccounts
<1>. QED
  BY <1>2, <1>3, <1>4, IssuedAreClaims

(* The claim of an attempt that a step leaves filed is issued after it. *)
LEMMA FiledIsIssued ==
  ASSUME NEW c \in Claims, attempts'[c.key][c.fence].owner = c.owner
  PROVE  c \in Issued'
<1>. DEFINE x == <<c.key, c.fence>>
<1>1. /\ c.key \in Keys /\ c.fence \in Fences /\ c.owner \in Owners
      /\ c = [key |-> c.key, fence |-> c.fence, owner |-> c.owner]
  BY DEF Claims
<1>2. c.owner # None
  BY <1>1, EvidenceAssumption
<1>3. x \in Logged'
  BY <1>1, <1>2 DEF Logged
<1>4. ClaimAt(x)' = c
  BY <1>1 DEF ClaimAt
<1>. QED
  BY <1>3, <1>4 DEF Issued

(* Nobody takes an issued claim back: no step files another owner under its fence. *)
LEMMA IssuedStays ==
  ASSUME TypeOK, LeaseInv, [Next]_vars, NEW c \in Issued
  PROVE  c \in Issued'
<1>1. /\ c \in Claims /\ c.key \in Keys /\ c.fence \in Filed(c.key) /\ c.fence \in Fences
      /\ attempts[c.key][c.fence].owner = c.owner
  BY IssuedIsFiled DEF Filed
<1>2. attempts'[c.key][c.fence].owner = c.owner
  <2>1. CASE UNCHANGED <<rows, attempts>>
    BY <1>1, <2>1
  <2>2. CASE \E r \in EnqueueRequests : Insert(r)
    BY <1>1, <2>2, InsertedRow
  <2>3. CASE \E k \in Keys, o \in Owners, a \in Authorities, l \in Leases : Claim(k, o, a, l)
    BY <1>1, <2>3, LeasedRow
  <2>4. ASSUME NEW d \in Claims, OnlyAt(d), KeepsItem(d)
        PROVE  attempts'[c.key][c.fence].owner = c.owner
    BY <1>1, <2>4 DEF OnlyAt, KeepsItem
  <2>5. CASE \E d \in Issued, op \in Operations, cost \in 1 .. 2 :
               Intent(d, op, cost) /\ Current(d) /\ OnlyAt(d) /\ KeepsItem(d)
    BY <2>4, <2>5, IssuedAreClaims
  <2>6. CASE \E d \in Claims :
               Current(d) /\ OnlyAt(d) /\ EntersNoIntent(d) /\ KeepsItem(d)
    BY <2>4, <2>6
  <2>. QED
    BY <2>1, <2>2, <2>3, <2>5, <2>6, StepShapes
<1>. QED
  BY <1>1, <1>2, FiledIsIssued

(* A claim that lost its item does not get it back: stale stays stale. *)
LEMMA StaleStays ==
  ASSUME TypeOK, LeaseInv, [Next]_vars, NEW c \in Issued, ~Current(c)
  PROVE  ~Current(c)'
<1>1. /\ c \in Claims /\ c.key \in Keys /\ c.fence <= rows[c.key].fence
      /\ c.fence \in Nat /\ rows[c.key].fence \in Nat
  <2>1. c \in Claims /\ c.fence <= rows[c.key].fence
    BY IssuedIsFiled
  <2>2. c.key \in Keys /\ c.fence \in Nat
    BY <2>1 DEF Claims, Fences
  <2>3. rows[c.key].fence \in Nat
    BY <2>2 DEF TypeOK, Row
  <2>. QED
    BY <2>1, <2>2, <2>3
<1>2. CASE UNCHANGED <<rows, attempts>>
  BY <1>2 DEF Current
<1>3. CASE \E r \in EnqueueRequests : Insert(r)
  BY <1>1, <1>3, InsertedRow DEF Current
<1>4. CASE \E k \in Keys, o \in Owners, a \in Authorities, l \in Leases : Claim(k, o, a, l)
  <2>1. PICK k \in Keys, o \in Owners, a \in Authorities, l \in Leases : Claim(k, o, a, l)
    BY <1>4
  <2>2. /\ rows'[k].fence = rows[k].fence + 1
        /\ \A j \in Keys : j # k => rows'[j] = rows[j]
    BY <2>1, LeasedRow
  <2>. QED
    BY <1>1, <2>2 DEF Current
<1>5. ASSUME NEW d \in Claims, Current(d), OnlyAt(d), KeepsItem(d)
      PROVE  ~Current(c)'
  BY <1>1, <1>5 DEF OnlyAt, KeepsItem, Current
<1>6. CASE \E d \in Issued, op \in Operations, cost \in 1 .. 2 :
             Intent(d, op, cost) /\ Current(d) /\ OnlyAt(d) /\ KeepsItem(d)
  BY <1>5, <1>6, IssuedAreClaims
<1>7. CASE \E d \in Claims :
             Current(d) /\ OnlyAt(d) /\ EntersNoIntent(d) /\ KeepsItem(d)
  BY <1>5, <1>7
<1>. QED
  BY <1>2, <1>3, <1>4, <1>6, <1>7, StepShapes

(* An enqueued item stays enqueued, with the priority it was enqueued with. *)
LEMMA ItemsStay ==
  ASSUME TypeOK, LeaseInv, [Next]_vars, NEW k \in Keys, Exists(k)
  PROVE  rows'[k].state # "ABSENT" /\ rows'[k].priority = rows[k].priority
<1>1. CASE UNCHANGED <<rows, attempts>>
  BY <1>1 DEF Exists
<1>2. CASE \E r \in EnqueueRequests : Insert(r)
  BY <1>2, InsertedRow DEF Exists
<1>3. CASE \E j \in Keys, o \in Owners, a \in Authorities, l \in Leases : Claim(j, o, a, l)
  BY <1>3, LeasedRow DEF Exists
<1>4. ASSUME NEW d \in Claims, OnlyAt(d), KeepsItem(d)
      PROVE  rows'[k].state # "ABSENT" /\ rows'[k].priority = rows[k].priority
  BY <1>4 DEF OnlyAt, KeepsItem, Exists
<1>5. CASE \E d \in Issued, op \in Operations, cost \in 1 .. 2 :
             Intent(d, op, cost) /\ Current(d) /\ OnlyAt(d) /\ KeepsItem(d)
  BY <1>4, <1>5, IssuedAreClaims
<1>6. CASE \E d \in Claims :
             Current(d) /\ OnlyAt(d) /\ EntersNoIntent(d) /\ KeepsItem(d)
  BY <1>4, <1>6
<1>. QED
  BY <1>1, <1>2, <1>3, <1>5, <1>6, StepShapes

(* Every item that appears was asked for. *)
LEMMA RequestsStay ==
  ASSUME TypeOK, LeaseInv, [Next]_vars, RowsWereRequested
  PROVE  RowsWereRequested'
<1>. SUFFICES ASSUME NEW k \in Keys, rows'[k].state # "ABSENT"
              PROVE  \E r \in EnqueueRequests : r.key = k /\ r.priority = rows'[k].priority
  BY DEF RowsWereRequested, Exists
<1>1. CASE Exists(k)
  BY <1>1, ItemsStay DEF RowsWereRequested
<1>2. CASE ~Exists(k)
  <2>1. ~ \E d \in Claims : Current(d) /\ OnlyAt(d) /\ d.key = k
    BY <1>2 DEF Current, Exists
  <2>2. ASSUME NEW d \in Claims, Current(d), OnlyAt(d) PROVE FALSE
    BY <1>2, <2>2 DEF OnlyAt, Current, Exists
  <2>3. \A d \in Issued : ~(Current(d) /\ OnlyAt(d))
    BY <2>2, IssuedAreClaims
  <2>4. \A j \in Keys, o \in Owners, a \in Authorities, l \in Leases : ~Claim(j, o, a, l)
    BY <1>2, LeasedRow DEF Exists, Claimable
  <2>5. PICK r \in EnqueueRequests : Insert(r)
    BY <1>2, <2>2, <2>3, <2>4, StepShapes DEF Exists
  <2>. QED
    BY <1>2, <2>5, InsertedRow DEF Exists
<1>. QED
  BY <1>1, <1>2
-----------------------------------------------------------------------------
(* What a step of a worker does to its own locals and through the ledger. *)

(* A worker that is inside a method holds a typed claim. *)
LEMMA BusyWorker ==
  ASSUME WorkersOK, NEW w \in Owners
  PROVE  /\ At(w, "idle") <=> worker[w] = Idle
         /\ ~At(w, "idle") => worker[w] \in Busy
<1>1. worker[w] \in {Idle} \cup Busy
  BY DEF WorkersOK
<1>2. Idle.at = "idle" /\ \A r \in Busy : r.at # "idle"
  BY DEF Idle, Busy
<1>. QED
  BY <1>1, <1>2 DEF At

(* The worker table after one worker returned, or went on inside its method. *)
LEMMA LocalsTyped ==
  ASSUME WorkersOK, NEW w \in Owners, NEW r \in {Idle} \cup Busy,
         worker' = [worker EXCEPT ![w] = r]
  PROVE  /\ WorkersOK' /\ worker'[w] = r
         /\ \A v \in Owners : v # w => worker'[v] = worker[v]
BY DEF WorkersOK

\* A step inside a method: where the worker is next, and by which steps it is where
\* a receipt is needed.
Local(w) ==
  /\ ~At(w, "idle")
  /\ WorkersOK'
  /\ \A v \in Owners : v # w => worker'[v] = worker[v]
  /\ At(w, "idle")' \/ Held(w)' = Held(w)
  /\ At(w, "materializing")' => Seal(w) \/ \E child \in Keys : Materialize(w, child)
  /\ At(w, "finishing")' => Screen(w) \/ ReadbackSame(w) \/ Write(w)
  /\ At(w, "writing")' => ReserveWrite(w)

(* The call returns. *)
LEMMA ReturnIsLocal ==
  ASSUME WorkersOK, NEW w \in Owners, ~At(w, "idle"), Return(w)
  PROVE  Local(w)
<1>1. /\ WorkersOK' /\ worker'[w] = Idle
      /\ \A v \in Owners : v # w => worker'[v] = worker[v]
  BY LocalsTyped DEF Return
<1>. QED
  BY <1>1 DEF Local, At, Idle

(* The call goes on to a stage that needs no receipt. *)
LEMMA GotoIsLocal ==
  ASSUME WorkersOK, NEW w \in Owners, ~At(w, "idle"),
         NEW stage \in Stages \ {"idle", "materializing", "finishing", "writing"},
         Goto(w, stage)
  PROVE  Local(w)
<1>. DEFINE r == [worker[w] EXCEPT !.at = stage]
<1>1. worker[w] \in Busy
  BY BusyWorker
<1>2. r \in Busy /\ r.at = stage /\ r.claim = Held(w)
  BY <1>1 DEF Busy, Held
<1>3. worker' = [worker EXCEPT ![w] = r]
  BY DEF Goto
<1>. HIDE DEF r
<1>4. /\ WorkersOK' /\ worker'[w] = r
      /\ \A v \in Owners : v # w => worker'[v] = worker[v]
  BY <1>2, <1>3, LocalsTyped
<1>. QED
  BY <1>2, <1>4 DEF Local, At, Held

(* A refusal of the ledger raises: out of the method, or to the stop of source(). *)
LEMMA RaiseIsLocal ==
  ASSUME WorkersOK, NEW w \in Owners, ~At(w, "idle"), Raise(w)
  PROVE  Local(w)
<1>1. Return(w) \/ Goto(w, "stopping")
  BY DEF Raise
<1>. QED
  BY <1>1, ReturnIsLocal, GotoIsLocal DEF Stages

(* The steps that change more of the locals than where the worker is, or that go to a
   stage at which a receipt is needed. *)
LEMMA BusyIsLocal ==
  ASSUME WorkersOK, NEW w \in Owners, ~At(w, "idle"), NEW r \in Busy,
         worker' = [worker EXCEPT ![w] = r], r.claim = Held(w),
         r.at = "materializing" => Seal(w) \/ \E child \in Keys : Materialize(w, child),
         r.at = "finishing" => Screen(w) \/ ReadbackSame(w) \/ Write(w),
         r.at = "writing" => ReserveWrite(w)
  PROVE  Local(w)
<1>1. /\ WorkersOK' /\ worker'[w] = r
      /\ \A v \in Owners : v # w => worker'[v] = worker[v]
  BY LocalsTyped
<1>. QED
  BY <1>1 DEF Local, At, Held

(* Every step of a method is local to its worker. *)
LEMMA StepIsLocal ==
  ASSUME CoordinatorAssumption, WorkersOK, NEW w \in Owners, Step(w)
  PROVE  Local(w)
<1>. DEFINE me == worker[w]
<1>1. ~At(w, "idle") => me \in Busy
  BY BusyWorker
<1>2. CASE Listing(w)
  <2>1. ~At(w, "idle")
    BY <1>2 DEF Listing, ReserveSource, SourceRefused, ReaderReturns, ReaderRaises,
         Retained, Seal, SealRefused, Materialize, FinishListing, MaterializeRefused,
         StopAfterException, Raised, At
  <2>2. CASE ReserveSource(w)
    <3>. DEFINE r == [me EXCEPT !.at = "reading", !.guarded = TRUE]
    <3>1. worker' = [worker EXCEPT ![w] = r]
      BY <2>2 DEF ReserveSource
    <3>2. r \in Busy /\ r.at = "reading" /\ r.claim = Held(w)
      BY <1>1, <2>1 DEF Busy, Stages, Held
    <3>. HIDE DEF r
    <3>. QED
      BY <2>1, <3>1, <3>2, BusyIsLocal
  <2>3. CASE SourceRefused(w) \/ SealRefused(w) \/ MaterializeRefused(w)
    BY <2>1, <2>3, RaiseIsLocal DEF SourceRefused, SealRefused, MaterializeRefused
  <2>4. CASE ReaderReturns(w) \/ ReaderRaises(w) \/ Retained(w)
    BY <2>1, <2>4, GotoIsLocal DEF ReaderReturns, ReaderRaises, Retained, Stages
  <2>5. CASE Seal(w)
    <3>. DEFINE r == [me EXCEPT !.at = "materializing", !.todo = Children[KeyOf(w)]]
    <3>1. worker' = [worker EXCEPT ![w] = r]
      BY <2>5 DEF Seal
    <3>2. Children[KeyOf(w)] \in SUBSET Keys
      BY <1>1, <2>1, CoordinatorConstants DEF Busy, Claims, KeyOf
    <3>3. r \in Busy /\ r.at = "materializing" /\ r.claim = Held(w)
      BY <1>1, <2>1, <3>2 DEF Busy, Stages, Held
    <3>. HIDE DEF r
    <3>. QED
      BY <2>1, <2>5, <3>1, <3>3, BusyIsLocal
  <2>6. ASSUME NEW child \in Keys, Materialize(w, child) PROVE Local(w)
    <3>. DEFINE r == [me EXCEPT !.todo = @ \ {child}]
    <3>1. worker' = [worker EXCEPT ![w] = r] /\ me.at = "materializing"
      BY <2>6 DEF Materialize, At
    <3>2. r \in Busy /\ r.at = "materializing" /\ r.claim = Held(w)
      BY <1>1, <2>1, <3>1 DEF Busy, Held
    <3>. HIDE DEF r
    <3>. QED
      BY <2>1, <2>6, <3>1, <3>2, BusyIsLocal
  <2>7. CASE FinishListing(w) \/ StopAfterException(w) \/ Raised(w)
    BY <2>1, <2>7, ReturnIsLocal, GotoIsLocal DEF FinishListing, StopAfterException, Raised, Stages
  <2>. QED
    BY <1>2, <2>2, <2>3, <2>4, <2>5, <2>6, <2>7 DEF Listing
<1>3. CASE Failing(w)
  <2>1. ~At(w, "idle")
    BY <1>3 DEF Failing, ReserveForCaller, FailBeforeSource, FailGlobally, FailLocally,
         FailUnsupported, FailRefused, At
  <2>2. CASE ReserveForCaller(w) \/ FailBeforeSource(w)
    BY <2>1, <2>2, GotoIsLocal DEF ReserveForCaller, FailBeforeSource, Stages
  <2>3. CASE FailGlobally(w) \/ FailUnsupported(w)
    BY <2>1, <2>3, ReturnIsLocal DEF FailGlobally, FailUnsupported
  <2>4. CASE \E d \in Delays, t \in Cooldowns : FailLocally(w, d, t)
    BY <2>1, <2>4, ReturnIsLocal DEF FailLocally
  <2>5. CASE FailRefused(w)
    BY <2>1, <2>5, RaiseIsLocal DEF FailRefused
  <2>. QED
    BY <1>3, <2>2, <2>3, <2>4, <2>5 DEF Failing
<1>4. CASE Refreshing(w)
  <2>1. ~At(w, "idle")
    BY <1>4 DEF Refreshing, Screen, Withhold, CheckpointRefused, FinishWithheld,
         ReadbackSame, ReadbackChanged, ReserveWrite, WriteRefused, Write, WriterRaises,
         Report, FinishRefresh, FinishRefused, At
  <2>2. CASE Screen(w) \/ ReadbackSame(w) \/ Write(w)
    <3>. DEFINE r == [me EXCEPT !.at = "finishing"]
    <3>1. worker' = [worker EXCEPT ![w] = r]
      BY <2>2 DEF Screen, ReadbackSame, Write, Goto
    <3>2. r \in Busy /\ r.at = "finishing" /\ r.claim = Held(w)
      BY <1>1, <2>1 DEF Busy, Stages, Held
    <3>. HIDE DEF r
    <3>. QED
      BY <2>1, <2>2, <3>1, <3>2, BusyIsLocal
  <2>3. CASE Withhold(w) \/ WriterRaises(w)
    BY <2>1, <2>3, GotoIsLocal DEF Withhold, WriterRaises, Stages
  <2>4. CASE ReserveWrite(w)
    <3>. DEFINE r == [me EXCEPT !.at = "writing"]
    <3>1. worker' = [worker EXCEPT ![w] = r]
      BY <2>4 DEF ReserveWrite, Goto
    <3>2. r \in Busy /\ r.at = "writing" /\ r.claim = Held(w)
      BY <1>1, <2>1 DEF Busy, Stages, Held
    <3>. HIDE DEF r
    <3>. QED
      BY <2>1, <2>4, <3>1, <3>2, BusyIsLocal
  <2>5. CASE CheckpointRefused(w) \/ WriteRefused(w) \/ FinishRefused(w)
    BY <2>1, <2>5, RaiseIsLocal DEF CheckpointRefused, WriteRefused, FinishRefused
  <2>6. CASE FinishWithheld(w) \/ ReadbackChanged(w) \/ Report(w) \/ FinishRefresh(w)
    BY <2>1, <2>6, ReturnIsLocal DEF FinishWithheld, ReadbackChanged, Report, FinishRefresh
  <2>. QED
    BY <1>4, <2>2, <2>3, <2>4, <2>5, <2>6 DEF Refreshing
<1>. QED
  BY <1>2, <1>3, <1>4 DEF Step

\* The calls of the ledger that a method makes through the claim it holds, but for
\* the two that complete an item.
MakesCall(c) ==
  \/ UNCHANGED vars
  \/ Stop
  \/ \E e \in Evidence : Checkpoint(c, e)
  \/ \E op \in Operations : Intent(c, op, 1)
  \/ \E s \in Outcomes \ {"COMPLETE"}, e \in Receipts, d \in Delays, t \in Cooldowns :
       Finish(c, s, e, d, t)
  \/ StopClaim(c, FALSE)
  \/ ReportUncertain(c)
  \/ \E e \in Evidence, b \in BOOLEAN : FencedEffectCommit(c, e, b)
  \/ \E b \in BOOLEAN : FencedEffectRollback(c, b)

\* _materialize's insert of one child.
InsertsChild(w) ==
  \E child \in Keys :
    /\ At(w, "materializing") /\ Usable(Held(w)) /\ child \in worker[w].todo
    /\ EnqueueChild(ChildRequest(KeyOf(w), child, ItemOf(w).priority), Held(w))

\* The finish that completes an item: of a listing or of a screening or refresh.
Completes(w) == FinishListing(w) \/ FinishRefresh(w)

(* A step of a method is one call of the ledger through the claim it holds, or none. *)
LEMMA StepCalls ==
  ASSUME CoordinatorAssumption, NEW w \in Owners, Step(w)
  PROVE  MakesCall(Held(w)) \/ InsertsChild(w) \/ Completes(w)
<1>. DEFINE A == MakesCall(Held(w)) \/ InsertsChild(w) \/ Completes(w)
<1>1. CASE UNCHANGED vars
  BY <1>1 DEF MakesCall
<1>2. CASE Raise(w)
  BY <1>2 DEF MakesCall, Raise
<1>3. CASE Listing(w)
  <2>1. CASE ReserveSource(w)
    BY <2>1, CoordinatorConstants DEF ReserveSource, MakesCall
  <2>2. CASE SourceRefused(w) \/ SealRefused(w) \/ MaterializeRefused(w)
    BY <1>2, <2>2 DEF SourceRefused, SealRefused, MaterializeRefused
  <2>3. CASE ReaderReturns(w) \/ ReaderRaises(w) \/ Retained(w)
    BY <1>1, <2>3 DEF ReaderReturns, ReaderRaises, Retained
  <2>4. CASE Seal(w)
    BY <2>4, CoordinatorConstants DEF Seal, MakesCall
  <2>5. ASSUME NEW child \in Keys, Materialize(w, child) PROVE A
    BY <1>1, <2>5 DEF Materialize, InsertsChild
  <2>6. CASE FinishListing(w)
    BY <2>6 DEF Completes
  <2>7. CASE StopAfterException(w) \/ Raised(w)
    BY <1>1, <2>7 DEF StopAfterException, Raised, MakesCall
  <2>. QED
    BY <1>3, <2>1, <2>2, <2>3, <2>4, <2>5, <2>6, <2>7 DEF Listing
<1>4. CASE Failing(w)
  <2>1. CASE ReserveForCaller(w)
    BY <2>1, CoordinatorConstants DEF ReserveForCaller, MakesCall
  <2>2. CASE FailBeforeSource(w)
    BY <1>1, <2>2 DEF FailBeforeSource
  <2>3. CASE FailGlobally(w)
    BY <2>3 DEF FailGlobally, MakesCall
  <2>4. CASE \E d \in Delays, t \in Cooldowns : FailLocally(w, d, t)
    BY <2>4, CoordinatorConstants DEF FailLocally, MakesCall
  <2>5. CASE FailUnsupported(w)
    BY <2>5, CoordinatorConstants DEF FailUnsupported, MakesCall
  <2>6. CASE FailRefused(w)
    BY <1>2, <2>6 DEF FailRefused
  <2>. QED
    BY <1>4, <2>1, <2>2, <2>3, <2>4, <2>5, <2>6 DEF Failing
<1>5. CASE Refreshing(w)
  <2>1. CASE Screen(w) \/ Withhold(w)
    BY <2>1, CoordinatorConstants DEF Screen, Withhold, MakesCall
  <2>2. CASE CheckpointRefused(w) \/ WriteRefused(w) \/ FinishRefused(w)
    BY <1>2, <2>2 DEF CheckpointRefused, WriteRefused, FinishRefused
  <2>3. CASE FinishWithheld(w)
    BY <2>3, CoordinatorConstants DEF FinishWithheld, MakesCall
  <2>4. CASE ReadbackSame(w)
    BY <1>1, <2>4 DEF ReadbackSame
  <2>5. CASE ReadbackChanged(w)
    BY <2>5 DEF ReadbackChanged, MakesCall
  <2>6. CASE ReserveWrite(w)
    BY <2>6, CoordinatorConstants DEF ReserveWrite, MakesCall
  <2>7. CASE Write(w)
    BY <2>7, CoordinatorConstants DEF Write, MakesCall
  <2>8. CASE WriterRaises(w)
    BY <2>8, CoordinatorConstants DEF WriterRaises, MakesCall
  <2>9. CASE Report(w)
    BY <1>1, <2>9 DEF Report, MakesCall
  <2>10. CASE FinishRefresh(w)
    BY <2>10 DEF Completes
  <2>. QED
    BY <1>5, <2>1, <2>2, <2>3, <2>4, <2>5, <2>6, <2>7, <2>8, <2>9, <2>10 DEF Refreshing
<1>. QED
  BY <1>3, <1>4, <1>5 DEF Step

-----------------------------------------------------------------------------
(* The coordinator implements the ledger. *)

(* What the invariant says of a worker inside a method. *)
LEMMA HeldClaim ==
  ASSUME CoordinatorInv, NEW w \in Owners, ~At(w, "idle")
  PROVE  /\ Held(w) \in Issued /\ Held(w) \in Claims /\ Held(w).owner = w
         /\ KeyOf(w) \in Keys /\ KeyOf(w) = Held(w).key
<1>1. Held(w) \in Issued /\ Held(w).owner = w
  BY DEF CoordinatorInv, ClaimsAreIssued
<1>2. Held(w) \in Claims
  BY <1>1, IssuedAreClaims DEF CoordinatorInv
<1>. QED
  BY <1>1, <1>2 DEF Claims, KeyOf, Held

(* The request of a child is one that enqueue accepts. *)
LEMMA ChildIsRequested ==
  ASSUME CoordinatorAssumption, CoordinatorInv, NEW w \in Owners,
         At(w, "materializing"), Usable(Held(w)), NEW child \in worker[w].todo
  PROVE  ChildRequest(KeyOf(w), child, ItemOf(w).priority) \in EnqueueRequests
<1>1. KeyOf(w) \in Keys /\ rows[KeyOf(w)].state = "CLAIMED"
  BY HeldClaim DEF At, Usable, Owned, Current
<1>2. PICK r \in EnqueueRequests : r.key = KeyOf(w) /\ r.priority = ItemOf(w).priority
  BY <1>1 DEF CoordinatorInv, RowsWereRequested, Exists, ItemOf
<1>3. child \in Children[r.key]
  BY <1>2 DEF CoordinatorInv, ChildrenInHand
<1>4. ChildRequest(r.key, child, r.priority) \in EnqueueRequests
  BY <1>3 DEF CoordinatorAssumption
<1>. QED
  BY <1>2, <1>4

(* A call through an issued claim is a step of the ledger. *)
LEMMA CallIsLedgerStep ==
  ASSUME TypeOK, NEW c \in Issued, MakesCall(c)
  PROVE  [Next]_vars
<1>1. 1 \in 1 .. 2
  OBVIOUS
<1>2. CASE UNCHANGED vars
  BY <1>2
<1>3. CASE Stop \/ StopClaim(c, FALSE) \/ ReportUncertain(c)
  BY <1>3 DEF Next, NextStop, ReportUncertain
<1>4. CASE \E e \in Evidence : Checkpoint(c, e)
  BY <1>4 DEF Next, NextStage
<1>5. CASE \E op \in Operations : Intent(c, op, 1)
  BY <1>1, <1>5 DEF Next, NextStage
<1>6. CASE \E s \in Outcomes \ {"COMPLETE"}, e \in Receipts, d \in Delays, t \in Cooldowns :
             Finish(c, s, e, d, t)
  BY <1>6 DEF Next, NextFinish
<1>7. CASE \/ \E e \in Evidence, b \in BOOLEAN : FencedEffectCommit(c, e, b)
           \/ \E b \in BOOLEAN : FencedEffectRollback(c, b)
  BY <1>7 DEF Next, NextEffect
<1>. QED
  BY <1>2, <1>3, <1>4, <1>5, <1>6, <1>7 DEF MakesCall

(* Every step of the coordinator is a step of the ledger or leaves it alone. *)
LEMMA CoordinatorStepsLedger ==
  ASSUME CoordinatorAssumption, CoordinatorInv, [CoordinatorNext]_coordinatorVars
  PROVE  [Next]_vars
<1>1. TypeOK
  BY DEF CoordinatorInv
<1>2. ASSUME NEW w \in Owners, NEW k \in Keys, NEW a \in Authorities, NEW l \in Leases,
             Lease(w, k, a, l)
      PROVE  [Next]_vars
  BY <1>2 DEF Lease, Next, NextClaim
<1>3. ASSUME NEW w \in Owners, Step(w) PROVE [Next]_vars
  <2>1. ~At(w, "idle")
    BY <1>3, StepIsLocal DEF Local, CoordinatorInv
  <2>2. Held(w) \in Issued
    BY <2>1, HeldClaim
  <2>3. CASE MakesCall(Held(w))
    BY <1>1, <2>2, <2>3, CallIsLedgerStep
  <2>4. CASE InsertsChild(w)
    BY <2>2, <2>4, ChildIsRequested DEF InsertsChild, Next, NextEnqueue
  <2>5. CASE Completes(w)
    BY <2>2, <2>5, CoordinatorConstants
       DEF Completes, FinishListing, FinishRefresh, Next, NextFinish
  <2>. QED
    BY <1>3, <2>3, <2>4, <2>5, StepCalls
<1>4. ASSUME NEW w \in Owners, Crash(w) PROVE [Next]_vars
  BY <1>4 DEF Crash
<1>5. CASE RecoverAbandoned
  BY <1>5 DEF RecoverAbandoned, Next
<1>6. CASE Operate
  BY <1>6 DEF Operate, RootRequests, Next, NextEnqueue
<1>7. CASE UNCHANGED coordinatorVars
  BY <1>7 DEF coordinatorVars
<1>. QED
  BY <1>2, <1>3, <1>4, <1>5, <1>6, <1>7 DEF CoordinatorNext

-----------------------------------------------------------------------------
(* What the steps of the coordinator do to the items. *)

(* A call through a claim leaves every row alone, or is confined to the item that the
   claim still holds, and does not complete it. *)
LEMMA CallTouches ==
  ASSUME TypeOK, NEW c \in Issued, MakesCall(c)
  PROVE  \/ rows' = rows
         \/ /\ Current(c) /\ OnlyAt(c) /\ KeepsItem(c)
            /\ rows'[c.key].state # "COMPLETE"
<1>. DEFINE A == Current(c) /\ OnlyAt(c) /\ KeepsItem(c) /\ rows'[c.key].state # "COMPLETE"
<1>1. c \in Claims
  BY IssuedAreClaims
<1>2. ASSUME NEW e \in Evidence, Usable(c), Record(c, e) PROVE A
  BY <1>1, <1>2, RecordKeeps DEF Usable, Owned
<1>3. CASE UNCHANGED vars
  BY <1>3 DEF vars
<1>4. CASE Stop
  BY <1>4 DEF Stop
<1>5. CASE \E e \in Evidence : Checkpoint(c, e)
  BY <1>2, <1>5 DEF Checkpoint
<1>6. CASE \E op \in Operations : Intent(c, op, 1)
  BY <1>1, <1>6, IntentKeeps
<1>7. CASE \E s \in Outcomes \ {"COMPLETE"}, e \in Receipts, d \in Delays, t \in Cooldowns :
             Finish(c, s, e, d, t)
  BY <1>1, <1>7, FinishReleases
<1>8. ASSUME NEW u \in BOOLEAN, StopClaim(c, u) PROVE rows' = rows \/ A
  <2>1. CASE Current(c)
    BY <1>1, <1>8, <2>1, StopReleases DEF Blocked
  <2>2. CASE ~Current(c)
    BY <1>8, <2>2 DEF StopClaim
  <2>. QED
    BY <2>1, <2>2
<1>9. CASE StopClaim(c, FALSE) \/ ReportUncertain(c)
  BY <1>8, <1>9 DEF ReportUncertain
<1>10. CASE \E e \in Evidence, b \in BOOLEAN : FencedEffectCommit(c, e, b)
  BY <1>2, <1>10 DEF FencedEffectCommit, EnterWriter
<1>11. CASE \E b \in BOOLEAN : FencedEffectRollback(c, b)
  BY <1>11 DEF FencedEffectRollback
<1>. QED
  BY <1>3, <1>4, <1>5, <1>6, <1>7, <1>9, <1>10, <1>11 DEF MakesCall

(* The completing finish keeps the receipt. *)
LEMMA CompletedItem ==
  ASSUME CoordinatorAssumption, TypeOK, NEW w \in Owners, Held(w) \in Issued, Completes(w)
  PROVE  /\ Current(Held(w)) /\ OnlyAt(Held(w)) /\ KeepsItem(Held(w))
         /\ rows'[KeyOf(w)].state = "COMPLETE"
         /\ rows'[KeyOf(w)].checkpoint = rows[KeyOf(w)].checkpoint
<1>1. Held(w) \in Claims /\ KeyOf(w) = Held(w).key
  BY IssuedAreClaims DEF KeyOf, Held
<1>2. Finish(Held(w), "COMPLETE", None, 0, 0)
  BY DEF Completes, FinishListing, FinishRefresh
<1>. QED
  BY <1>1, <1>2, FinishReleases, CoordinatorConstants

(* A step of a worker inserts an item, or touches the row it holds, or none. *)
LEMMA StepTouches ==
  ASSUME CoordinatorAssumption, CoordinatorInv, NEW w \in Owners, Step(w)
  PROVE  /\ ~At(w, "idle") /\ Held(w) \in Issued
         /\ \/ rows' = rows
            \/ \E r \in EnqueueRequests : Insert(r)
            \/ Current(Held(w)) /\ OnlyAt(Held(w)) /\ KeepsItem(Held(w))
<1>1. ~At(w, "idle") /\ Held(w) \in Issued
  BY StepIsLocal, HeldClaim DEF Local, CoordinatorInv
<1>2. TypeOK
  BY DEF CoordinatorInv
<1>3. CASE MakesCall(Held(w))
  BY <1>1, <1>2, <1>3, CallTouches
<1>4. CASE InsertsChild(w)
  BY <1>1, <1>4, ChildIsRequested DEF InsertsChild, EnqueueChild
<1>5. CASE Completes(w)
  BY <1>1, <1>2, <1>5, CompletedItem
<1>. QED
  BY <1>1, <1>3, <1>4, <1>5, StepCalls

(* While a worker's claim stays current, only the worker changes its item. *)
LEMMA ItemIsHeld ==
  ASSUME CoordinatorAssumption, CoordinatorInv, [CoordinatorNext]_coordinatorVars,
         NEW v \in Owners, ~At(v, "idle"), Current(Held(v)), ~Step(v),
         rows'[KeyOf(v)].state = "CLAIMED"
  PROVE  rows'[KeyOf(v)] = rows[KeyOf(v)]
<1>. DEFINE k == KeyOf(v)
<1>1. /\ k \in Keys /\ k = Held(v).key /\ Held(v) \in Claims /\ Held(v).owner = v
      /\ TypeOK /\ LeaseInv /\ rows[k].state = "CLAIMED" /\ rows[k].owner = v
  BY HeldClaim DEF CoordinatorInv, Current
<1>2. ASSUME NEW c \in Claims, c.key = k => rows[k].owner # v, OnlyAt(c)
      PROVE  rows'[k] = rows[k]
  BY <1>1, <1>2 DEF OnlyAt
<1>3. ASSUME NEW r \in EnqueueRequests, Insert(r) PROVE rows'[k] = rows[k]
  BY <1>1, <1>3, InsertedRow
<1>4. ASSUME NEW w \in Owners, NEW j \in Keys, NEW a \in Authorities, NEW l \in Leases,
             Lease(w, j, a, l)
      PROVE  rows'[k] = rows[k]
  BY <1>1, <1>4, LeasedRow DEF Lease, Claimable
<1>5. ASSUME NEW w \in Owners, Step(w) PROVE rows'[k] = rows[k]
  <2>1. w # v /\ ~At(w, "idle") /\ Held(w) \in Claims /\ Held(w).owner = w
    BY <1>5, StepTouches, HeldClaim
  <2>2. CASE Current(Held(w)) /\ OnlyAt(Held(w))
    BY <1>1, <1>2, <2>1, <2>2 DEF Current
  <2>. QED
    BY <1>3, <1>5, <2>2, StepTouches
<1>6. CASE \E w \in Owners : Crash(w)
  BY <1>6 DEF Crash, vars
<1>7. CASE RecoverAbandoned
  <2>1. PICK c \in Issued, b \in BOOLEAN : Recover(c, b)
    BY <1>7 DEF RecoverAbandoned, NextRecover
  <2>2. c \in Claims
    BY <1>1, IssuedAreClaims
  <2>3. OnlyAt(c) /\ rows'[c.key].state # "CLAIMED"
    BY <1>1, <2>1, <2>2, RecoverReleases DEF Blocked
  <2>. QED
    BY <1>1, <2>3 DEF OnlyAt
<1>8. CASE Operate
  <2>1. CASE NextGrant \/ Tick
    BY <2>1 DEF NextGrant, RegisterGrant, Tick
  <2>2. CASE \E r \in RootRequests : Enqueue(r)
    BY <1>3, <2>2 DEF RootRequests, Enqueue
  <2>. QED
    BY <1>8, <2>1, <2>2 DEF Operate
<1>9. CASE UNCHANGED coordinatorVars
  BY <1>9 DEF coordinatorVars, vars
<1>. QED
  BY <1>4, <1>5, <1>6, <1>7, <1>8, <1>9 DEF CoordinatorNext

-----------------------------------------------------------------------------
(* The invariant is kept. *)

(* A lease gives an idle worker an issued claim on the item. *)
LEMMA LeaseIsIssued ==
  ASSUME TypeOK, LeaseInv, WorkersOK, NEW w \in Owners, NEW k \in Keys,
         NEW a \in Authorities, NEW l \in Leases, Lease(w, k, a, l)
  PROVE  /\ WorkersOK' /\ At(w, "leased")' /\ Held(w)' \in Issued' /\ Held(w)'.owner = w
         /\ \A v \in Owners : v # w => worker'[v] = worker[v]
<1>. DEFINE c == [key |-> k, fence |-> rows[k].fence + 1, owner |-> w]
            r == [Idle EXCEPT !.at = "leased", !.claim = c]
<1>1. worker' = [worker EXCEPT ![w] = r] /\ Claim(k, w, a, l)
  BY DEF Lease
<1>2. rows[k].fence + 1 \in Fences /\ attempts'[k][rows[k].fence + 1].owner = w
  BY <1>1, LeasedRow
<1>3. c \in Claims /\ c.key = k /\ c.fence = rows[k].fence + 1 /\ c.owner = w
  BY <1>2 DEF Claims
<1>4. c \in Issued'
  BY <1>2, <1>3, FiledIsIssued
<1>. HIDE DEF c
<1>5. r \in Busy /\ r.at = "leased" /\ r.claim = c
  BY <1>3 DEF Busy, Idle, Stages
<1>. HIDE DEF r
<1>6. /\ WorkersOK' /\ worker'[w] = r
      /\ \A v \in Owners : v # w => worker'[v] = worker[v]
  BY <1>1, <1>5, LocalsTyped
<1>. QED
  BY <1>3, <1>4, <1>5, <1>6 DEF At, Held

(* A worker returns, keeps its locals, is leased an item, or takes a step of a method. *)
LEMMA WorkerSteps ==
  ASSUME CoordinatorAssumption, CoordinatorInv, [CoordinatorNext]_coordinatorVars
  PROVE  /\ WorkersOK'
         /\ \A v \in Owners :
              \/ Step(v) /\ Local(v)
              \/ At(v, "idle")'
              \/ worker'[v] = worker[v]
              \/ /\ At(v, "leased")' /\ Held(v)' \in Issued' /\ Held(v)'.owner = v
                 /\ \E k \in Keys, a \in Authorities, l \in Leases : Lease(v, k, a, l)
<1>1. TypeOK /\ LeaseInv /\ WorkersOK
  BY DEF CoordinatorInv
<1>2. ASSUME NEW w \in Owners, NEW k \in Keys, NEW a \in Authorities, NEW l \in Leases,
             Lease(w, k, a, l)
      PROVE  /\ WorkersOK' /\ At(w, "leased")' /\ Held(w)' \in Issued' /\ Held(w)'.owner = w
             /\ \A v \in Owners : v # w => worker'[v] = worker[v]
  BY <1>1, <1>2, LeaseIsIssued
<1>3. ASSUME NEW w \in Owners, Step(w)
      PROVE  WorkersOK' /\ Local(w) /\ \A v \in Owners : v # w => worker'[v] = worker[v]
  BY <1>1, <1>3, StepIsLocal DEF Local
<1>4. ASSUME NEW w \in Owners, Crash(w)
      PROVE  /\ WorkersOK' /\ At(w, "idle")'
             /\ \A v \in Owners : v # w => worker'[v] = worker[v]
  <2>1. /\ WorkersOK' /\ worker'[w] = Idle
        /\ \A v \in Owners : v # w => worker'[v] = worker[v]
    BY <1>1, <1>4, LocalsTyped DEF Crash, Return
  <2>. QED
    BY <2>1 DEF At, Idle
<1>5. CASE worker' = worker
  BY <1>1, <1>5 DEF WorkersOK
<1>6. CASE RecoverAbandoned \/ Operate \/ UNCHANGED coordinatorVars
  BY <1>5, <1>6 DEF RecoverAbandoned, Operate, coordinatorVars
<1>7. CASE \E w \in Owners, k \in Keys, a \in Authorities, l \in Leases : Lease(w, k, a, l)
  BY <1>2, <1>7
<1>8. CASE \E w \in Owners : Step(w)
  BY <1>3, <1>8
<1>9. CASE \E w \in Owners : Crash(w)
  BY <1>4, <1>9
<1>. QED
  BY <1>6, <1>7, <1>8, <1>9 DEF CoordinatorNext

(* What a worker holds stays issued. *)
LEMMA ClaimsStay ==
  ASSUME CoordinatorAssumption, CoordinatorInv, [CoordinatorNext]_coordinatorVars
  PROVE  ClaimsAreIssued'
<1>. SUFFICES ASSUME NEW v \in Owners, ~At(v, "idle")'
              PROVE  Held(v)' \in Issued' /\ Held(v)'.owner = v
  BY DEF ClaimsAreIssued
<1>1. ASSUME ~At(v, "idle"), Held(v)' = Held(v)
      PROVE  Held(v)' \in Issued' /\ Held(v)'.owner = v
  <2>1. Held(v) \in Issued /\ Held(v).owner = v
    BY <1>1, HeldClaim
  <2>. QED
    BY <1>1, <2>1, IssuedStays, CoordinatorStepsLedger DEF CoordinatorInv
<1>2. CASE worker'[v] = worker[v]
  BY <1>1, <1>2 DEF At, Held
<1>3. CASE Local(v)
  BY <1>1, <1>3 DEF Local
<1>. QED
  BY <1>2, <1>3, WorkerSteps

(* The worker's own steps: with the receipt that the method has just sealed. *)
LEMMA OwnReceipt ==
  ASSUME CoordinatorAssumption, CoordinatorInv, NEW v \in Owners, Step(v),
         rows'[KeyOf(v)].state = "CLAIMED", Local(v)
  PROVE  /\ At(v, "materializing")' => rows'[KeyOf(v)].checkpoint = "LISTING"
         /\ At(v, "finishing")' => rows'[KeyOf(v)].checkpoint \in {"SCREENED", "VERIFIED"}
<1>1. /\ ~At(v, "idle") /\ Held(v) \in Issued /\ Held(v) \in Claims
      /\ KeyOf(v) \in Keys /\ KeyOf(v) = Held(v).key /\ TypeOK
  BY HeldClaim DEF Local, CoordinatorInv
<1>2. ASSUME NEW e \in Evidence, Usable(Held(v)), Record(Held(v), e)
      PROVE  rows'[KeyOf(v)].checkpoint = e
  BY <1>1, <1>2, RecordKeeps DEF Usable, Owned
<1>3. ASSUME Seal(v) PROVE rows'[KeyOf(v)].checkpoint = "LISTING"
  BY <1>2, <1>3, CoordinatorConstants DEF Seal, Checkpoint
<1>4. ASSUME NEW child \in Keys, Materialize(v, child)
      PROVE  rows'[KeyOf(v)].checkpoint = "LISTING"
  <2>1. At(v, "materializing") /\ Usable(Held(v)) /\ child \in worker[v].todo
    BY <1>4 DEF Materialize
  <2>2. rows[KeyOf(v)].checkpoint = "LISTING" /\ rows[KeyOf(v)].state = "CLAIMED"
    BY <1>1, <2>1 DEF CoordinatorInv, ReceiptsInHand, ItemOf, Usable, Owned, Current
  <2>3. rows'[KeyOf(v)] = rows[KeyOf(v)]
    <3>. DEFINE r == ChildRequest(KeyOf(v), child, ItemOf(v).priority)
    <3>1. r \in EnqueueRequests
      BY <2>1, ChildIsRequested
    <3>2. CASE Exists(child)
      BY <1>4, <3>2 DEF Materialize, vars
    <3>3. CASE ~Exists(child)
      <4>1. Insert(r)
        BY <1>4, <3>3 DEF Materialize, EnqueueChild
      <4>. HIDE DEF r
      <4>2. r.key # KeyOf(v)
        BY <1>1, <2>2, <3>1, <4>1, InsertedRow
      <4>. QED
        BY <1>1, <3>1, <4>1, <4>2, InsertedRow
    <3>. QED
      BY <3>2, <3>3
  <2>. QED
    BY <2>2, <2>3
<1>5. ASSUME Screen(v) PROVE rows'[KeyOf(v)].checkpoint = "SCREENED"
  BY <1>2, <1>5, CoordinatorConstants DEF Screen, Checkpoint
<1>6. ASSUME Write(v) PROVE rows'[KeyOf(v)].checkpoint = "VERIFIED"
  BY <1>2, <1>6, CoordinatorConstants DEF Write, FencedEffectCommit, EnterWriter
<1>7. ASSUME ReadbackSame(v) PROVE rows'[KeyOf(v)].checkpoint = "VERIFIED"
  BY <1>7 DEF ReadbackSame, Verified, ItemOf, vars
<1>. QED
  BY <1>3, <1>4, <1>5, <1>6, <1>7 DEF Local

(* A worker goes on with the receipt that its method needs. *)
LEMMA ReceiptsStay ==
  ASSUME CoordinatorAssumption, CoordinatorInv, [CoordinatorNext]_coordinatorVars
  PROVE  ReceiptsInHand'
<1>. SUFFICES ASSUME NEW v \in Owners, ~At(v, "idle")', Current(Held(v))'
              PROVE  /\ At(v, "materializing")' => ItemOf(v)'.checkpoint = "LISTING"
                     /\ At(v, "finishing")' =>
                          ItemOf(v)'.checkpoint \in {"SCREENED", "VERIFIED"}
  BY DEF ReceiptsInHand
<1>1. Held(v)' = Held(v) => KeyOf(v)' = KeyOf(v)
  BY DEF Held, KeyOf
<1>2. rows'[KeyOf(v)'].state = "CLAIMED"
  BY DEF Current, Held, KeyOf
<1>3. CASE Step(v) /\ Local(v)
  <2>1. KeyOf(v)' = KeyOf(v)
    BY <1>1, <1>3 DEF Local
  <2>. QED
    BY <1>2, <1>3, <2>1, OwnReceipt DEF ItemOf
<1>4. CASE ~Step(v) /\ worker'[v] = worker[v]
  <2>1. /\ ~At(v, "idle") /\ Held(v)' = Held(v) /\ KeyOf(v)' = KeyOf(v)
        /\ At(v, "materializing")' = At(v, "materializing")
        /\ At(v, "finishing")' = At(v, "finishing")
    BY <1>4 DEF At, Held, KeyOf
  <2>2. Held(v) \in Issued /\ TypeOK /\ LeaseInv /\ [Next]_vars
    BY <2>1, HeldClaim, CoordinatorStepsLedger DEF CoordinatorInv
  <2>3. Current(Held(v))
    <3>. DEFINE c == Held(v)
    <3>1. rows'[c.key].state = "CLAIMED" /\ rows'[c.key].fence = c.fence
          /\ rows'[c.key].owner = c.owner
      BY <2>1 DEF Current
    <3>. HIDE DEF c
    <3>2. ASSUME ~Current(c) PROVE FALSE
      BY <2>2, <3>1, <3>2, StaleStays DEF Current, c
    <3>. QED
      BY <3>2 DEF c
  <2>4. rows'[KeyOf(v)] = rows[KeyOf(v)]
    BY <1>2, <1>4, <2>1, <2>3, ItemIsHeld
  <2>. QED
    BY <2>1, <2>3, <2>4 DEF CoordinatorInv, ReceiptsInHand, ItemOf
<1>5. CASE At(v, "leased")'
  BY <1>5 DEF At
<1>6. Step(v) => Local(v)
  BY StepIsLocal DEF CoordinatorInv
<1>. QED
  BY <1>3, <1>4, <1>5, <1>6, WorkerSteps

(* _materialize keeps count of the children it is done with. *)
LEMMA ChildrenStay ==
  ASSUME CoordinatorAssumption, CoordinatorInv, [CoordinatorNext]_coordinatorVars
  PROVE  ChildrenInHand'
<1>. SUFFICES ASSUME NEW v \in Owners, At(v, "materializing")'
              PROVE  /\ worker'[v].todo \subseteq Children[KeyOf(v)']
                     /\ \A d \in Children[KeyOf(v)'] \ worker'[v].todo : rows'[d].state # "ABSENT"
  BY DEF ChildrenInHand, Exists
<1>1. TypeOK /\ LeaseInv /\ WorkersOK /\ [Next]_vars
  BY CoordinatorStepsLedger DEF CoordinatorInv
<1>2. \A k \in Keys : Children[k] \subseteq Keys
  BY CoordinatorConstants
<1>3. CASE worker'[v] = worker[v]
  <2>1. /\ At(v, "materializing") /\ ~At(v, "idle") /\ KeyOf(v)' = KeyOf(v)
        /\ worker'[v].todo = worker[v].todo
    BY <1>3 DEF At, KeyOf
  <2>2. KeyOf(v) \in Keys
    BY <2>1, HeldClaim
  <2>. QED
    BY <1>1, <1>2, <2>1, <2>2, ItemsStay DEF CoordinatorInv, ChildrenInHand
<1>4. CASE Local(v)
  <2>1. ~At(v, "idle") /\ KeyOf(v)' = KeyOf(v)
    BY <1>4 DEF Local, At, Held, KeyOf
  <2>2. KeyOf(v) \in Keys /\ worker[v] \in Busy
    BY <1>1, <2>1, HeldClaim, BusyWorker
  <2>3. CASE Seal(v)
    <3>1. worker'[v].todo = Children[KeyOf(v)]
      BY <1>1, <2>3 DEF Seal, WorkersOK, Busy, Idle
    <3>. QED
      BY <2>1, <3>1
  <2>4. ASSUME NEW child \in Keys, Materialize(v, child)
        PROVE  /\ worker'[v].todo \subseteq Children[KeyOf(v)']
               /\ \A d \in Children[KeyOf(v)'] \ worker'[v].todo : rows'[d].state # "ABSENT"
    <3>1. At(v, "materializing") /\ Usable(Held(v)) /\ child \in worker[v].todo
      BY <2>4 DEF Materialize
    <3>2. worker'[v].todo = worker[v].todo \ {child}
      BY <1>1, <2>4 DEF Materialize, WorkersOK, Busy, Idle
    <3>3. rows'[child].state # "ABSENT"
      <4>. DEFINE r == ChildRequest(KeyOf(v), child, ItemOf(v).priority)
      <4>1. CASE Exists(child)
        BY <1>1, <4>1, ItemsStay
      <4>2. CASE ~Exists(child)
        <5>1. Insert(r) /\ r \in EnqueueRequests /\ r.key = child
          BY <2>4, <3>1, <4>2, ChildIsRequested DEF Materialize, EnqueueChild, ChildRequest
        <5>. HIDE DEF r
        <5>. QED
          BY <1>1, <5>1, InsertedRow
      <4>. QED
        BY <4>1, <4>2
    <3>4. /\ worker[v].todo \subseteq Children[KeyOf(v)]
          /\ \A d \in Children[KeyOf(v)] \ worker[v].todo : Exists(d)
      BY <3>1 DEF CoordinatorInv, ChildrenInHand
    <3>5. \A d \in Children[KeyOf(v)] \ worker[v].todo : rows'[d].state # "ABSENT"
      BY <1>1, <1>2, <2>2, <3>4, ItemsStay
    <3>. QED
      BY <2>1, <3>2, <3>3, <3>4, <3>5
  <2>. QED
    BY <1>4, <2>3, <2>4 DEF Local
<1>5. CASE At(v, "leased")' \/ At(v, "idle")'
  BY <1>5 DEF At
<1>. QED
  BY <1>3, <1>4, <1>5, WorkerSteps

(* An item becomes complete in the finish of a listing or of a refresh only. *)
LEMMA CompletionStep ==
  ASSUME CoordinatorAssumption, CoordinatorInv, [CoordinatorNext]_coordinatorVars,
         NEW k \in Keys, rows'[k].state = "COMPLETE", rows[k].state # "COMPLETE"
  PROVE  \E w \in Owners : ~At(w, "idle") /\ KeyOf(w) = k /\ Completes(w)
<1>1. TypeOK /\ LeaseInv
  BY DEF CoordinatorInv
<1>2. ASSUME NEW r \in EnqueueRequests, Insert(r) PROVE FALSE
  BY <1>1, <1>2, InsertedRow
<1>3. ASSUME NEW w \in Owners, NEW j \in Keys, NEW a \in Authorities, NEW l \in Leases,
             Lease(w, j, a, l)
      PROVE  FALSE
  BY <1>1, <1>3, LeasedRow DEF Lease
<1>4. ASSUME NEW w \in Owners, Step(w)
      PROVE  ~At(w, "idle") /\ KeyOf(w) = k /\ Completes(w)
  <2>1. /\ ~At(w, "idle") /\ Held(w) \in Issued /\ Held(w) \in Claims /\ KeyOf(w) = Held(w).key
    BY <1>4, StepTouches, HeldClaim
  <2>2. CASE MakesCall(Held(w))
    BY <1>1, <2>1, <2>2, CallTouches DEF OnlyAt
  <2>3. CASE InsertsChild(w)
    BY <1>2, <2>3, ChildIsRequested DEF InsertsChild, EnqueueChild
  <2>4. CASE Completes(w)
    BY <1>1, <2>1, <2>4, CompletedItem DEF OnlyAt
  <2>. QED
    BY <1>4, <2>2, <2>3, <2>4, StepCalls
<1>5. ASSUME NEW w \in Owners, Crash(w) PROVE FALSE
  BY <1>5 DEF Crash, vars
<1>6. ASSUME RecoverAbandoned PROVE FALSE
  <2>1. PICK c \in Issued, b \in BOOLEAN : Recover(c, b)
    BY <1>6 DEF RecoverAbandoned, NextRecover
  <2>2. c \in Claims
    BY <1>1, IssuedAreClaims
  <2>3. OnlyAt(c) /\ rows'[c.key].state # "COMPLETE"
    BY <1>1, <2>1, <2>2, RecoverReleases DEF Blocked
  <2>. QED
    BY <2>3 DEF OnlyAt
<1>7. ASSUME Operate PROVE FALSE
  <2>1. CASE NextGrant \/ Tick
    BY <2>1 DEF NextGrant, RegisterGrant, Tick
  <2>2. CASE \E r \in RootRequests : Enqueue(r)
    BY <1>2, <2>2 DEF RootRequests, Enqueue
  <2>. QED
    BY <1>7, <2>1, <2>2 DEF Operate
<1>8. ASSUME UNCHANGED coordinatorVars PROVE FALSE
  BY <1>8 DEF coordinatorVars, vars
<1>. QED
  BY <1>3, <1>4, <1>5, <1>6, <1>7, <1>8 DEF CoordinatorNext

(* A scope is completed with all the children of its receipt, and they stay. *)
LEMMA CompleteScopesStay ==
  ASSUME CoordinatorAssumption, CoordinatorInv, [CoordinatorNext]_coordinatorVars
  PROVE  CompleteScopeHasChildren'
<1>. SUFFICES ASSUME NEW k \in Keys, rows'[k].state = "COMPLETE",
                     rows'[k].checkpoint = "LISTING", NEW d \in Children[k]
              PROVE  rows'[d].state # "ABSENT"
  BY DEF CompleteScopeHasChildren, Exists
<1>1. TypeOK /\ LeaseInv /\ [Next]_vars /\ d \in Keys
  BY CoordinatorStepsLedger, CoordinatorConstants DEF CoordinatorInv
<1>2. ASSUME Exists(d) PROVE rows'[d].state # "ABSENT"
  BY <1>1, <1>2, ItemsStay
<1>3. CASE rows[k].state = "COMPLETE"
  <2>1. rows'[k] = rows[k]
    BY <1>1, <1>3, TerminalStep
  <2>2. Exists(d)
    BY <1>3, <2>1 DEF CoordinatorInv, CompleteScopeHasChildren
  <2>. QED
    BY <1>2, <2>2
<1>4. CASE rows[k].state # "COMPLETE"
  <2>1. PICK w \in Owners : ~At(w, "idle") /\ KeyOf(w) = k /\ Completes(w)
    BY <1>4, CompletionStep
  <2>2. Current(Held(w)) /\ rows[k].checkpoint = "LISTING"
    BY <1>1, <2>1, HeldClaim, CompletedItem
  <2>3. CASE FinishListing(w)
    <3>1. At(w, "materializing") /\ worker[w].todo = {}
      BY <2>3 DEF FinishListing
    <3>2. Exists(d)
      BY <2>1, <3>1 DEF CoordinatorInv, ChildrenInHand
    <3>. QED
      BY <1>2, <3>2
  <2>4. CASE FinishRefresh(w)
    <3>1. At(w, "finishing")
      BY <2>4 DEF FinishRefresh
    <3>2. rows[k].checkpoint \in {"SCREENED", "VERIFIED"}
      BY <2>1, <2>2, <3>1 DEF CoordinatorInv, ReceiptsInHand, ItemOf
    <3>. QED
      BY <2>2, <3>2
  <2>. QED
    BY <2>1, <2>3, <2>4 DEF Completes
<1>. QED
  BY <1>3, <1>4

(* The invariant of the coordinator is inductive. *)
LEMMA CoordinatorStep ==
  ASSUME CoordinatorAssumption, CoordinatorInv, [CoordinatorNext]_coordinatorVars
  PROVE  CoordinatorInv'
<1>1. TypeOK /\ LeaseInv /\ RowsWereRequested /\ [Next]_vars
  BY CoordinatorStepsLedger DEF CoordinatorInv
<1>2. TypeOK' /\ LeaseInv'
  BY <1>1, NextTyped, NextLeases
<1>3. RowsWereRequested'
  BY <1>1, RequestsStay
<1>4. WorkersOK' /\ ClaimsAreIssued'
  BY WorkerSteps, ClaimsStay
<1>5. ReceiptsInHand' /\ ChildrenInHand' /\ CompleteScopeHasChildren'
  BY ReceiptsStay, ChildrenStay, CompleteScopesStay
<1>. QED
  BY <1>2, <1>3, <1>4, <1>5 DEF CoordinatorInv

(* It holds before anything is enqueued or leased. *)
LEMMA CoordinatorStarts ==
  ASSUME CoordinatorInit
  PROVE  CoordinatorInv
<1>1. Init /\ worker = [w \in Owners |-> Idle] /\ rows = [k \in Keys |-> NoRow]
  BY DEF CoordinatorInit, Init
<1>2. TypeOK /\ LeaseInv
  BY <1>1, InitTypeOK, InitLeases
<1>3. \A w \in Owners : worker[w] = Idle /\ At(w, "idle")
  BY <1>1 DEF At, Idle
<1>4. \A k \in Keys : rows[k].state = "ABSENT" /\ ~Exists(k)
  BY <1>1 DEF NoRow, Exists
<1>5. WorkersOK
  BY <1>1 DEF WorkersOK
<1>6. ClaimsAreIssued /\ ReceiptsInHand /\ ChildrenInHand
  BY <1>3 DEF ClaimsAreIssued, ReceiptsInHand, ChildrenInHand, At
<1>7. RowsWereRequested /\ CompleteScopeHasChildren
  BY <1>4 DEF RowsWereRequested, CompleteScopeHasChildren
<1>. QED
  BY <1>2, <1>5, <1>6, <1>7 DEF CoordinatorInv

-----------------------------------------------------------------------------
(* What the methods of source, screening and factual_refresh keep between their
   transactions, in every behaviour of the coordinator. *)
THEOREM MethodsKeepTogether ==
  ASSUME CoordinatorAssumption PROVE CoordinatorSpec => []CoordinatorInv
<1>1. CoordinatorInit => CoordinatorInv
  BY CoordinatorStarts
<1>2. CoordinatorInv /\ [CoordinatorNext]_coordinatorVars => CoordinatorInv'
  BY CoordinatorStep
<1>. QED
  BY <1>1, <1>2, PTL DEF CoordinatorSpec

(* A completed scope has every child of its listing: no death, expiry, recovery or
   takeover between the inserts of _materialize loses one. *)
THEOREM CompleteScopesHaveChildren ==
  ASSUME CoordinatorAssumption PROVE CoordinatorSpec => []CompleteScopeHasChildren
<1>1. CoordinatorInv => CompleteScopeHasChildren
  BY DEF CoordinatorInv
<1>. QED
  BY <1>1, MethodsKeepTogether, PTL

(* The coordinator is an implementation of the ledger: whatever its workers do is a
   behaviour of Ledger's specification. *)
THEOREM CoordinatorImplementsLedger ==
  ASSUME CoordinatorAssumption PROVE CoordinatorSpec => ImplementsLedger
<1>1. CoordinatorInit => Init
  BY DEF CoordinatorInit
<1>2. CoordinatorInv /\ [CoordinatorNext]_coordinatorVars => [Next]_vars
  BY CoordinatorStepsLedger
<1>. QED
  BY <1>1, <1>2, MethodsKeepTogether, PTL DEF CoordinatorSpec, ImplementsLedger

(* Only _materialize inserts a child, and it goes by the receipt of its scope. *)
LEMMA InsertedChild ==
  ASSUME CoordinatorAssumption, CoordinatorInv, [CoordinatorNext]_coordinatorVars,
         NEW d \in ChildKeys, ~Exists(d), rows'[d].state # "ABSENT"
  PROVE  \A k \in rows'[d].deps : rows[k].checkpoint = "LISTING"
<1>1. TypeOK /\ LeaseInv /\ d \in Keys
  BY CoordinatorConstants DEF CoordinatorInv, ChildKeys
<1>2. rows[d].state = "ABSENT"
  BY DEF Exists
<1>3. ASSUME NEW c \in Claims, Current(c), OnlyAt(c) PROVE FALSE
  BY <1>1, <1>2, <1>3 DEF OnlyAt, Current
<1>4. ASSUME NEW w \in Owners, Step(w)
      PROVE  \A k \in rows'[d].deps : rows[k].checkpoint = "LISTING"
  <2>1. /\ ~At(w, "idle") /\ Held(w) \in Issued /\ Held(w) \in Claims
        /\ KeyOf(w) = Held(w).key
    BY <1>4, StepTouches, HeldClaim
  <2>2. CASE MakesCall(Held(w))
    BY <1>1, <1>2, <1>3, <2>1, <2>2, CallTouches
  <2>3. CASE Completes(w)
    BY <1>1, <1>3, <2>1, <2>3, CompletedItem
  <2>4. CASE InsertsChild(w)
    <3>1. PICK child \in Keys :
            /\ At(w, "materializing") /\ Usable(Held(w)) /\ child \in worker[w].todo
            /\ EnqueueChild(ChildRequest(KeyOf(w), child, ItemOf(w).priority), Held(w))
      BY <2>4 DEF InsertsChild
    <3>. DEFINE r == ChildRequest(KeyOf(w), child, ItemOf(w).priority)
    <3>2. r \in EnqueueRequests /\ Insert(r) /\ r.key = child /\ r.deps = {KeyOf(w)}
      BY <3>1, ChildIsRequested DEF EnqueueChild, ChildRequest
    <3>. HIDE DEF r
    <3>3. d = child /\ rows'[d].deps = {KeyOf(w)}
      BY <1>1, <1>2, <3>2, InsertedRow
    <3>4. rows[KeyOf(w)].checkpoint = "LISTING"
      BY <2>1, <3>1 DEF CoordinatorInv, ReceiptsInHand, ItemOf, Usable, Owned
    <3>. QED
      BY <3>3, <3>4
  <2>. QED
    BY <1>4, <2>2, <2>3, <2>4, StepCalls
<1>5. ASSUME NEW w \in Owners, NEW j \in Keys, NEW a \in Authorities, NEW l \in Leases,
             Lease(w, j, a, l)
      PROVE  FALSE
  BY <1>1, <1>2, <1>5, LeasedRow DEF Lease, Claimable
<1>6. ASSUME NEW w \in Owners, Crash(w) PROVE FALSE
  BY <1>2, <1>6 DEF Crash, vars
<1>7. ASSUME RecoverAbandoned PROVE FALSE
  <2>1. PICK c \in Issued, b \in BOOLEAN : Recover(c, b)
    BY <1>7 DEF RecoverAbandoned, NextRecover
  <2>2. c \in Claims
    BY <1>1, IssuedAreClaims
  <2>. QED
    BY <1>1, <1>3, <2>1, <2>2, RecoverReleases
<1>8. ASSUME Operate PROVE FALSE
  <2>1. CASE NextGrant \/ Tick
    BY <1>2, <2>1 DEF NextGrant, RegisterGrant, Tick
  <2>2. CASE \E r \in RootRequests : Enqueue(r)
    BY <1>1, <1>2, <2>2, InsertedRow DEF RootRequests, Enqueue
  <2>. QED
    BY <1>8, <2>1, <2>2 DEF Operate
<1>9. ASSUME UNCHANGED coordinatorVars PROVE FALSE
  BY <1>2, <1>9 DEF coordinatorVars, vars
<1>. QED
  BY <1>4, <1>5, <1>6, <1>7, <1>8, <1>9 DEF CoordinatorNext

(* A child item never appears before the receipt it was read from is durable. *)
THEOREM ReceiptsPrecedeChildren ==
  ASSUME CoordinatorAssumption PROVE CoordinatorSpec => ReceiptPrecedesChildren
<1>. DEFINE A == \A d \in ChildKeys :
                   ~Exists(d) /\ rows'[d].state # "ABSENT"
                     => \A k \in rows'[d].deps : rows[k].checkpoint = "LISTING"
<1>1. CoordinatorInv /\ [CoordinatorNext]_coordinatorVars => A
  BY InsertedChild
<1>. QED
  BY <1>1, MethodsKeepTogether, PTL DEF CoordinatorSpec, ReceiptPrecedesChildren

(* What the ledger promises to any caller it promises to the coordinator: the coordinator
   reads a source at most once per item and never forgets a write it has no read-back of. *)
THEOREM CoordinatorKeepsLedger ==
  ASSUME CoordinatorAssumption
  PROVE  CoordinatorSpec => /\ []SingleWriter /\ []AtMostOneSourceCall
                            /\ []UnknownWriteIsGuarded /\ []WritesArePaid
<1>1. ImplementsLedger => Spec
  BY DEF ImplementsLedger, Spec
<1>. QED
  BY <1>1, CoordinatorImplementsLedger, OneWriter, SourceCalledAtMostOnce,
     UnknownWritesGuarded, WritesPaid, PTL

-----------------------------------------------------------------------------
(* Every source call ends accounted for. *)

\* What a step does to the source call of an item: it is begun for a scope only, and it
\* ends with a receipt, with a failure record or with everything stopped.
CallAccounted(k) ==
  /\ rows'[k].phase = "SOURCE_INTENT" => rows[k].phase = "SOURCE_INTENT" \/ IsScopeTask(k)
  /\ rows[k].phase = "SOURCE_INTENT" /\ rows'[k].phase # "SOURCE_INTENT"
       => rows'[k].checkpoint \in {"LISTING", "FAILURE"} \/ stopped'

(* A step that touches one item accounts for all if it accounts for that one. *)
LEMMA AccountedElsewhere ==
  ASSUME NEW c, OnlyAt(c), CallAccounted(c.key)
  PROVE  \A k \in Keys : CallAccounted(k)
BY DEF OnlyAt, CallAccounted

(* A call of the ledger by which a method ends a source call, or which it makes when there
   is none. *)
LEMMA CallsAccounted ==
  ASSUME CoordinatorAssumption, CoordinatorInv, NEW w \in Owners, ~At(w, "idle"),
         \/ UNCHANGED vars \/ Stop \/ StopClaim(Held(w), FALSE) \/ ReportUncertain(Held(w))
         \/ Intent(Held(w), "writes", 1) \/ \E b \in BOOLEAN : FencedEffectRollback(Held(w), b)
         \/ Intent(Held(w), "source_calls", 1) /\ IsScopeTask(KeyOf(w))
         \/ Checkpoint(Held(w), "LISTING") \/ Checkpoint(Held(w), "SCREENED")
         \/ Checkpoint(Held(w), "WITHHELD") /\ rows[KeyOf(w)].phase # "SOURCE_INTENT"
         \/ \E e \in Evidence, b \in BOOLEAN : FencedEffectCommit(Held(w), e, b)
         \/ \E s \in Outcomes, e \in {"FAILURE", None} : \E d, t : Finish(Held(w), s, e, d, t)
  PROVE  \A k \in Keys : CallAccounted(k)
<1>. DEFINE c == Held(w)
<1>1. TypeOK /\ c \in Issued /\ c \in Claims /\ KeyOf(w) = c.key /\ c.key \in Keys
  BY HeldClaim DEF CoordinatorInv
<1>. HIDE DEF c
<1>2. CASE UNCHANGED rows
  BY <1>2 DEF CallAccounted
<1>3. ASSUME stopped', OnlyAt(c), rows'[c.key].phase = rows[c.key].phase
      PROVE  \A k \in Keys : CallAccounted(k)
  BY <1>3, AccountedElsewhere DEF CallAccounted
<1>4. CASE UNCHANGED vars \/ Stop \/ \E b \in BOOLEAN : FencedEffectRollback(c, b)
  BY <1>2, <1>4 DEF vars, Stop, FencedEffectRollback
<1>5. ASSUME NEW u \in BOOLEAN, StopClaim(c, u) PROVE \A k \in Keys : CallAccounted(k)
  <2>1. CASE ~Current(c)
    BY <1>2, <1>5, <2>1 DEF StopClaim
  <2>2. CASE Current(c)
    <3>1. stopped'
      BY <1>5 DEF StopClaim
    <3>. QED
      BY <1>1, <1>3, <1>5, <2>2, <3>1, StopReleases
  <2>. QED
    BY <2>1, <2>2
<1>6. CASE StopClaim(c, FALSE) \/ ReportUncertain(c)
  BY <1>5, <1>6 DEF ReportUncertain
<1>7. ASSUME NEW op \in Operations, Intent(c, op, 1), op = "writes" \/ IsScopeTask(c.key)
      PROVE  \A k \in Keys : CallAccounted(k)
  <2>1. OnlyAt(c)
    BY <1>1, <1>7, IntentKeeps
  <2>2. rows[c.key].phase # "SOURCE_INTENT"
    BY <1>7 DEF Intent, CanIntent
  <2>3. op = "writes" => rows'[c.key].phase = "WRITE_INTENT"
    BY <1>1, <1>7, IntentKeeps
  <2>. QED
    BY <1>7, <2>1, <2>2, <2>3, AccountedElsewhere DEF CallAccounted
<1>8. ASSUME NEW e \in Evidence, Usable(c), Record(c, e),
             rows[c.key].phase = "SOURCE_INTENT" => e = "LISTING"
      PROVE  \A k \in Keys : CallAccounted(k)
  <2>1. OnlyAt(c) /\ rows'[c.key].phase = "CHECKPOINTED" /\ rows'[c.key].checkpoint = e
    BY <1>1, <1>8, RecordKeeps DEF Usable, Owned
  <2>. QED
    BY <1>8, <2>1, AccountedElsewhere DEF CallAccounted
<1>9. CASE \/ Checkpoint(c, "LISTING") \/ Checkpoint(c, "SCREENED")
           \/ Checkpoint(c, "WITHHELD") /\ rows[c.key].phase # "SOURCE_INTENT"
  BY <1>8, <1>9, CoordinatorConstants DEF Checkpoint, SettlesIntent, CoordinatorAssumption
<1>10. CASE \E e \in Evidence, b \in BOOLEAN : FencedEffectCommit(c, e, b)
  BY <1>8, <1>10 DEF FencedEffectCommit, EnterWriter
<1>11. ASSUME NEW s \in Outcomes, NEW e \in {"FAILURE", None}, NEW d, NEW t, Finish(c, s, e, d, t)
       PROVE  \A k \in Keys : CallAccounted(k)
  <2>1. /\ OnlyAt(c) /\ rows'[c.key].phase = "FINISHED"
        /\ rows'[c.key].checkpoint = IF e = None THEN rows[c.key].checkpoint ELSE e
    BY <1>1, <1>11, FinishReleases, CoordinatorConstants
  <2>2. CanFinish(c, e)
    BY <1>11, Zenon DEF Finish
  <2>. QED
    BY <2>1, <2>2, AccountedElsewhere DEF CallAccounted, CanFinish, Intents
<1>. QED
  BY <1>1, <1>4, <1>6, <1>7, <1>9, <1>10, <1>11, CoordinatorConstants DEF c

(* Each method of the coordinator accounts for the source call of the item it holds. *)
LEMMA StepAccounted ==
  ASSUME CoordinatorAssumption, CoordinatorInv, CallsAreOfScopes, NEW w \in Owners, Step(w)
  PROVE  \A k \in Keys : CallAccounted(k)
<1>. DEFINE A == \A k \in Keys : CallAccounted(k)
<1>1. ~At(w, "idle")
  BY StepIsLocal DEF Local, CoordinatorInv
<1>2. TypeOK /\ KeyOf(w) \in Keys
  BY <1>1, HeldClaim DEF CoordinatorInv
<1>. HIDE DEF A
<1>3. CASE UNCHANGED vars \/ Raise(w)
  BY <1>1, <1>3, CallsAccounted DEF Raise, A
<1>4. CASE Listing(w)
  <2>1. CASE ReserveSource(w) \/ Seal(w)
    BY <1>1, <2>1, CallsAccounted DEF ReserveSource, Seal, A
  <2>2. CASE SourceRefused(w) \/ SealRefused(w) \/ MaterializeRefused(w)
    BY <1>3, <2>2 DEF SourceRefused, SealRefused, MaterializeRefused
  <2>3. CASE ReaderReturns(w) \/ ReaderRaises(w) \/ Retained(w) \/ Raised(w)
    BY <1>3, <2>3 DEF ReaderReturns, ReaderRaises, Retained, Raised
  <2>4. ASSUME NEW child \in Keys, Materialize(w, child) PROVE A
    <3>1. CASE UNCHANGED vars
      BY <1>3, <3>1 DEF A
    <3>2. CASE ~ UNCHANGED vars
      <4>. DEFINE r == ChildRequest(KeyOf(w), child, ItemOf(w).priority)
      <4>1. r \in EnqueueRequests /\ Insert(r)
        BY <2>4, <3>2, ChildIsRequested DEF Materialize, EnqueueChild
      <4>. HIDE DEF r
      <4>2. rows[r.key] = NoRow
        BY <1>2, <4>1, InsertedRow DEF CoordinatorInv, LeaseInv, LeaseAccounts
      <4>. QED
        BY <1>2, <4>1, <4>2, InsertedRow DEF NoRow, CallAccounted, A
    <3>. QED
      BY <3>1, <3>2
  <2>5. CASE FinishListing(w)
    BY <1>1, <2>5, CallsAccounted, CoordinatorConstants DEF FinishListing, A
  <2>6. CASE StopAfterException(w)
    BY <1>1, <2>6, CallsAccounted DEF StopAfterException, A
  <2>. QED
    BY <1>4, <2>1, <2>2, <2>3, <2>4, <2>5, <2>6 DEF Listing, A
<1>5. CASE Failing(w)
  <2>1. CASE ReserveForCaller(w) \/ FailGlobally(w)
    BY <1>1, <2>1, CallsAccounted DEF ReserveForCaller, FailGlobally, A
  <2>2. CASE FailBeforeSource(w) \/ FailRefused(w)
    BY <1>3, <2>2 DEF FailBeforeSource, FailRefused
  <2>3. ASSUME NEW d \in Delays, NEW t \in Cooldowns, FailLocally(w, d, t) PROVE A
    BY <1>1, <2>3, CallsAccounted, CoordinatorConstants DEF FailLocally, A
  <2>4. CASE FailUnsupported(w)
    BY <1>1, <2>4, CallsAccounted, CoordinatorConstants DEF FailUnsupported, A
  <2>. QED
    BY <1>5, <2>1, <2>2, <2>3, <2>4 DEF Failing, A
<1>6. CASE Refreshing(w)
  <2>1. CASE Withhold(w)
    <3>1. ~IsScopeTask(KeyOf(w))
      BY <2>1 DEF Withhold, MayWithhold, Task, IsScopeTask
    <3>2. rows[KeyOf(w)].phase # "SOURCE_INTENT"
      BY <1>2, <3>1 DEF CallsAreOfScopes
    <3>. QED
      BY <1>1, <2>1, <3>2, CallsAccounted DEF Withhold, A
  <2>2. CASE Screen(w) \/ ReadbackChanged(w) \/ ReserveWrite(w)
    BY <1>1, <2>2, CallsAccounted DEF Screen, ReadbackChanged, ReserveWrite, A
  <2>3. CASE CheckpointRefused(w) \/ WriteRefused(w) \/ FinishRefused(w) \/ ReadbackSame(w)
    BY <1>3, <2>3 DEF CheckpointRefused, WriteRefused, FinishRefused, ReadbackSame
  <2>4. CASE FinishWithheld(w) \/ FinishRefresh(w)
    BY <1>1, <2>4, CallsAccounted, CoordinatorConstants DEF FinishWithheld, FinishRefresh, A
  <2>5. CASE Write(w) \/ WriterRaises(w)
    BY <1>1, <2>5, CallsAccounted, CoordinatorConstants DEF Write, WriterRaises, A
  <2>6. CASE Report(w)
    BY <1>1, <1>3, <2>6, CallsAccounted DEF Report, A
  <2>. QED
    BY <1>6, <2>1, <2>2, <2>3, <2>4, <2>5, <2>6 DEF Refreshing, A
<1>. QED
  BY <1>4, <1>5, <1>6 DEF Step, A

(* Leases, deaths, recovery and the operator account for it too: an item with a source call
   under way is not leased again, and recovery stops everything for it. *)
LEMMA OthersAccounted ==
  ASSUME CoordinatorAssumption, CoordinatorInv, EffectInv, CallsAreOfScopes,
         [CoordinatorNext]_coordinatorVars
  PROVE  \A k \in Keys : CallAccounted(k)
<1>. DEFINE A == \A k \in Keys : CallAccounted(k)
<1>1. TypeOK /\ LeaseInv
  BY DEF CoordinatorInv
<1>2. CASE UNCHANGED rows
  BY <1>2 DEF CallAccounted
<1>. HIDE DEF A
<1>3. ASSUME NEW w \in Owners, NEW k \in Keys, NEW a \in Authorities, NEW l \in Leases,
             Lease(w, k, a, l)
      PROVE  A
  <2>1. /\ rows[k].state \in Claimable /\ rows'[k].phase = "CLAIMED"
        /\ \A j \in Keys : j # k => rows'[j] = rows[j]
    BY <1>1, <1>3, LeasedRow DEF Lease
  <2>2. rows[k].phase # "SOURCE_INTENT"
    BY <2>1 DEF EffectInv, IntentsAreHeld, Intents, Claimable, Blocked
  <2>. QED
    BY <2>1, <2>2 DEF CallAccounted, A
<1>4. ASSUME NEW w \in Owners, Step(w) PROVE A
  BY <1>4, StepAccounted DEF A
<1>5. ASSUME NEW w \in Owners, Crash(w) PROVE A
  BY <1>2, <1>5 DEF Crash, vars, A
<1>6. CASE RecoverAbandoned
  <2>1. PICK c \in Issued, b \in BOOLEAN : Recover(c, b)
    BY <1>6 DEF RecoverAbandoned, NextRecover
  <2>2. c \in Claims
    BY <1>1, IssuedAreClaims
  <2>3. OnlyAt(c) /\ rows'[c.key].phase = "RECOVERED"
    BY <1>1, <2>1, <2>2, RecoverReleases
  <2>4. rows[c.key].phase = "SOURCE_INTENT" => stopped'
    BY <2>1 DEF Recover, Abandoned
  <2>. QED
    BY <2>3, <2>4, AccountedElsewhere DEF CallAccounted, A
<1>7. CASE Operate
  <2>1. CASE NextGrant \/ Tick
    BY <1>2, <2>1 DEF NextGrant, RegisterGrant, Tick, A
  <2>2. ASSUME NEW r \in RootRequests, Enqueue(r) PROVE A
    <3>1. r \in EnqueueRequests /\ Insert(r)
      BY <2>2 DEF RootRequests, Enqueue
    <3>2. rows[r.key] = NoRow
      BY <1>1, <3>1, InsertedRow DEF LeaseInv, LeaseAccounts
    <3>. QED
      BY <1>1, <3>1, <3>2, InsertedRow DEF NoRow, CallAccounted, A
  <2>. QED
    BY <1>7, <2>1, <2>2 DEF Operate, A
<1>8. CASE UNCHANGED coordinatorVars
  BY <1>2, <1>8 DEF coordinatorVars, vars, A
<1>. QED
  BY <1>3, <1>4, <1>5, <1>6, <1>7, <1>8 DEF CoordinatorNext, A

(* THEOREM: no source call of the coordinator ends unnoticed, for any deaths, refusals,
   reads that raise, stops that raise and recoveries. *)
THEOREM OpenCallsEndAccounted ==
  ASSUME CoordinatorAssumption PROVE CoordinatorSpec => OpenCallEndsAccounted
<1>. DEFINE B == \A k \in Keys :
                   rows[k].phase = "SOURCE_INTENT" /\ rows'[k].phase # "SOURCE_INTENT"
                     => rows'[k].checkpoint \in {"LISTING", "FAILURE"} \/ stopped'
<1>1. CoordinatorInit => CallsAreOfScopes
  BY DEF CoordinatorInit, Init, NoRow, CallsAreOfScopes
<1>2. CoordinatorInv /\ EffectInv /\ CallsAreOfScopes /\ [CoordinatorNext]_coordinatorVars
        => CallsAreOfScopes' /\ B
  <2>. SUFFICES ASSUME CoordinatorInv, EffectInv, CallsAreOfScopes,
                       [CoordinatorNext]_coordinatorVars
                PROVE  CallsAreOfScopes' /\ B
    OBVIOUS
  <2>1. \A k \in Keys : CallAccounted(k)
    BY OthersAccounted
  <2>. QED
    BY <2>1 DEF CallAccounted, CallsAreOfScopes, IsScopeTask
<1>3. CoordinatorSpec => []EffectInv
  <2>1. ImplementsLedger => Spec
    BY DEF ImplementsLedger, Spec
  <2>. QED
    BY <2>1, CoordinatorImplementsLedger, EffectsAccounted, PTL
<1>. QED
  BY <1>1, <1>2, <1>3, MethodsKeepTogether, PTL DEF CoordinatorSpec, OpenCallEndsAccounted

-----------------------------------------------------------------------------
(* No application is written twice. *)

(* The external writer is entered by the two steps that write. *)
LEMMA WrittenBy ==
  ASSUME CoordinatorAssumption, CoordinatorInv, [CoordinatorNext]_coordinatorVars
  PROVE  \/ written' = written
         \/ \E w \in Owners : Write(w) \/ WriterRaises(w)
<1>1. ASSUME NEW c, Stop \/ StopClaim(c, FALSE) \/ ReportUncertain(c)
      PROVE  written' = written
  BY <1>1 DEF Stop, StopClaim, ReportUncertain
<1>2. ASSUME NEW c, \/ \E e \in Evidence : Checkpoint(c, e)
                    \/ \E op \in Operations : Intent(c, op, 1)
      PROVE  written' = written
  BY <1>2 DEF Checkpoint, Intent
<1>3. ASSUME NEW c, NEW s, NEW e, NEW d, NEW t, Finish(c, s, e, d, t)
      PROVE  written' = written
  BY <1>3 DEF Finish
<1>4. ASSUME NEW r, Insert(r) PROVE written' = written
  BY <1>4 DEF Insert
<1>5. ASSUME NEW w \in Owners, Step(w), ~Write(w), ~WriterRaises(w)
      PROVE  written' = written
  <2>1. CASE UNCHANGED vars \/ Raise(w)
    BY <2>1 DEF Raise, vars
  <2>2. CASE Listing(w)
    <3>1. ASSUME NEW child \in Keys, Materialize(w, child) PROVE written' = written
      BY <1>4, <2>1, <3>1 DEF Materialize, EnqueueChild
    <3>2. CASE SourceRefused(w) \/ SealRefused(w) \/ MaterializeRefused(w)
      BY <2>1, <3>2 DEF SourceRefused, SealRefused, MaterializeRefused
    <3>3. CASE ReaderReturns(w) \/ ReaderRaises(w) \/ Retained(w)
      BY <2>1, <3>3 DEF ReaderReturns, ReaderRaises, Retained
    <3>4. CASE ReserveSource(w) \/ Seal(w)
      BY <3>4, <1>2, CoordinatorConstants DEF ReserveSource, Seal
    <3>5. CASE FinishListing(w) \/ StopAfterException(w) \/ Raised(w)
      BY <2>1, <3>5, <1>1, <1>3 DEF FinishListing, StopAfterException, Raised
    <3>. QED
      BY <2>2, <3>1, <3>2, <3>3, <3>4, <3>5 DEF Listing
  <2>3. CASE Failing(w)
    <3>1. CASE FailBeforeSource(w) \/ FailRefused(w)
      BY <2>1, <3>1 DEF FailBeforeSource, FailRefused
    <3>2. CASE ReserveForCaller(w) \/ FailGlobally(w)
      BY <1>1, <1>2, <3>2, CoordinatorConstants DEF ReserveForCaller, FailGlobally
    <3>3. CASE FailUnsupported(w) \/ \E d \in Delays, t \in Cooldowns : FailLocally(w, d, t)
      BY <1>3, <3>3 DEF FailUnsupported, FailLocally
    <3>. QED
      BY <2>3, <3>1, <3>2, <3>3 DEF Failing
  <2>4. CASE Refreshing(w)
    <3>1. CASE Screen(w) \/ Withhold(w) \/ ReserveWrite(w)
      BY <1>2, <3>1, CoordinatorConstants DEF Screen, Withhold, ReserveWrite
    <3>2. CASE CheckpointRefused(w) \/ WriteRefused(w) \/ FinishRefused(w) \/ ReadbackSame(w)
      BY <2>1, <3>2 DEF CheckpointRefused, WriteRefused, FinishRefused, ReadbackSame
    <3>3. CASE FinishWithheld(w) \/ FinishRefresh(w)
      BY <1>3, <3>3 DEF FinishWithheld, FinishRefresh
    <3>4. CASE ReadbackChanged(w) \/ Report(w)
      BY <1>1, <2>1, <3>4 DEF ReadbackChanged, Report
    <3>. QED
      BY <1>5, <2>4, <3>1, <3>2, <3>3, <3>4 DEF Refreshing
  <2>. QED
    BY <1>5, <2>2, <2>3, <2>4 DEF Step
<1>6. CASE \E w \in Owners, k \in Keys, a \in Authorities, l \in Leases : Lease(w, k, a, l)
  BY <1>6 DEF Lease, Claim
<1>7. CASE \E w \in Owners : Crash(w)
  BY <1>7 DEF Crash, vars
<1>8. CASE RecoverAbandoned
  BY <1>8 DEF RecoverAbandoned, NextRecover, Recover
<1>9. CASE Operate
  BY <1>4, <1>9 DEF Operate, NextGrant, RegisterGrant, Enqueue, Tick
<1>10. CASE UNCHANGED coordinatorVars
  BY <1>10 DEF coordinatorVars, vars
<1>. QED
  BY <1>5, <1>6, <1>7, <1>8, <1>9, <1>10 DEF CoordinatorNext

(* No item is given more leases than it was enqueued with. *)
LEMMA TriesStay ==
  ASSUME TypeOK, LeaseInv, [Next]_vars, \A r \in EnqueueRequests : r.maxAttempts <= 2,
         NEW k \in Keys, rows[k].maxAttempts <= 2
  PROVE  rows'[k].maxAttempts <= 2
<1>1. CASE UNCHANGED <<rows, attempts>>
  BY <1>1
<1>2. CASE \E r \in EnqueueRequests : Insert(r)
  BY <1>2, InsertedRow
<1>3. CASE \E j \in Keys, o \in Owners, a \in Authorities, l \in Leases : Claim(j, o, a, l)
  BY <1>3, LeasedRow
<1>4. ASSUME NEW d \in Claims, OnlyAt(d), KeepsItem(d) PROVE rows'[k].maxAttempts <= 2
  BY <1>4 DEF OnlyAt, KeepsItem
<1>5. CASE \E d \in Issued, op \in Operations, cost \in 1 .. 2 :
             Intent(d, op, cost) /\ Current(d) /\ OnlyAt(d) /\ KeepsItem(d)
  BY <1>4, <1>5, IssuedAreClaims
<1>6. CASE \E d \in Claims :
             Current(d) /\ OnlyAt(d) /\ EntersNoIntent(d) /\ KeepsItem(d)
  BY <1>4, <1>6
<1>. QED
  BY <1>1, <1>2, <1>3, <1>5, <1>6, StepShapes

(* An item changes by its own lease, its holder, its recovery or its insert. *)
LEMMA WhoTouches ==
  ASSUME CoordinatorAssumption, CoordinatorInv, [CoordinatorNext]_coordinatorVars,
         NEW k \in Keys
  PROVE  \/ rows'[k] = rows[k]
         \/ \E w \in Owners, a \in Authorities, l \in Leases : Lease(w, k, a, l)
         \/ \E w \in Owners : Step(w) /\ Current(Held(w)) /\ KeyOf(w) = k
         \/ \E c \in Claims, b \in BOOLEAN : Recover(c, b) /\ c.key = k
         \/ \E r \in EnqueueRequests : Insert(r) /\ r.key = k
<1>. DEFINE A == \/ rows'[k] = rows[k]
                 \/ \E r \in EnqueueRequests : Insert(r) /\ r.key = k
<1>1. TypeOK /\ LeaseInv
  BY DEF CoordinatorInv
<1>2. ASSUME NEW r \in EnqueueRequests, Insert(r) PROVE A
  BY <1>1, <1>2, InsertedRow
<1>3. ASSUME NEW c \in Claims, OnlyAt(c), c.key # k PROVE A
  BY <1>3 DEF OnlyAt
<1>4. ASSUME NEW w \in Owners, NEW j \in Keys, NEW a \in Authorities, NEW l \in Leases,
             Lease(w, j, a, l), j # k
      PROVE  A
  BY <1>1, <1>4, LeasedRow DEF Lease
<1>5. ASSUME NEW w \in Owners, Step(w), ~(Current(Held(w)) /\ KeyOf(w) = k) PROVE A
  <2>1. Held(w) \in Claims /\ KeyOf(w) = Held(w).key
    BY <1>5, StepTouches, HeldClaim
  <2>. QED
    BY <1>2, <1>3, <1>5, <2>1, StepTouches
<1>6. CASE \E w \in Owners : Crash(w)
  BY <1>6 DEF Crash, vars
<1>7. ASSUME RecoverAbandoned
      PROVE  A \/ \E c \in Claims, b \in BOOLEAN : Recover(c, b) /\ c.key = k
  <2>1. PICK c \in Issued, b \in BOOLEAN : Recover(c, b)
    BY <1>7 DEF RecoverAbandoned, NextRecover
  <2>2. c \in Claims
    BY <1>1, IssuedAreClaims
  <2>. QED
    BY <1>1, <1>3, <2>1, <2>2, RecoverReleases
<1>8. CASE Operate
  <2>1. CASE NextGrant \/ Tick
    BY <2>1 DEF NextGrant, RegisterGrant, Tick
  <2>2. CASE \E r \in RootRequests : Enqueue(r)
    BY <1>2, <2>2 DEF RootRequests, Enqueue
  <2>. QED
    BY <1>8, <2>1, <2>2 DEF Operate
<1>9. CASE UNCHANGED coordinatorVars
  BY <1>9 DEF coordinatorVars, vars
<1>. QED
  BY <1>4, <1>5, <1>6, <1>7, <1>8, <1>9 DEF CoordinatorNext

(* Two workers never hold the same item. *)
LEMMA OneHolder ==
  ASSUME CoordinatorInv, NEW v \in Owners, NEW w \in Owners, ~At(v, "idle"), ~At(w, "idle"),
         KeyOf(v) = KeyOf(w), Current(Held(v)), Current(Held(w))
  PROVE  v = w
<1>1. /\ Held(v).owner = v /\ Held(w).owner = w
      /\ KeyOf(v) = Held(v).key /\ KeyOf(w) = Held(w).key
  BY HeldClaim
<1>. QED
  BY <1>1 DEF Current

(* A write by the holder of an item that was not written before. *)
LEMMA WriteStep ==
  ASSUME CoordinatorAssumption, CoordinatorInv, CommitInv, NEW w \in Owners,
         Write(w) \/ WriterRaises(w), NEW k \in Keys, k = KeyOf(w)
  PROVE  /\ ~At(w, "idle") /\ Current(Held(w)) /\ written[k] = 0
         /\ \A j \in Keys : j # k => written'[j] = written[j]
         /\ written'[k] # 0 => WriteIsSettled(k)'
         /\ worker'[w].at \in {"finishing", "reporting"}
<1>1. /\ At(w, "writing") /\ ~At(w, "idle") /\ EnterWriter(Held(w))
      /\ worker[w] \in Busy /\ TypeOK /\ LeaseInv
  BY BusyWorker DEF Write, WriterRaises, FencedEffectCommit, FencedEffectRollback, At,
     CoordinatorInv
<1>2. /\ k \in Keys /\ k = Held(w).key /\ Held(w) \in Claims /\ Current(Held(w))
      /\ rows[k].state = "CLAIMED" /\ rows[k].phase = "WRITE_INTENT"
  BY <1>1, HeldClaim DEF EnterWriter, Usable, Owned, Current
<1>3. written[k] = 0
  BY <1>1, <1>2 DEF CommitInv, PastTheWrite, At
<1>4. rows[k].tries >= 1 /\ Identity[k].task = "FACTUAL_REFRESH"
  <2>1. rows[k].fence < 2 * rows[k].tries /\ rows[k].fence \in Nat /\ rows[k].tries \in Nat
    BY <1>1, <1>2 DEF LeaseInv, LeaseAccounts, TypeOK, Row
  <2>2. Identity[k].task = "FACTUAL_REFRESH"
    BY <1>1 DEF CommitInv, WritersRefresh, Task
  <2>. QED
    BY <2>1, <2>2
<1>5. worker'[w].at \in {"finishing", "reporting"}
  <2>1. ASSUME NEW stage, Goto(w, stage) PROVE worker'[w].at = stage
    BY <1>1, <2>1 DEF Goto, CoordinatorInv, WorkersOK, Busy
  <2>. QED
    BY <2>1 DEF Write, WriterRaises
<1>6. \E n \in 0 .. 1 : written' = Bump(written, k, n)
  <2>1. 0 \in 0 .. 1 /\ 1 \in 0 .. 1
    OBVIOUS
  <2>2. CASE Write(w)
    BY <1>2, <2>1, <2>2 DEF Write, FencedEffectCommit
  <2>3. CASE WriterRaises(w)
    BY <1>2, <2>1, <2>3 DEF WriterRaises, FencedEffectCommit, FencedEffectRollback
  <2>. QED
    BY <2>2, <2>3
<1>7. /\ \A j \in Keys : j # k => written'[j] = written[j]
      /\ written'[k] \in 0 .. 1
  <2>1. written \in [Keys -> Nat]
    BY <1>1 DEF TypeOK
  <2>. QED
    BY <1>2, <1>3, <1>6, <2>1 DEF Bump
<1>8. ASSUME written'[k] # 0 PROVE WriteIsSettled(k)'
  <2>1. /\ rows'[k].tries = rows[k].tries
        /\ \/ rows'[k].state = "CLAIMED" /\ rows'[k].phase = "WRITE_INTENT"
           \/ rows'[k].phase # "WRITE_INTENT" /\ rows'[k].checkpoint = "VERIFIED"
    <3>1. CASE Record(Held(w), "VERIFIED")
      BY <1>1, <1>2, <3>1, RecordKeeps, CoordinatorConstants DEF KeepsItem
    <3>2. CASE rows' = rows
      BY <1>2, <3>2
    <3>. QED
      BY <3>1, <3>2 DEF Write, WriterRaises, FencedEffectCommit, FencedEffectRollback
  <2>2. written'[k] = 1
    BY <1>7, <1>8
  <2>. QED
    BY <1>4, <2>1, <2>2 DEF WriteIsSettled
<1>. QED
  BY <1>1, <1>2, <1>3, <1>5, <1>7, <1>8

(* What was written stays as it was: its holder does not enter the writer again. *)
LEMMA WrittenStays ==
  ASSUME CoordinatorAssumption, CoordinatorInv, CommitInv,
         [CoordinatorNext]_coordinatorVars, NEW k \in Keys, written[k] # 0
  PROVE  written'[k] = written[k]
<1>1. ASSUME NEW w \in Owners, Write(w) \/ WriterRaises(w) PROVE written'[k] = written[k]
  <2>1. At(w, "writing") /\ ~At(w, "idle")
    BY <1>1 DEF Write, WriterRaises, At
  <2>2. KeyOf(w) \in Keys
    BY <2>1, HeldClaim
  <2>. QED
    BY <1>1, <2>2, WriteStep
<1>. QED
  BY <1>1, WrittenBy

(* The steps that are left to a worker past its write. *)
LEMMA LateSteps ==
  ASSUME NEW w \in Owners, Step(w)
  PROVE  /\ At(w, "stopping") => StopAfterException(w)
         /\ At(w, "raising") => Raised(w)
         /\ At(w, "reporting") => Report(w)
         /\ At(w, "finishing") => FinishRefresh(w) \/ FinishRefused(w)
         /\ At(w, "withholding") => FinishWithheld(w) \/ FinishRefused(w)
         /\ At(w, "failing") =>
              \/ FailGlobally(w) \/ FailUnsupported(w) \/ FailRefused(w)
              \/ \E d \in Delays, t \in Cooldowns : FailLocally(w, d, t)
<1>1. CASE Listing(w)
  <2>1. \/ StopAfterException(w)
        \/ Raised(w) /\ worker[w].at = "raising"
        \/ worker[w].at \in {"leased", "reading", "sealing", "materializing"}
    BY <1>1 DEF Listing, ReserveSource, SourceRefused, ReaderReturns, ReaderRaises,
         Retained, Seal, SealRefused, Materialize, FinishListing, MaterializeRefused, Raised, At
  <2>2. StopAfterException(w) => worker[w].at = "stopping"
    BY DEF StopAfterException, At
  <2>. QED
    BY <2>1, <2>2 DEF At
<1>2. CASE Failing(w)
  <2>1. worker[w].at \in {"leased", "failing"}
    BY <1>2 DEF Failing, ReserveForCaller, FailBeforeSource, FailGlobally, FailLocally,
         FailUnsupported, FailRefused, At
  <2>2. ReserveForCaller(w) \/ FailBeforeSource(w) => worker[w].at = "leased"
    BY DEF ReserveForCaller, FailBeforeSource, At
  <2>. QED
    BY <1>2, <2>1, <2>2 DEF Failing, At
<1>3. CASE Refreshing(w)
  <2>1. \/ Report(w) /\ worker[w].at = "reporting"
        \/ FinishRefresh(w) /\ worker[w].at = "finishing"
        \/ FinishWithheld(w) /\ worker[w].at = "withholding"
        \/ FinishRefused(w) /\ worker[w].at \in {"finishing", "withholding"}
        \/ worker[w].at \in {"leased", "writing"}
    BY <1>3 DEF Refreshing, Screen, Withhold, CheckpointRefused, FinishWithheld,
         ReadbackSame, ReadbackChanged, ReserveWrite, WriteRefused, Write, WriterRaises,
         Report, FinishRefresh, FinishRefused, At
  <2>. QED
    BY <2>1 DEF At
<1>. QED
  BY <1>1, <1>2, <1>3 DEF Step

(* The second holder of a refresh whose read-back is retained does not write. *)
LEMMA ResumedSteps ==
  ASSUME NEW w \in Owners, Step(w), At(w, "leased"), Task(w) = "FACTUAL_REFRESH", Verified(w)
  PROVE  \/ FailBeforeSource(w) \/ Withhold(w) \/ CheckpointRefused(w)
         \/ ReadbackSame(w) \/ ReadbackChanged(w) \/ SourceRefused(w)
<1>1. ~IsScopeTask(KeyOf(w)) /\ Task(w) \notin {"SCREENING", "LISTING_METADATA"}
  BY DEF IsScopeTask, Task
<1>2. CASE Listing(w)
  BY <1>1, <1>2 DEF Listing, ReserveSource, SourceRefused, ReaderReturns, ReaderRaises,
     Retained, Seal, SealRefused, Materialize, FinishListing, MaterializeRefused,
     StopAfterException, Raised, At
<1>3. CASE Failing(w)
  BY <1>1, <1>3 DEF Failing, ReserveForCaller, FailGlobally, FailLocally, FailUnsupported,
     FailRefused, At
<1>4. CASE Refreshing(w)
  BY <1>1, <1>4 DEF Refreshing, Screen, FinishWithheld, ReserveWrite, WriteRefused, Write,
     WriterRaises, Report, FinishRefresh, FinishRefused, At
<1>. QED
  BY <1>2, <1>3, <1>4 DEF Step

(* The holder of a written item leaves it settled and stays past its write. *)
LEMMA PastStep ==
  ASSUME CoordinatorAssumption, CoordinatorInv, CommitInv, NEW w \in Owners, Step(w),
         Current(Held(w)), NEW k \in Keys, k = KeyOf(w), written[k] # 0,
         written'[k] = written[k]
  PROVE  /\ WriteIsSettled(k)'
         /\ At(w, "idle")' \/ PastTheWrite(w)'
<1>. DEFINE c == Held(w)
<1>1. /\ ~At(w, "idle") /\ c \in Claims /\ k = c.key /\ TypeOK /\ worker \in [Owners -> {Idle} \cup Busy]
      /\ worker[w] \in Busy
  BY StepTouches, HeldClaim, BusyWorker DEF CoordinatorInv, WorkersOK
<1>2. /\ written[k] = 1 /\ rows[k].tries >= 1 /\ Identity[k].task = "FACTUAL_REFRESH"
      /\ rows[k].state = "CLAIMED" /\ WriteIsSettled(k) /\ PastTheWrite(w)
  BY <1>1 DEF CommitInv, WriteIsSettled, Current
<1>3. Return(w) => At(w, "idle")'
  BY <1>1 DEF Return, At, Idle
<1>4. ASSUME NEW stage, Goto(w, stage) PROVE worker'[w].at = stage /\ KeyOf(w)' = k
  BY <1>1, <1>4 DEF Goto, Busy, KeyOf
<1>5. ASSUME rows'[k] = rows[k] PROVE WriteIsSettled(k)'
  BY <1>2, <1>5 DEF WriteIsSettled
<1>6. ASSUME rows'[k].tries = rows[k].tries,
             \/ rows'[k].state \in Blocked \cup {"COMPLETE"}
             \/ rows'[k].phase # "WRITE_INTENT" /\ rows[k].tries >= 2
      PROVE  WriteIsSettled(k)'
  BY <1>2, <1>6 DEF WriteIsSettled
<1>7. ASSUME NEW u \in BOOLEAN, StopClaim(c, u) PROVE WriteIsSettled(k)'
  BY <1>1, <1>6, <1>7, StopReleases DEF KeepsItem
<1>8. ASSUME NEW s \in Outcomes, NEW e \in Receipts, NEW d, NEW t, Finish(c, s, e, d, t),
             s \in Blocked \cup {"COMPLETE"} \/ rows[k].tries >= 2
      PROVE  WriteIsSettled(k)'
  BY <1>1, <1>6, <1>8, FinishReleases DEF KeepsItem
<1>9. ASSUME Raise(w)
      PROVE  WriteIsSettled(k)' /\ (At(w, "idle")' \/ PastTheWrite(w)')
  <2>1. rows' = rows /\ (Return(w) \/ Goto(w, "stopping"))
    BY <1>9 DEF Raise, vars
  <2>. QED
    BY <1>3, <1>4, <1>5, <2>1 DEF PastTheWrite
<1>10. CASE At(w, "stopping")
  <2>1. CASE StopClaim(c, FALSE) /\ Return(w)
    BY <1>3, <1>7, <2>1
  <2>2. CASE UNCHANGED vars /\ Goto(w, "raising")
    BY <1>4, <1>5, <2>2 DEF vars, PastTheWrite
  <2>. QED
    BY <1>10, <2>1, <2>2, LateSteps DEF StopAfterException
<1>16. CASE At(w, "raising")
  BY <1>3, <1>5, <1>16, LateSteps DEF Raised, vars
<1>11. CASE At(w, "reporting")
  BY <1>3, <1>5, <1>7, <1>11, LateSteps DEF Report, ReportUncertain, vars
<1>12. CASE At(w, "finishing")
  <2>1. CASE FinishRefresh(w)
    BY <1>3, <1>8, <2>1, CoordinatorConstants DEF FinishRefresh
  <2>2. CASE FinishRefused(w)
    BY <1>9, <2>2 DEF FinishRefused
  <2>. QED
    BY <1>12, <2>1, <2>2, LateSteps
<1>13. CASE At(w, "withholding")
  <2>1. CASE FinishWithheld(w)
    BY <1>3, <1>8, <2>1, CoordinatorConstants DEF FinishWithheld, Blocked
  <2>2. CASE FinishRefused(w)
    BY <1>9, <2>2 DEF FinishRefused
  <2>. QED
    BY <1>13, <2>1, <2>2, LateSteps
<1>14. CASE At(w, "failing")
  <2>1. rows[k].tries >= 2
    BY <1>2, <1>14 DEF PastTheWrite, At, ItemOf
  <2>2. CASE FailGlobally(w)
    BY <1>3, <1>7, <2>2 DEF FailGlobally
  <2>3. CASE FailUnsupported(w)
    BY <1>3, <1>8, <2>1, <2>3, CoordinatorConstants DEF FailUnsupported
  <2>4. CASE FailRefused(w)
    BY <1>9, <2>4 DEF FailRefused
  <2>5. CASE \E d \in Delays, t \in Cooldowns : FailLocally(w, d, t)
    BY <1>3, <1>8, <2>1, <2>5, CoordinatorConstants DEF FailLocally
  <2>. QED
    BY <1>14, <2>2, <2>3, <2>4, <2>5, LateSteps
<1>15. CASE At(w, "leased")
  <2>1. /\ rows[k].tries >= 2 /\ rows[k].checkpoint = "VERIFIED"
        /\ Verified(w) /\ Task(w) = "FACTUAL_REFRESH"
    BY <1>2, <1>15 DEF PastTheWrite, At, ItemOf, Verified, Task
  <2>2. CASE CheckpointRefused(w) \/ SourceRefused(w)
    BY <1>9, <2>2 DEF CheckpointRefused, SourceRefused
  <2>3. CASE FailBeforeSource(w) \/ ReadbackSame(w)
    <3>1. rows' = rows /\ (Goto(w, "failing") \/ Goto(w, "finishing"))
      BY <2>3 DEF FailBeforeSource, ReadbackSame, vars
    <3>. QED
      BY <1>4, <1>5, <2>1, <3>1 DEF PastTheWrite, ItemOf
  <2>4. CASE ReadbackChanged(w)
    BY <1>3, <1>5, <2>4 DEF ReadbackChanged, Stop
  <2>5. CASE Withhold(w)
    <3>1. Record(c, "WITHHELD") /\ Goto(w, "withholding")
      BY <2>5 DEF Withhold, Checkpoint
    <3>2. rows'[k].tries = rows[k].tries /\ rows'[k].phase = "CHECKPOINTED"
      BY <1>1, <3>1, RecordKeeps, CoordinatorConstants DEF KeepsItem
    <3>. QED
      BY <1>4, <1>6, <2>1, <3>1, <3>2 DEF PastTheWrite, ItemOf, At
  <2>. QED
    BY <1>15, <2>1, <2>2, <2>3, <2>4, <2>5, ResumedSteps
<1>. QED
  BY <1>2, <1>10, <1>11, <1>12, <1>13, <1>14, <1>15, <1>16 DEF PastTheWrite, At

(* A new lease of a written item: the second and last, with the read-back retained. *)
LEMMA SecondLease ==
  ASSUME TypeOK, LeaseInv, WorkersOK, CommitInv, NEW w \in Owners, NEW k \in Keys,
         NEW a \in Authorities, NEW l \in Leases, Lease(w, k, a, l), written[k] # 0
  PROVE  WriteIsSettled(k)' /\ PastTheWrite(w)' /\ KeyOf(w)' = k
<1>1. /\ WriteIsSettled(k) /\ written' = written
      /\ rows[k].tries \in Nat /\ rows[k].tries < rows[k].maxAttempts
      /\ rows[k].maxAttempts <= 2 /\ rows[k].maxAttempts \in Nat
  BY DEF CommitInv, Lease, Claim, CanClaim, TypeOK, Row
<1>2. /\ rows[k].state \in Claimable /\ rows'[k].state = "CLAIMED"
      /\ rows'[k].phase = "CLAIMED" /\ rows'[k].tries = rows[k].tries + 1
      /\ rows'[k].checkpoint = rows[k].checkpoint
  BY LeasedRow DEF Lease
<1>3. /\ rows[k].tries = 1 /\ rows[k].checkpoint = "VERIFIED"
      /\ Identity[k].task = "FACTUAL_REFRESH" /\ written[k] = 1
  BY <1>1, <1>2 DEF WriteIsSettled, Claimable, Blocked
<1>4. /\ worker'[w].at = "leased" /\ KeyOf(w)' = k
  BY DEF Lease, WorkersOK, Idle, KeyOf
<1>. QED
  BY <1>1, <1>2, <1>3, <1>4 DEF WriteIsSettled, PastTheWrite, At, ItemOf

(* A written item stays settled. *)
LEMMA SettledStays ==
  ASSUME CoordinatorAssumption, CoordinatorInv, CommitInv,
         [CoordinatorNext]_coordinatorVars, NEW k \in Keys, written'[k] # 0
  PROVE  WriteIsSettled(k)'
<1>1. TypeOK /\ LeaseInv /\ WorkersOK
  BY DEF CoordinatorInv
<1>2. CASE written[k] = 0
  <2>1. PICK w \in Owners : Write(w) \/ WriterRaises(w)
    BY <1>2, WrittenBy
  <2>2. ~At(w, "idle")
    BY <2>1 DEF Write, WriterRaises, At
  <2>3. KeyOf(w) \in Keys
    BY <2>2, HeldClaim
  <2>4. KeyOf(w) = k
    BY <1>2, <2>1, <2>3, WriteStep
  <2>. QED
    BY <2>1, <2>4, WriteStep
<1>3. CASE written[k] # 0
  <2>1. written'[k] = written[k] /\ WriteIsSettled(k)
    BY <1>3, WrittenStays DEF CommitInv
  <2>2. CASE rows'[k] = rows[k]
    BY <2>1, <2>2 DEF WriteIsSettled
  <2>3. CASE \E w \in Owners, a \in Authorities, l \in Leases : Lease(w, k, a, l)
    BY <1>1, <1>3, <2>3, SecondLease
  <2>4. CASE \E w \in Owners : Step(w) /\ Current(Held(w)) /\ KeyOf(w) = k
    BY <1>3, <2>1, <2>4, PastStep
  <2>5. ASSUME NEW c \in Claims, NEW b \in BOOLEAN, Recover(c, b), c.key = k
        PROVE  WriteIsSettled(k)'
    <3>1. /\ rows[k].state = "CLAIMED" /\ rows'[k].phase = "RECOVERED"
          /\ rows'[k].checkpoint = rows[k].checkpoint /\ rows'[k].tries = rows[k].tries
          /\ rows[k].phase = "WRITE_INTENT" => rows'[k].state \in Blocked
      BY <1>1, <2>5, RecoverReleases DEF KeepsItem, Current
    <3>. QED
      BY <2>1, <3>1 DEF WriteIsSettled, Blocked
  <2>6. ASSUME NEW r \in EnqueueRequests, Insert(r), r.key = k PROVE FALSE
    <3>1. rows[k].state = "ABSENT"
      BY <1>1, <2>6, InsertedRow
    <3>2. rows[k] = NoRow
      BY <1>1, <3>1 DEF LeaseInv, LeaseAccounts
    <3>. QED
      BY <2>1, <3>2 DEF WriteIsSettled, NoRow
  <2>. QED
    BY <2>2, <2>3, <2>4, <2>5, <2>6, WhoTouches
<1>. QED
  BY <1>2, <1>3

(* The holder of a written item stays past its write. *)
LEMMA HolderStaysPast ==
  ASSUME CoordinatorAssumption, CoordinatorInv, CommitInv,
         [CoordinatorNext]_coordinatorVars, NEW v \in Owners,
         ~At(v, "idle")', Current(Held(v))', NEW k \in Keys, KeyOf(v)' = k, written'[k] # 0
  PROVE  PastTheWrite(v)'
<1>1. TypeOK /\ LeaseInv /\ WorkersOK /\ [Next]_vars
  BY CoordinatorStepsLedger DEF CoordinatorInv
<1>2. \A c : c = Held(v) /\ Held(v)' = c /\ c \in Issued => Current(c)
  <2>. SUFFICES ASSUME NEW c, c = Held(v), Held(v)' = c, c \in Issued, ~Current(c)
                PROVE  FALSE
    OBVIOUS
  <2>1. /\ rows'[c.key].state = "CLAIMED" /\ rows'[c.key].fence = c.fence
        /\ rows'[c.key].owner = c.owner
    BY DEF Current
  <2>2. ~Current(c)'
    BY <1>1, StaleStays
  <2>. QED
    BY <2>1, <2>2 DEF Current
<1>3. CASE Step(v) /\ Local(v)
  <2>1. ~At(v, "idle") /\ Held(v)' = Held(v) /\ KeyOf(v) = k
    BY <1>3 DEF Local, KeyOf, Held
  <2>2. Current(Held(v))
    BY <1>2, <2>1, HeldClaim
  <2>3. CASE written[k] # 0
    BY <1>3, <2>1, <2>2, <2>3, PastStep, WrittenStays
  <2>4. CASE written[k] = 0
    <3>1. PICK w \in Owners : Write(w) \/ WriterRaises(w)
      BY <2>4, WrittenBy
    <3>2. ~At(w, "idle")
      BY <3>1 DEF Write, WriterRaises, At
    <3>3. KeyOf(w) \in Keys
      BY <3>2, HeldClaim
    <3>4. KeyOf(w) = k /\ Current(Held(w)) /\ worker'[w].at \in {"finishing", "reporting"}
      BY <2>4, <3>1, <3>3, WriteStep
    <3>5. w = v
      BY <2>1, <2>2, <3>2, <3>4, OneHolder
    <3>. QED
      BY <3>4, <3>5 DEF PastTheWrite
  <2>. QED
    BY <2>3, <2>4
<1>4. CASE worker'[v] = worker[v] /\ ~Step(v)
  <2>1. /\ ~At(v, "idle") /\ Held(v)' = Held(v) /\ KeyOf(v) = k
    BY <1>4 DEF At, Held, KeyOf
  <2>2. Current(Held(v)) /\ Held(v).key = k
    BY <1>2, <2>1, HeldClaim
  <2>3. rows'[k].state = "CLAIMED"
    BY DEF Current, Held, KeyOf
  <2>4. rows'[k] = rows[k]
    BY <1>4, <2>1, <2>2, <2>3, ItemIsHeld
  <2>5. written[k] # 0
    <3>. SUFFICES ASSUME written[k] = 0 PROVE FALSE
      OBVIOUS
    <3>1. PICK w \in Owners : Write(w) \/ WriterRaises(w)
      BY WrittenBy
    <3>2. ~At(w, "idle") /\ Step(w)
      BY <3>1 DEF Write, WriterRaises, At, Step, Refreshing
    <3>3. KeyOf(w) \in Keys
      BY <3>2, HeldClaim
    <3>4. KeyOf(w) = k /\ Current(Held(w))
      BY <3>1, <3>3, WriteStep
    <3>5. w = v
      BY <2>1, <2>2, <3>2, <3>4, OneHolder
    <3>. QED
      BY <1>4, <3>2, <3>5
  <2>6. PastTheWrite(v)
    BY <2>1, <2>2, <2>5 DEF CommitInv
  <2>. QED
    BY <1>4, <2>1, <2>4, <2>6 DEF PastTheWrite, At, ItemOf
<1>5. ASSUME NEW j \in Keys, NEW a \in Authorities, NEW l \in Leases, Lease(v, j, a, l)
      PROVE  PastTheWrite(v)'
  <2>1. written' = written
    BY <1>5 DEF Lease, Claim
  <2>2. KeyOf(v)' = j
    BY <1>1, <1>5 DEF Lease, WorkersOK, KeyOf, Idle
  <2>. QED
    BY <1>1, <1>5, <2>1, <2>2, SecondLease
<1>. QED
  BY <1>1, <1>3, <1>4, <1>5, WorkerSteps, StepIsLocal

(* The accounting of writes is kept. *)
LEMMA CommitStep ==
  ASSUME CoordinatorAssumption, \A r \in EnqueueRequests : r.maxAttempts <= 2,
         CoordinatorInv, CommitInv, [CoordinatorNext]_coordinatorVars
  PROVE  CommitInv'
<1>1. TypeOK /\ LeaseInv /\ [Next]_vars
  BY CoordinatorStepsLedger DEF CoordinatorInv
<1>2. \A k \in Keys : rows'[k].maxAttempts <= 2
  BY <1>1, TriesStay DEF CommitInv
<1>3. ASSUME NEW w \in Owners, At(w, "writing")' PROVE Task(w)' = "FACTUAL_REFRESH"
  <2>1. CASE worker'[w] = worker[w]
    BY <1>3, <2>1 DEF CommitInv, WritersRefresh, At, Task, KeyOf
  <2>2. CASE Local(w)
    BY <1>3, <2>2 DEF Local, ReserveWrite, At, Task, KeyOf, Held
  <2>3. CASE At(w, "leased")' \/ At(w, "idle")'
    BY <1>3, <2>3 DEF At
  <2>. QED
    BY <2>1, <2>2, <2>3, WorkerSteps
<1>4. \A k \in Keys : written'[k] # 0 => WriteIsSettled(k)'
  BY SettledStays
<1>5. ASSUME NEW v \in Owners, ~At(v, "idle")', Current(Held(v))', written'[KeyOf(v)'] # 0
      PROVE  PastTheWrite(v)'
  <2>1. CoordinatorInv'
    BY CoordinatorStep
  <2>2. KeyOf(v)' \in Keys
    BY <1>5, <2>1 DEF CoordinatorInv, WorkersOK, Busy, Claims, At, Idle, KeyOf
  <2>. QED
    BY <1>5, <2>2, HolderStaysPast
<1>. QED
  BY <1>2, <1>3, <1>4, <1>5 DEF CommitInv, WritersRefresh

(* No application's fact is written twice, as long as no item is enqueued with more than
   the two attempts that enqueue gives by default: a third lease can find the read-back
   of the first buried under the receipt of the second. *)
THEOREM WrittenAtMostOnce ==
  ASSUME CoordinatorAssumption, \A r \in EnqueueRequests : r.maxAttempts <= 2
  PROVE  CoordinatorSpec => []AtMostOneCommit
<1>1. CoordinatorInit => CommitInv
  <2>. SUFFICES ASSUME CoordinatorInit PROVE CommitInv
    OBVIOUS
  <2>1. \A w \in Owners : At(w, "idle") /\ ~At(w, "writing")
    BY DEF CoordinatorInit, Idle, At
  <2>2. \A k \in Keys : rows[k].maxAttempts <= 2 /\ written[k] = 0
    BY DEF CoordinatorInit, Init, NoRow
  <2>. QED
    BY <2>1, <2>2 DEF CommitInv, WritersRefresh
<1>2. CoordinatorInv /\ CommitInv /\ [CoordinatorNext]_coordinatorVars => CommitInv'
  BY CommitStep
<1>3. CoordinatorInv /\ CommitInv => AtMostOneCommit
  <2>. SUFFICES ASSUME CoordinatorInv, CommitInv, NEW k \in Keys PROVE written[k] <= 1
    BY DEF AtMostOneCommit
  <2>1. written[k] = 0 \/ written[k] = 1
    BY DEF CommitInv, WriteIsSettled
  <2>. QED
    BY <2>1
<1>. QED
  BY <1>1, <1>2, <1>3, MethodsKeepTogether, PTL DEF CoordinatorSpec
=============================================================================
