----------------------------- MODULE Coordinator ----------------------------
(***************************************************************************)
(* The stage coordinator of app/ingestion/coordinator.py over the ledger:  *)
(* worker threads that lease an item, run one coordinator method on it and *)
(* return.  A method is several ledger transactions with reads, source and *)
(* writer work in between, so the methods of two workers interleave, a     *)
(* worker may be slow enough to lose its lease, and its process may die    *)
(* between any two transactions.                                           *)
(*                                                                         *)
(* A ledger call that the ledger refuses raises Denied.  Inside the try    *)
(* block of source() every exception leads to stop(claim); elsewhere it    *)
(* leaves the method and the lease is simply abandoned.                    *)
(***************************************************************************)
EXTENDS Ledger

CONSTANTS
  Children,   \* screening items the listing of an item yields, by key
  Isolated,   \* contracts reviewed as isolated: Coordinator(isolated_contracts)
  Crashes     \* whether worker processes may die

\* The enqueue of _materialize: the child depends on its scope and inherits its
\* priority.
ChildRequest(parent, child, priority) ==
  [key |-> child, deps |-> {parent}, limits |-> "DEFAULT", maxAttempts |-> 2,
   priority |-> priority, eligibleAt |-> 0, state |-> "QUEUED"]

ChildKeys    == UNION {Children[k] : k \in Keys}
RootRequests == {r \in EnqueueRequests : r.key \notin ChildKeys}

\* What is assumed of the constants; the module of a run states it as an ASSUME.
CoordinatorAssumption ==
  /\ {"LISTING", "FAILURE", "SCREENED", "WITHHELD", "VERIFIED"} = Evidence
  /\ {"LISTING", "FAILURE", "WITHHELD"} = ClosedEvidence
  /\ Children \in [Keys -> SUBSET Keys]
  /\ \A k \in Keys : \A d \in Children[k] : Identity[d].task = "SCREENING"
  /\ \A r \in EnqueueRequests : \A d \in Children[r.key] :
       ChildRequest(r.key, d, r.priority) \in EnqueueRequests
  /\ Isolated \subseteq Contracts
  /\ 0 \in Delays /\ 0 \in Cooldowns
  /\ Crashes \in BOOLEAN

VARIABLES
  worker,     \* what each worker thread is doing
  alarm       \* history: an unknown failure, a raised writer, a death or an expiry

coordinatorVars == <<vars, worker, alarm>>

Stages == {"idle", "leased", "reading", "failing", "sealing", "materializing",
           "finishing", "withholding", "writing", "reporting", "stopping", "raising"}

Idle == [at |-> "idle", claim |-> None, guarded |-> FALSE, todo |-> {}]

CoordinatorInit == Init /\ worker = [w \in Owners |-> Idle] /\ alarm = FALSE

-----------------------------------------------------------------------------
At(w, stage) == worker[w].at = stage
Held(w)      == worker[w].claim
KeyOf(w)     == worker[w].claim.key
ItemOf(w)    == rows[KeyOf(w)]
Task(w)      == Identity[KeyOf(w)].task

Goto(w, stage) == worker' = [worker EXCEPT ![w].at = stage]

Return(w)      == worker' = [worker EXCEPT ![w] = Idle]

\* A refused ledger call: the except clause of source(), or out of the method.
Raise(w) ==
  /\ IF worker[w].guarded THEN Goto(w, "stopping") ELSE Return(w)
  /\ UNCHANGED <<vars, alarm>>

Lease(w, k, a, l) ==
  /\ At(w, "idle")
  /\ Claim(k, w, a, l)
  /\ worker' = [worker EXCEPT ![w] =
       [Idle EXCEPT !.at = "leased",
                    !.claim = [key |-> k, fence |-> rows[k].fence + 1, owner |-> w]]]
  /\ UNCHANGED alarm

-----------------------------------------------------------------------------
(* source: reserve, read, seal the receipt, materialise, finish. *)

\* The replay gate of source(): no checkpoint, or the receipt of a transient.
AdmitsSource(k) == rows[k].checkpoint \in {None, "FAILURE"}

ReserveSource(w) ==
  /\ At(w, "leased") /\ IsScopeTask(KeyOf(w))
  /\ AdmitsSource(KeyOf(w))
  /\ Intent(Held(w), "source_calls", 1)
  /\ worker' = [worker EXCEPT ![w].at = "reading", ![w].guarded = TRUE]
  /\ UNCHANGED alarm

SourceRefused(w) ==
  /\ At(w, "leased") /\ IsScopeTask(KeyOf(w))
  /\ ~(AdmitsSource(KeyOf(w)) /\ CanIntent(Held(w), "source_calls", 1))
  /\ Raise(w)

\* The supervised reader returns a listing that validates, or it does not.
ReaderReturns(w) ==
  /\ At(w, "reading")
  /\ Goto(w, "sealing")
  /\ UNCHANGED <<vars, alarm>>

\* Mutant of ReaderRaises: the exception leaves the method without a stop.
ReaderRaisesOut(w) ==
  /\ worker[w].guarded /\ worker[w].at \in {"reading", "sealing", "materializing"}
  /\ Return(w)
  /\ alarm' = TRUE
  /\ UNCHANGED vars

\* Inside the try the reader raises, its audit does not validate, or the
\* transaction of a checkpoint or of a child fails.
ReaderRaises(w) ==
  /\ worker[w].guarded /\ worker[w].at \in {"reading", "sealing", "materializing"}
  /\ Goto(w, "stopping")
  /\ alarm' = TRUE
  /\ UNCHANGED vars

\* The one dependency of the item holds a listing receipt.
ScopeReceipt(w) == \E d \in Keys : ItemOf(w).deps = {d} /\ rows[d].checkpoint = "LISTING"

\* listing and resume_listing (receipt retained), metadata_from_scope (receipt of
\* the one scope it depends on): the same tail without a source call or a try.
Retained(w) ==
  /\ At(w, "leased")
  /\ \/ IsScopeTask(KeyOf(w))
     \/ Task(w) = "LISTING_METADATA" /\ ScopeReceipt(w)
  /\ Goto(w, "sealing")
  /\ UNCHANGED <<vars, alarm>>

Seal(w) ==
  /\ At(w, "sealing")
  /\ Checkpoint(Held(w), "LISTING")
  /\ worker' = [worker EXCEPT ![w].at = "materializing", ![w].todo = Children[KeyOf(w)]]
  /\ UNCHANGED alarm

SealRefused(w) ==
  /\ At(w, "sealing")
  /\ ~(Usable(Held(w)) /\ SettlesIntent(ItemOf(w).phase, "LISTING"))
  /\ Raise(w)

\* Mutant of Materialize: no parent_claim, so an old lease still inserts.
MaterializeUnowned(w, child) ==
  /\ At(w, "materializing") /\ child \in worker[w].todo
  /\ IF Exists(child) THEN UNCHANGED vars
                      ELSE Enqueue(ChildRequest(KeyOf(w), child, ItemOf(w).priority))
  /\ worker' = [worker EXCEPT ![w].todo = @ \ {child}]
  /\ UNCHANGED alarm

\* _materialize inserts each child in a transaction of its own; one that exists,
\* from an earlier attempt or from an overlapping scope, is kept as it is.
Materialize(w, child) ==
  /\ At(w, "materializing") /\ child \in worker[w].todo
  /\ Usable(Held(w))
  /\ IF Exists(child) THEN UNCHANGED vars
                      ELSE EnqueueChild(ChildRequest(KeyOf(w), child, ItemOf(w).priority),
                                        Held(w))
  /\ worker' = [worker EXCEPT ![w].todo = @ \ {child}]
  /\ UNCHANGED alarm

\* Mutant of FinishListing: the scope is finished as soon as it is sealed.
FinishListingEarly(w) ==
  /\ At(w, "materializing")
  /\ Finish(Held(w), "COMPLETE", None, 0, 0)
  /\ Return(w)
  /\ UNCHANGED alarm

FinishListing(w) ==
  /\ At(w, "materializing") /\ worker[w].todo = {}
  /\ Finish(Held(w), "COMPLETE", None, 0, 0)
  /\ Return(w)
  /\ UNCHANGED alarm

MaterializeRefused(w) ==
  /\ At(w, "materializing")
  /\ \/ ~Usable(Held(w))
     \/ /\ \E child \in worker[w].todo : ~Exists(child)
        /\ Cardinality(Enqueued) >= RowCap
  /\ Raise(w)

\* The stop of the except clause, which may itself raise: the source intent is
\* left as it is, with nothing stopped.
StopAfterException(w) ==
  /\ At(w, "stopping")
  /\ \/ StopClaim(Held(w), FALSE) /\ Return(w)
     \/ UNCHANGED vars /\ Goto(w, "raising")
  /\ UNCHANGED alarm

\* The exception leaves the method.
Raised(w) ==
  /\ At(w, "raising")
  /\ Return(w)
  /\ UNCHANGED <<vars, alarm>>

-----------------------------------------------------------------------------
(* fail: the reviewed policy for an attempt whose caller reserved the source
   call itself, or never reached it. *)

ReserveForCaller(w) ==
  /\ At(w, "leased") /\ IsScopeTask(KeyOf(w))
  /\ Intent(Held(w), "source_calls", 1)
  /\ Goto(w, "failing")
  /\ UNCHANGED alarm

FailBeforeSource(w) ==
  /\ At(w, "leased")
  /\ Goto(w, "failing")
  /\ UNCHANGED <<vars, alarm>>

\* Unclosed, unaccounted or unknown, or isolation not established.
FailGlobally(w) ==
  /\ At(w, "failing")
  /\ StopClaim(Held(w), FALSE)
  /\ Return(w)
  /\ alarm' = TRUE

\* RATE_LIMIT or SOURCE_UNAVAILABLE under a reviewed isolated contract.
FailLocally(w, delay, cooldown) ==
  /\ At(w, "failing")
  /\ Identity[KeyOf(w)].contract \in Isolated
  /\ Finish(Held(w), "DEFERRED", "FAILURE", delay, cooldown)
  /\ Return(w)
  /\ UNCHANGED alarm

FailUnsupported(w) ==
  /\ At(w, "failing")
  /\ Finish(Held(w), "UNSUPPORTED_CONTRACT", "FAILURE", 0, 0)
  /\ Return(w)
  /\ UNCHANGED alarm

FailRefused(w) ==
  /\ At(w, "failing")
  /\ ~CanFinish(Held(w), "FAILURE")
  /\ Raise(w)

-----------------------------------------------------------------------------
(* screening and factual_refresh. *)

Screen(w) ==
  /\ At(w, "leased") /\ Task(w) = "SCREENING" /\ ScopeReceipt(w)
  /\ Checkpoint(Held(w), "SCREENED")
  /\ Goto(w, "finishing")
  /\ UNCHANGED alarm

\* Unsupported facts, or an application its scope did not return exactly once.
MayWithhold(w) ==
  \/ Task(w) = "FACTUAL_REFRESH"
  \/ Task(w) = "LISTING_METADATA" /\ ~IsScopeTask(KeyOf(w)) /\ ScopeReceipt(w)

Withhold(w) ==
  /\ At(w, "leased") /\ MayWithhold(w)
  /\ Checkpoint(Held(w), "WITHHELD")
  /\ Goto(w, "withholding")
  /\ UNCHANGED alarm

CheckpointRefused(w) ==
  /\ At(w, "leased")
  /\ MayWithhold(w) \/ Task(w) = "SCREENING"
  /\ ~(Usable(Held(w)) /\ ItemOf(w).phase \notin Intents)
  /\ Raise(w)

FinishWithheld(w) ==
  /\ At(w, "withholding")
  /\ Finish(Held(w), "UNSUPPORTED_CONTRACT", None, 0, 0)
  /\ Return(w)
  /\ UNCHANGED alarm

\* Mutant of Verified: the retained read-back is not looked at.
NeverVerified(w) == FALSE

\* An earlier attempt verified its write but lost its completion: compare the
\* committed row with the retained read-back instead of writing again.
Verified(w) == ItemOf(w).checkpoint = "VERIFIED"

ReadbackSame(w) ==
  /\ At(w, "leased") /\ Task(w) = "FACTUAL_REFRESH" /\ Verified(w)
  /\ Goto(w, "finishing")
  /\ UNCHANGED <<vars, alarm>>

ReadbackChanged(w) ==
  /\ At(w, "leased") /\ Task(w) = "FACTUAL_REFRESH" /\ Verified(w)
  /\ Stop
  /\ Return(w)
  /\ alarm' = TRUE

ReserveWrite(w) ==
  /\ At(w, "leased") /\ Task(w) = "FACTUAL_REFRESH" /\ ~Verified(w)
  /\ Intent(Held(w), "writes", 1)
  /\ Goto(w, "writing")
  /\ UNCHANGED alarm

WriteRefused(w) ==
  /\ \/ /\ At(w, "leased") /\ Task(w) = "FACTUAL_REFRESH" /\ ~Verified(w)
        /\ ~CanIntent(Held(w), "writes", 1)
     \/ At(w, "writing") /\ ~EnterWriter(Held(w))
  /\ Raise(w)

Write(w) ==
  /\ At(w, "writing")
  /\ FencedEffectCommit(Held(w), "VERIFIED", FALSE)
  /\ Goto(w, "finishing")
  /\ UNCHANGED alarm

WriterRaises(w) ==
  /\ At(w, "writing")
  /\ \/ FencedEffectCommit(Held(w), "VERIFIED", TRUE)
     \/ \E committed \in BOOLEAN : FencedEffectRollback(Held(w), committed)
  /\ Goto(w, "reporting")
  /\ alarm' = TRUE

\* The stop of fenced_effect's handler; a failure of it is swallowed.
Report(w) ==
  /\ At(w, "reporting")
  /\ ReportUncertain(Held(w)) \/ UNCHANGED vars
  /\ Return(w)
  /\ UNCHANGED alarm

FinishRefresh(w) ==
  /\ At(w, "finishing")
  /\ Finish(Held(w), "COMPLETE", None, 0, 0)
  /\ Return(w)
  /\ UNCHANGED alarm

FinishRefused(w) ==
  /\ At(w, "finishing") \/ At(w, "withholding")
  /\ ~CanFinish(Held(w), None)
  /\ Raise(w)

-----------------------------------------------------------------------------
(* The environment: deaths, the operator, the clock. *)

Crash(w) ==
  /\ Crashes
  /\ ~At(w, "idle")
  /\ Return(w)
  /\ alarm' = TRUE
  /\ UNCHANGED vars

RecoverAbandoned ==
  /\ NextRecover
  /\ alarm' = TRUE
  /\ UNCHANGED worker

Operate ==
  /\ NextGrant \/ (\E r \in RootRequests : Enqueue(r)) \/ Tick
  /\ UNCHANGED <<worker, alarm>>

Listing(w) ==
  \/ ReserveSource(w) \/ SourceRefused(w) \/ ReaderReturns(w) \/ ReaderRaises(w)
  \/ Retained(w) \/ Seal(w) \/ SealRefused(w)
  \/ \E child \in Keys : Materialize(w, child)
  \/ FinishListing(w) \/ MaterializeRefused(w) \/ StopAfterException(w) \/ Raised(w)

Failing(w) ==
  \/ ReserveForCaller(w) \/ FailBeforeSource(w) \/ FailGlobally(w)
  \/ \E d \in Delays, t \in Cooldowns : FailLocally(w, d, t)
  \/ FailUnsupported(w) \/ FailRefused(w)

Refreshing(w) ==
  \/ Screen(w) \/ Withhold(w) \/ CheckpointRefused(w) \/ FinishWithheld(w)
  \/ ReadbackSame(w) \/ ReadbackChanged(w) \/ ReserveWrite(w) \/ WriteRefused(w)
  \/ Write(w) \/ WriterRaises(w) \/ Report(w) \/ FinishRefresh(w) \/ FinishRefused(w)

Step(w) == Listing(w) \/ Failing(w) \/ Refreshing(w)

CoordinatorNext ==
  \/ \E w \in Owners, k \in Keys, a \in Authorities, l \in Leases : Lease(w, k, a, l)
  \/ \E w \in Owners : Step(w) \/ Crash(w)
  \/ RecoverAbandoned
  \/ Operate

CoordinatorSpec == CoordinatorInit /\ [][CoordinatorNext]_coordinatorVars

\* A worker thread that is inside a method keeps running.
FairCoordinatorSpec == CoordinatorSpec /\ \A w \in Owners : WF_coordinatorVars(Step(w))
=============================================================================
