----------------------- MODULE CoordinatorProperties ------------------------
(***************************************************************************)
(* What the coordinator adds to the ledger's promises: that the methods    *)
(* built from several ledger transactions keep them together.              *)
(***************************************************************************)
EXTENDS Coordinator, LedgerProperties

Busy == [at : Stages \ {"idle"}, claim : Claims, guarded : BOOLEAN, todo : SUBSET Keys]

(* A worker is idle without a claim, or is at a known point of a method with the
   claim it was given: the local state of one coordinator call. *)
WorkersOK == worker \in [Owners -> {Idle} \cup Busy]

(* A scope that completed with a listing receipt has every child of that receipt:
   _materialize inserts them one transaction at a time, and a worker may die, lose
   its lease or be recovered after any of them. *)
CompleteScopeHasChildren ==
  \A k \in Keys :
    rows[k].state = "COMPLETE" /\ rows[k].checkpoint = "LISTING"
      => \A d \in Children[k] : Exists(d)

(* Each application's fact is written by the external writer at most once per work
   item: a verified write whose completion was lost is resumed by comparing the
   read-back (factual_refresh; IMPLEMENTATION.md, "Claims, recovery and stops"). *)
AtMostOneCommit == \A k \in Keys : written[k] <= 1

(* Nothing stops everything unless a failure was unknown, a writer raised, a
   process died or its work was recovered: a known transient of one item leaves
   the others alone (fail, with isolated_contracts). *)
StopHasCause == stopped => alarm

(* A source attempt that source() admits, under a live lease with allowance left,
   is not refused by the ledger: a deferred transient can be tried again. *)
RetryIsPossible ==
  \A w \in Owners :
    /\ At(w, "leased") /\ IsScopeTask(KeyOf(w)) /\ AdmitsSource(KeyOf(w))
    /\ Usable(Held(w))
    /\ grants[ItemOf(w).authority].left["source_calls"] > 0
    => CanIntent(Held(w), "source_calls", 1)

-----------------------------------------------------------------------------
(* When a child item appears, the receipt it was read from is already durable on
   the scope it depends on: _listing seals before _materialize inserts, also when
   another worker took the scope over in between. *)
ReceiptPrecedesChildren ==
  [][\A d \in ChildKeys :
       ~Exists(d) /\ rows'[d].state # "ABSENT"
         => \A k \in rows'[d].deps : rows[k].checkpoint = "LISTING"]_coordinatorVars

(* A source call leaves its intent only with a receipt of what it returned or of its
   failure, or with everything stopped: also when its worker died or could not record
   its stop, and recovery found the item ("Abandoned source intent: blocked plus global
   stop", IMPLEMENTATION.md; Ledger.recover, _listing, fail). *)
OpenCallEndsAccounted ==
  [][\A k \in Keys :
       rows[k].phase = "SOURCE_INTENT" /\ rows'[k].phase # "SOURCE_INTENT"
         => rows'[k].checkpoint \in {"LISTING", "FAILURE"} \/ stopped']_coordinatorVars

(* Every step of the coordinator is a step of the ledger or leaves it alone; with it
   each theorem about the ledger is one about the coordinator. *)
ImplementsLedger == Init /\ [][Next]_vars
-----------------------------------------------------------------------------
(* The inductive invariant behind the invariants above. *)

\* What a worker inside a method holds is a claim that claim() gave to it.
ClaimsAreIssued ==
  \A w \in Owners : ~At(w, "idle") => Held(w) \in Issued /\ Held(w).owner = w

\* Items come from enqueue: there is a request with their key and priority.
RowsWereRequested ==
  \A k \in Keys : Exists(k) =>
    \E r \in EnqueueRequests : r.key = k /\ r.priority = rows[k].priority

\* While its claim is current, the item of a worker carries the receipt that the
\* method sealed before it went on.
ReceiptsInHand ==
  \A w \in Owners : ~At(w, "idle") /\ Current(Held(w)) =>
    /\ At(w, "materializing") => ItemOf(w).checkpoint = "LISTING"
    /\ At(w, "finishing") => ItemOf(w).checkpoint \in {"SCREENED", "VERIFIED"}

\* _materialize has inserted, or found, every child it is done with.
ChildrenInHand ==
  \A w \in Owners : At(w, "materializing") =>
    /\ worker[w].todo \subseteq Children[KeyOf(w)]
    /\ \A d \in Children[KeyOf(w)] \ worker[w].todo : Exists(d)

\* source() and whoever calls fail() reserve a source call for scopes, and for nothing else.
CallsAreOfScopes == \A k \in Keys : rows[k].phase = "SOURCE_INTENT" => IsScopeTask(k)

(* What the methods of the coordinator keep between their transactions. *)
CoordinatorInv ==
  /\ TypeOK
  /\ LeaseInv
  /\ WorkersOK
  /\ ClaimsAreIssued
  /\ RowsWereRequested
  /\ ReceiptsInHand
  /\ ChildrenInHand
  /\ CompleteScopeHasChildren

-----------------------------------------------------------------------------
(* The inductive invariant behind AtMostOneCommit. *)

\* The writer is entered for factual refreshes only.
WritersRefresh == \A w \in Owners : At(w, "writing") => Task(w) = "FACTUAL_REFRESH"

\* An item that was written is final, or is still held at the write barrier, or its
\* read-back is retained, or it has no lease left to give.
WriteIsSettled(k) ==
  /\ written[k] = 1 /\ rows[k].tries >= 1
  /\ Identity[k].task = "FACTUAL_REFRESH"
  /\ \/ rows[k].state \in Blocked \cup {"COMPLETE"}
     \/ rows[k].state = "CLAIMED" /\ rows[k].phase = "WRITE_INTENT"
     \/ /\ rows[k].phase # "WRITE_INTENT"
        /\ rows[k].checkpoint = "VERIFIED" \/ rows[k].tries >= 2

\* The worker that holds a written item is past its write, or is the second to hold
\* it and meets the retained read-back before it could write.
PastTheWrite(w) ==
  \/ worker[w].at \in {"finishing", "reporting", "stopping", "raising"}
  \/ /\ ItemOf(w).tries >= 2
     /\ \/ At(w, "withholding")
        \/ worker[w].at \in {"leased", "failing"} /\ ItemOf(w).checkpoint = "VERIFIED"

(* What factual_refresh keeps so that no application is written twice. *)
CommitInv ==
  /\ \A k \in Keys : rows[k].maxAttempts <= 2
  /\ WritersRefresh
  /\ \A k \in Keys : written[k] # 0 => WriteIsSettled(k)
  /\ \A w \in Owners :
       ~At(w, "idle") /\ Current(Held(w)) /\ written[KeyOf(w)] # 0 => PastTheWrite(w)
=============================================================================
