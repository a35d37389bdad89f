------------------------------ MODULE NewIdentity ------------------------------
(***************************************************************************)
(* The admission of one new planning application through the ledger        *)
(* (app/ingestion/new_identity.py, called by new_identity_source and       *)
(* new_identity of the coordinator): a source call, a pending identity     *)
(* (app/pipeline/discovery_admission.py), its facts through the shared     *)
(* writer, the committed readback.  The identity and the facts are two     *)
(* transactions of the application database, made inside one transaction   *)
(* of the ledger, whose control row stays locked meanwhile.                *)
(*                                                                         *)
(* The ledger here is one work item under a grant that suffices; module    *)
(* Ledger has all of it.  The weekly scrape inserts the same application   *)
(* on its own and refreshes what it inserted; it leaves a pending one.     *)
(***************************************************************************)
EXTENDS Integers

CONSTANTS
  Workers,   \* processes that may lease the item
  MaxTries,  \* max_attempts of the item
  MaxFacts   \* model bound: versions of the facts the scrape writes

ASSUME NewIdentityAssumption == MaxTries \in 1..3 /\ MaxFacts \in Nat \ {0}

VARIABLES
  stopped,  \* the ledger's global stop
  item,     \* the FACTUAL_REFRESH work item
  app,      \* the Application row of the reference
  worker    \* each worker's step, and the fence of its claim

vars == <<stopped, item, app, worker>>

Idle  == [pc |-> "idle", fence |-> 0, guarded |-> FALSE]
NoApp == [is |-> "absent", facts |-> 0]

Init ==
  /\ stopped = FALSE
  /\ item = [state |-> "QUEUED", phase |-> "IDLE", tries |-> 0, fence |-> 0, lapsed |-> FALSE,
             checkpoint |-> "none", readback |-> 0]
  /\ app = NoApp
  /\ worker = [w \in Workers |-> Idle]

----------------------------------------------------------------------------
(* The ledger's transactions. *)

At(w, pc)   == worker[w].pc = pc
Goto(w, pc) == worker' = [worker EXCEPT ![w].pc = pc]
Leave(w)    == worker' = [worker EXCEPT ![w] = Idle]

\* The writer runs inside a ledger transaction: every other one waits.
Writing == \E w \in Workers : worker[w].pc \in {"admit", "facts", "seal"}

Current(w) == item.state = "CLAIMED" /\ item.fence = worker[w].fence
Owned(w)   == Current(w) /\ ~item.lapsed /\ ~stopped

Lease(w) ==
  /\ At(w, "idle") /\ ~Writing /\ ~stopped
  /\ item.state \in {"QUEUED", "DEFERRED"} /\ item.tries < MaxTries
  /\ item' = [item EXCEPT !.state = "CLAIMED", !.phase = "CLAIMED", !.lapsed = FALSE,
                          !.tries = @ + 1, !.fence = @ + 1]
  /\ worker' = [worker EXCEPT ![w] = [Idle EXCEPT !.pc = "leased", !.fence = item.fence + 1]]
  /\ UNCHANGED <<stopped, app>>

LeaseLapses ==
  /\ item.state = "CLAIMED" /\ ~item.lapsed
  /\ item' = [item EXCEPT !.lapsed = TRUE]
  /\ UNCHANGED <<stopped, app, worker>>

\* Mutant of Abandoned: a write intent is deferred like an idle claim.
AbandonedAsIdle(closed) ==
  IF item.phase # "SOURCE_INTENT" /\ closed THEN "DEFERRED" ELSE "SAFETY_BLOCKED"

Abandoned(closed) ==
  CASE item.phase = "WRITE_INTENT"                 -> "PERSISTENCE_UNCERTAIN"
    [] item.phase = "SOURCE_INTENT" \/ ~closed     -> "SAFETY_BLOCKED"
    [] OTHER                                       -> "DEFERRED"

\* recover, by an operator, once the lease has run out.
Recover(closed) ==
  /\ ~Writing /\ item.state = "CLAIMED" /\ item.lapsed
  /\ item' = [item EXCEPT !.state = Abandoned(closed), !.phase = "RECOVERED", !.fence = @ + 1]
  /\ stopped' = (stopped \/ Abandoned(closed) # "DEFERRED")
  /\ UNCHANGED <<app, worker>>

\* A refused call: out of the method, through the handler of new_identity_source
\* when it is inside its try.
Raise(w) ==
  /\ stopped' = (stopped \/ worker[w].guarded)
  /\ Leave(w) /\ UNCHANGED <<item, app>>

----------------------------------------------------------------------------
(* new_identity_source and new_identity: what the checkpoint decides. *)

ReserveSource(w) ==
  /\ At(w, "leased") /\ ~Writing /\ item.checkpoint = "none" /\ Owned(w)
  /\ item' = [item EXCEPT !.phase = "SOURCE_INTENT"]
  /\ worker' = [worker EXCEPT ![w].pc = "reading", ![w].guarded = TRUE]
  /\ UNCHANGED <<stopped, app>>

\* The detail receipt is retained before anything is decided from it.
ReaderReturns(w) ==
  /\ At(w, "reading") /\ ~Writing /\ Owned(w) /\ item.phase = "SOURCE_INTENT"
  /\ item' = [item EXCEPT !.checkpoint = "DETAIL", !.phase = "CHECKPOINTED"]
  /\ Goto(w, "look") /\ UNCHANGED <<stopped, app>>

\* The caller holds a retained source: new_identity without a call.
Retained(w) ==
  /\ At(w, "leased") /\ item.checkpoint \in {"none", "DETAIL"}
  /\ Goto(w, "look") /\ UNCHANGED <<stopped, item, app>>

\* The committed readback is compared, and a difference stops the ledger.
Resume(w) ==
  /\ At(w, "leased") /\ item.checkpoint = "VERIFIED"
  /\ IF app.facts = item.readback
     THEN Goto(w, "finish") /\ UNCHANGED stopped
     ELSE stopped' = TRUE /\ Leave(w)
  /\ UNCHANGED <<item, app>>

\* The reader raised, or DETAIL_NO_REPLAY.
Refused(w) ==
  /\ ~Writing
  /\ \/ At(w, "leased") /\ (item.checkpoint \in {"KNOWN", "WITHHELD"} \/ ~Owned(w))
     \/ At(w, "reading")
     \/ worker[w].pc \in {"known", "withhold", "block", "reserve", "enter", "finish"} /\ ~Owned(w)
  /\ Raise(w)

----------------------------------------------------------------------------
(* execute *)

\* lookup, then the projector on the source.
Look(w) ==
  /\ At(w, "look")
  /\ \/ app # NoApp /\ Goto(w, "known")
     \/ app = NoApp /\ \E pc \in {"withhold", "reserve"} : Goto(w, pc)
  /\ UNCHANGED <<stopped, item, app>>

\* checkpoint, unless the detail receipt is the evidence.
Note(w, outcome, next) ==
  /\ ~Writing /\ Owned(w)
  /\ item' = IF item.checkpoint = "DETAIL" THEN item
             ELSE [item EXCEPT !.checkpoint = outcome, !.phase = "CHECKPOINTED"]
  /\ Goto(w, next) /\ UNCHANGED <<stopped, app>>

AlreadyKnown(w) == At(w, "known") /\ Note(w, "KNOWN", "finish")
FactsWithheld(w) == At(w, "withhold") /\ Note(w, "WITHHELD", "block")

End(w, pc, state) ==
  /\ At(w, pc) /\ ~Writing /\ Owned(w) /\ item.phase \notin {"SOURCE_INTENT", "WRITE_INTENT"}
  /\ item' = [item EXCEPT !.state = state, !.phase = "FINISHED"]
  /\ Leave(w) /\ UNCHANGED <<stopped, app>>

Finish(w) == End(w, "finish", "COMPLETE")

Block(w)  == End(w, "block", "UNSUPPORTED_CONTRACT")

ReserveWrite(w) ==
  /\ At(w, "reserve") /\ ~Writing /\ Owned(w)
  /\ item' = [item EXCEPT !.phase = "WRITE_INTENT"]
  /\ Goto(w, "enter") /\ UNCHANGED <<stopped, app>>

EnterWriter(w) ==
  /\ At(w, "enter") /\ ~Writing /\ Owned(w)
  /\ Goto(w, "admit") /\ UNCHANGED <<stopped, item, app>>

\* The ledger's own commit; its acknowledgement may be lost.
Sealed(w, checkpoint) ==
  /\ item' = [item EXCEPT !.checkpoint = checkpoint, !.phase = "CHECKPOINTED",
                          !.readback = app.facts]
  /\ \E pc \in {"finish", "raised"} : Goto(w, pc)

\* admit_identity: insert, or leave the winner alone.
Admit(w) ==
  /\ At(w, "admit")
  /\ \/ /\ app = NoApp /\ app' = [is |-> "pending", facts |-> 0]
        /\ \E pc \in {"facts", "raised"} : Goto(w, pc)
        /\ UNCHANGED item
     \/ app # NoApp /\ Sealed(w, "KNOWN") /\ UNCHANGED app
  /\ UNCHANGED <<stopped>>

\* The shared writer: accepted and committed; the read-back may still fail.
WriteFacts(w) ==
  /\ At(w, "facts")
  /\ app' = [app EXCEPT !.facts = MaxFacts + 1]
  /\ \E pc \in {"seal", "raised"} : Goto(w, pc)
  /\ UNCHANGED <<stopped, item>>

Seal(w) ==
  /\ At(w, "seal") /\ Sealed(w, "VERIFIED")
  /\ UNCHANGED <<stopped, app>>

\* Not accepted, a lost commit before it took place, a read-back that differs.
EffectRaises(w) ==
  /\ worker[w].pc \in {"admit", "facts", "seal"}
  /\ Goto(w, "raised") /\ UNCHANGED <<stopped, item, app>>

\* The handler of fenced_effect, whose own failure is swallowed.
Report(w, reported) ==
  /\ At(w, "raised") /\ ~Writing
  /\ stopped' = (stopped \/ reported \/ worker[w].guarded)
  /\ item' = IF reported /\ Current(w)
             THEN [item EXCEPT !.state = "PERSISTENCE_UNCERTAIN", !.fence = @ + 1] ELSE item
  /\ Leave(w) /\ UNCHANGED <<app>>

Die(w) ==
  /\ ~At(w, "idle") /\ Leave(w)
  /\ UNCHANGED <<stopped, item, app>>

----------------------------------------------------------------------------
(* _upsert_scraped_application of the weekly run. *)
Scrape ==
  /\ app.is # "pending" /\ app.facts < MaxFacts
  /\ app' = [is |-> "scraped", facts |-> app.facts + 1]
  /\ UNCHANGED <<stopped, item, worker>>

\* factual_refresh of the same application by another item, under the write barrier.
Refresh ==
  /\ ~Writing /\ ~stopped /\ item.phase # "WRITE_INTENT" /\ app.facts = MaxFacts + 1
  /\ app' = [app EXCEPT !.facts = @ + 1]
  /\ UNCHANGED <<stopped, item, worker>>

Next ==
  \/ LeaseLapses \/ Scrape \/ Refresh \/ \E closed \in BOOLEAN : Recover(closed)
  \/ \E w \in Workers :
       \/ Lease(w) \/ ReserveSource(w) \/ ReaderReturns(w) \/ Retained(w) \/ Resume(w)
       \/ Refused(w) \/ Look(w) \/ AlreadyKnown(w) \/ FactsWithheld(w) \/ Finish(w) \/ Block(w)
       \/ ReserveWrite(w) \/ EnterWriter(w) \/ Admit(w) \/ WriteFacts(w) \/ Seal(w)
       \/ EffectRaises(w) \/ Die(w)
       \/ \E reported \in BOOLEAN : Report(w, reported)

Spec == Init /\ [][Next]_vars

(***************************************************************************)
(* Properties.                                                             *)
(***************************************************************************)
\* An identity without facts is never left to look finished: its item holds the
\* write barrier or everything is stopped (fenced_effect, recover).
BareIdentityIsGuarded ==
  app.is = "pending" /\ app.facts = 0 => item.phase = "WRITE_INTENT" \/ stopped

\* A complete item has a row with facts behind it, whoever wrote them, through any
\* death, expiry and retry (new_identity.py:1).
CompleteHasFacts == item.state = "COMPLETE" => app.facts > 0

(* What an admitted identity has behind it: both of the above. *)
IdentityHasFacts == BareIdentityIsGuarded /\ CompleteHasFacts

----------------------------------------------------------------------------
(* The inductive invariant behind them. *)

Stages == {"idle", "leased", "reading", "look", "known", "withhold", "block", "reserve",
           "enter", "admit", "facts", "seal", "raised", "finish"}

\* An application row that the scrape or the shared writer filled has facts.
AppOK ==
  \/ app = NoApp
  \/ /\ app.is \in {"pending", "scraped"} /\ app.facts \in Nat
     /\ app = [is |-> app.is, facts |-> app.facts]
     /\ app.is = "scraped" => app.facts > 0

Items ==
  [state : {"QUEUED", "DEFERRED", "CLAIMED", "COMPLETE", "SAFETY_BLOCKED",
            "UNSUPPORTED_CONTRACT", "PERSISTENCE_UNCERTAIN"},
   phase : {"IDLE", "CLAIMED", "SOURCE_INTENT", "WRITE_INTENT", "CHECKPOINTED",
            "RECOVERED", "FINISHED"},
   tries : Nat, fence : Nat, lapsed : BOOLEAN,
   checkpoint : {"none", "DETAIL", "KNOWN", "WITHHELD", "VERIFIED"},
   readback : Nat]

TypeOK ==
  /\ stopped \in BOOLEAN /\ AppOK
  /\ item \in Items
  /\ worker \in [Workers -> [pc : Stages, fence : Nat, guarded : BOOLEAN]]

\* Every claim has a fence of its own, and none is from the future.
FencesAreUnique ==
  \A w \in Workers : ~At(w, "idle") =>
    /\ worker[w].fence <= item.fence
    /\ \A v \in Workers : ~At(v, "idle") /\ worker[v].fence = worker[w].fence => v = w

\* Who is inside the writer, or about to enter it with a live claim, is at the barrier.
WriterHoldsBarrier ==
  \A w \in Workers :
    /\ worker[w].pc \in {"admit", "facts", "seal"} => Current(w)
    /\ worker[w].pc \in {"enter", "admit", "facts", "seal"} /\ Current(w)
         => item.phase = "WRITE_INTENT"

\* What a worker has seen of the application, or wrote, is still there.
SeenStays ==
  /\ \A w \in Workers :
       /\ worker[w].pc \in {"known", "facts", "finish"} => app # NoApp
       /\ At(w, "seal") => app.facts > 0
  /\ item.checkpoint = "VERIFIED" => app.facts > 0

\* Until everything stops, an identity without facts is in the hands of the worker that
\* admitted it, or at the barrier that this worker left behind.
BareIsHeld ==
  app.is = "pending" /\ app.facts = 0 /\ ~stopped =>
    /\ item.state = "CLAIMED" /\ item.phase = "WRITE_INTENT"
    /\ \A w \in Workers :
         ~At(w, "idle") /\ Current(w) => worker[w].pc \in {"facts", "raised"}

(* How identity, facts, barrier and claims hang together in every reachable state. *)
IdentityInv ==
  /\ TypeOK
  /\ FencesAreUnique
  /\ WriterHoldsBarrier
  /\ SeenStays
  /\ BareIsHeld
  /\ CompleteHasFacts
=============================================================================
