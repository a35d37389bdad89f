--------------------------- MODULE LedgerProperties -------------------------
(***************************************************************************)
(* What the ledger promises to every caller, whatever the callers do with  *)
(* the claims they were given.                                             *)
(***************************************************************************)
EXTENDS Ledger

(* Every variable holds a value the tables and the control row can store:
   the type invariant of Ledger.install's schema and of the histories. *)
TypeOK ==
  /\ clock \in Nat
  /\ stopped \in BOOLEAN
  /\ deferredUntil \in [Councils -> Nat]
  /\ grants \in [Authorities -> Grant]
  /\ rows \in [Keys -> Row]
  /\ attempts \in [Keys -> [Fences -> Attempt]]
  /\ uncertain \in SUBSET Claims
  /\ calls \in [Keys -> Nat]
  /\ paid \in [Keys -> Nat]
  /\ written \in [Keys -> Nat]
  /\ known \in [Keys -> Nat]

(* At most one item at a time is between a write intent and its read-back:
   the UNRESOLVED_WRITE_BARRIER of _permit, over claims, stops and recovery. *)
SingleWriter ==
  \A j, k \in Keys :
    rows[j].phase = "WRITE_INTENT" /\ rows[k].phase = "WRITE_INTENT" => j = k

(* Over its whole life, through every lease, expiry, recovery and retry, an item
   is given at most one source call: SOURCE_REPLAY of Ledger.intent together
   with the closure that checkpoint and finish demand of a source intent. *)
AtMostOneSourceCall == \A k \in Keys : calls[k] <= 1

(* The attempt that is open is the one the row is leased under, and it carries the
   row's phase and checkpoint: claim, stop, recover and finish keep the attempt
   table in step with the work table. *)
OpenAttemptIsTheLease ==
  \A k \in Keys, f \in Fences :
    attempts[k][f].open <=>
      /\ rows[k].state = "CLAIMED" /\ rows[k].fence = f
      /\ attempts[k][f].owner = rows[k].owner
      /\ attempts[k][f].phase = rows[k].phase
      /\ attempts[k][f].checkpoint = rows[k].checkpoint

(* Every lease ever given is evidenced by one attempt row, there are never more
   than max_attempts of them, and none is filed under a fence still to come:
   attempt_count, the attempt insert of claim and the fence bumps agree. *)
AttemptsAreAccounted ==
  \A k \in Keys :
    LET filed == {f \in Fences : attempts[k][f].owner # None} IN
    /\ Cardinality(filed) = rows[k].tries
    /\ rows[k].tries <= rows[k].maxAttempts
    /\ \A f \in filed : f <= rows[k].fence

(* An external write the ledger has no read-back of is never forgotten: its item
   is still the write barrier, or everything is stopped (fenced_effect's
   handler, stop and recover of an abandoned WRITE_INTENT). *)
UnknownWriteIsGuarded ==
  \A k \in Keys :
    written[k] > known[k] => rows[k].phase = "WRITE_INTENT" \/ stopped

(* The external writer never commits more often than was paid for out of a grant:
   one durable intent covers one entry of fenced_effect. *)
WritesArePaid == \A k \in Keys : written[k] <= paid[k]

(* An item that is leased or complete has only complete dependencies, even though
   they are read once, at claim, and never again. *)
DependenciesComplete ==
  \A k \in Keys :
    rows[k].state \in {"CLAIMED", "COMPLETE"}
      => \A d \in rows[k].deps : rows[d].state = "COMPLETE"

(* Dependencies form no cycle: every set of items has one that waits for none of
   them (enqueue accepts only dependencies that already exist). *)
DependenciesAcyclic ==
  \A S \in SUBSET Enqueued : S # {} => \E k \in S : rows[k].deps \cap S = {}

-----------------------------------------------------------------------------
(* Once an attempt is closed no later call, of its holder or of anyone, changes
   its evidence: a stale worker is refused by fence, owner and lease. *)
ClosedAttemptIsFinal ==
  [][\A k \in Keys, f \in Fences :
       attempts[k][f].owner # None /\ ~attempts[k][f].open
         => attempts'[k][f] = attempts[k][f]]_vars

(* A grant is registered once and its allowances only shrink: reserved counters
   are never refunded, and no call widens keys, contracts or expiry. *)
AllowanceOnlyShrinks ==
  [][\A a \in Authorities : Registered(a) =>
       /\ \A op \in Operations : grants'[a].left[op] <= grants[a].left[op]
       /\ [grants'[a] EXCEPT !.left = grants[a].left] = grants[a]]_vars

(* No item enters an intent without an allowance of the authority it is leased
   under being reduced in the same transaction. *)
IntentIsPaid ==
  [][\A k \in Keys :
       rows'[k].phase \in Intents /\ rows[k].phase \notin Intents
         => \E op \in Operations :
              /\ op = IF rows'[k].phase = "WRITE_INTENT" THEN "writes" ELSE "source_calls"
              /\ grants'[rows[k].authority].left[op]
                   < grants[rows[k].authority].left[op]]_vars

(* The global stop is final and freezes effects: afterwards no lease is given, no
   intent is entered and no external writer is started. *)
StopFreezesEffects ==
  [][stopped =>
       /\ stopped'
       /\ written' = written
       /\ \A k \in Keys :
            /\ rows'[k].state = "CLAIMED" => rows[k].state = "CLAIMED"
            /\ rows'[k].phase \in Intents => rows[k].phase = rows'[k].phase]_vars

(* A complete or blocked item never changes again: there is no unblock, no late
   finish and no late recovery (IMPLEMENTATION.md, "Claims, recovery and stops"). *)
TerminalIsFinal ==
  [][\A k \in Keys :
       rows[k].state \in Blocked \cup {"COMPLETE"} => rows'[k] = rows[k]]_vars

(* While a council cools down none of its discovery scopes gains a lease or a
   source intent, and a cooldown is never shortened. *)
CooldownIsHonoured ==
  [][/\ \A l \in Councils : deferredUntil'[l] >= deferredUntil[l]
     /\ \A k \in Keys : CouncilDeferred(k) =>
          /\ rows'[k].state = "CLAIMED" => rows[k].state = "CLAIMED"
          /\ rows'[k].phase = "SOURCE_INTENT" => rows[k].phase = "SOURCE_INTENT"]_vars
-----------------------------------------------------------------------------
(* The inductive invariant behind the four effect invariants above. *)

\* The claim under which a row is leased.
LiveClaim(k) == [key |-> k, fence |-> rows[k].fence, owner |-> rows[k].owner]

\* An unsettled intent belongs to a lease or to an item blocked for good.
IntentsAreHeld ==
  \A k \in Keys :
    rows[k].phase \in Intents => rows[k].state \in {"CLAIMED"} \cup Blocked

\* A source call that was made has left a receipt, is in flight, or has blocked
\* its item.
SourceCallLeavesATrace ==
  \A k \in Keys : calls[k] # 0 =>
    /\ calls[k] = 1
    /\ rows[k].state # "ABSENT"
    /\ \/ rows[k].checkpoint # None
       \/ rows[k].phase = "SOURCE_INTENT"
       \/ rows[k].state \in Blocked

\* A write the ledger has not read back is that of the live claim, which raised;
\* a live write intent whose writer has not raised still has its payment.
WriterAccounts ==
  \A k \in Keys :
    /\ known[k] <= written[k]
    /\ written[k] <= paid[k]
    /\ written[k] > known[k] =>
         \/ stopped
         \/ /\ rows[k].state = "CLAIMED"
            /\ rows[k].phase = "WRITE_INTENT"
            /\ LiveClaim(k) \in uncertain
    /\ /\ rows[k].state = "CLAIMED"
       /\ rows[k].phase = "WRITE_INTENT"
       /\ LiveClaim(k) \notin uncertain
       => written[k] < paid[k]

(* The effect accounting of the ledger: how receipts, phases, raised writers and
   the histories of external effects hang together in every reachable state. *)
EffectInv ==
  /\ SingleWriter
  /\ IntentsAreHeld
  /\ SourceCallLeavesATrace
  /\ WriterAccounts
-----------------------------------------------------------------------------
(* The inductive invariant behind the lease and dependency invariants above. *)

Filed(k) == {f \in Fences : attempts[k][f].owner # None}

\* One item's row and its attempts: who holds it, under which fence, how many leases.
LeaseAccounts(k) ==
  /\ rows[k].state = "ABSENT" => rows[k] = NoRow
  /\ rows[k].owner # None <=> rows[k].state = "CLAIMED"
  /\ \A f \in Fences :
       attempts[k][f].open <=>
         /\ rows[k].state = "CLAIMED" /\ rows[k].fence = f
         /\ attempts[k][f].owner = rows[k].owner
         /\ attempts[k][f].phase = rows[k].phase
         /\ attempts[k][f].checkpoint = rows[k].checkpoint
  /\ rows[k].state = "CLAIMED" =>
       rows[k].fence \in Fences /\ attempts[k][rows[k].fence].open
  /\ \A f \in Filed(k) : f <= rows[k].fence
  /\ rows[k].fence <= 2 * rows[k].tries
  /\ rows[k].state = "CLAIMED" => rows[k].fence < 2 * rows[k].tries
  /\ Cardinality(Filed(k)) = rows[k].tries
  /\ rows[k].tries <= rows[k].maxAttempts

\* Dependencies name enqueued items.
DependenciesExist == \A k \in Keys : \A d \in rows[k].deps : Exists(k) /\ Exists(d)

(* Leases, attempts and dependencies as claim, finish, stop and recover keep them. *)
LeaseInv ==
  /\ \A k \in Keys : LeaseAccounts(k)
  /\ DependenciesExist
  /\ DependenciesComplete
  /\ DependenciesAcyclic
=============================================================================
