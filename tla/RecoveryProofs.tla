----------------------------- MODULE RecoveryProofs -----------------------------
(* What jobs that are left in the middle leave behind: the admission of a new    *)
(* identity, the unattended rebuild and the document job, for any workers,       *)
(* applications, files, attempts, failures and deaths.                           *)
EXTENDS NewIdentity, HistoricalRebuild, DocumentJob, TLAPS, FiniteSetTheorems,
        WellFoundedInduction

-----------------------------------------------------------------------------
(* The admission of a new identity leaves no application without facts. *)

(* What the two ways of updating a worker do to the table of workers. *)
LEMMA Moves ==
  ASSUME TypeOK, NEW w \in Workers, NEW s \in Stages, Goto(w, s)
  PROVE  /\ worker'[w].pc = s /\ worker'[w].fence = worker[w].fence
         /\ worker'[w].guarded = worker[w].guarded
         /\ worker' \in [Workers -> [pc : Stages, fence : Nat, guarded : BOOLEAN]]
         /\ \A v \in Workers : v # w => worker'[v] = worker[v]
BY DEF TypeOK, Goto

(* Likewise when it leaves. *)
LEMMA Leaves ==
  ASSUME TypeOK, NEW w \in Workers, Leave(w)
  PROVE  /\ worker'[w] = Idle /\ worker'[w].pc = "idle"
         /\ worker' \in [Workers -> [pc : Stages, fence : Nat, guarded : BOOLEAN]]
         /\ \A v \in Workers : v # w => worker'[v] = worker[v]
BY DEF TypeOK, Leave, Idle, Stages

(* A worker moves on, or leaves, and neither the item nor the application changes. *)
LEMMA QuietStep ==
  ASSUME IdentityInv, NEW w \in Workers, ~At(w, "idle"),
         NEW s \in Stages, Goto(w, s) \/ (Leave(w) /\ s = "idle"),
         stopped' \in BOOLEAN, stopped => stopped',
         UNCHANGED <<item, app>>,
         s \in {"known", "finish"} => app # NoApp,
         s \notin {"enter", "facts", "seal"},
         s = "admit" => Owned(w) /\ At(w, "enter"),
         worker[w].pc \in {"facts", "raised"} => s \in {"raised", "idle"}
  PROVE  IdentityInv'
<1>1. /\ worker'[w].pc = s
      /\ s # "idle" => worker'[w].fence = worker[w].fence
      /\ worker' \in [Workers -> [pc : Stages, fence : Nat, guarded : BOOLEAN]]
      /\ \A v \in Workers : v # w => worker'[v] = worker[v]
  BY Moves, Leaves DEF IdentityInv
<1>2. TypeOK'
  BY <1>1 DEF IdentityInv, TypeOK, AppOK, NoApp
<1>3. FencesAreUnique'
  BY <1>1 DEF IdentityInv, FencesAreUnique, At
<1>4. WriterHoldsBarrier'
  BY <1>1 DEF IdentityInv, WriterHoldsBarrier, Current, Owned, At
<1>5. SeenStays'
  BY <1>1 DEF IdentityInv, SeenStays, At, NoApp
<1>6. BareIsHeld'
  BY <1>1 DEF IdentityInv, BareIsHeld, Current, Owned, At
<1>7. CompleteHasFacts'
  BY DEF IdentityInv, CompleteHasFacts
<1>. QED
  BY <1>2, <1>3, <1>4, <1>5, <1>6, <1>7 DEF IdentityInv

(* Whoever owns the claim outside the writer, and is not about to report, has no       *)
(* identity without facts on its hands: that claim would be the admitting worker's.    *)
LEMMA OwnerIsNotBare ==
  ASSUME IdentityInv, NEW w \in Workers, ~At(w, "idle"), ~At(w, "raised"), Owned(w), ~Writing
  PROVE  /\ ~(app.is = "pending" /\ app.facts = 0)
         /\ app # NoApp => app.facts > 0
<1>1. ~(app.is = "pending" /\ app.facts = 0)
  BY DEF IdentityInv, BareIsHeld, Owned, Writing, At
<1>. QED
  BY <1>1 DEF IdentityInv, TypeOK, AppOK, NoApp

(* The owner of the claim writes the item under it and moves on, or leaves. *)
LEMMA OwnedStep ==
  ASSUME IdentityInv, NEW w \in Workers, ~At(w, "idle"), ~At(w, "raised"), Owned(w), ~Writing,
         NEW s \in Stages, Goto(w, s) \/ (Leave(w) /\ s = "idle"),
         UNCHANGED <<stopped, app>>, TypeOK',
         item'.fence = item.fence,
         s \in {"known", "finish"} => app # NoApp,
         s \notin {"admit", "facts", "seal"},
         s = "enter" => item'.phase = "WRITE_INTENT",
         item'.checkpoint = "VERIFIED" => item.checkpoint = "VERIFIED",
         item'.state = "COMPLETE" => app.facts > 0
  PROVE  IdentityInv'
<1>1. /\ worker'[w].pc = s
      /\ s # "idle" => worker'[w].fence = worker[w].fence
      /\ \A v \in Workers : v # w => worker'[v] = worker[v]
  BY Moves, Leaves DEF IdentityInv
<1>2. \A v \in Workers : ~At(v, "idle") /\ worker[v].fence = item.fence => v = w
  BY DEF IdentityInv, FencesAreUnique, Owned, Current
<1>3. FencesAreUnique'
  BY <1>1 DEF IdentityInv, FencesAreUnique, At
<1>4. WriterHoldsBarrier'
  <2>. SUFFICES ASSUME NEW v \in Workers
                PROVE  /\ worker'[v].pc \notin {"admit", "facts", "seal"}
                       /\ worker'[v].pc = "enter" /\ Current(v)' => item'.phase = "WRITE_INTENT"
    BY DEF WriterHoldsBarrier
  <2>1. CASE v = w
    BY <2>1, <1>1
  <2>2. CASE v # w
    BY <2>2, <1>1, <1>2 DEF Writing, Current, At
  <2>. QED
    BY <2>1, <2>2
<1>5. SeenStays'
  BY <1>1 DEF IdentityInv, SeenStays, At, NoApp
<1>6. BareIsHeld'
  BY OwnerIsNotBare DEF BareIsHeld
<1>7. CompleteHasFacts'
  BY DEF CompleteHasFacts
<1>. QED
  BY <1>3, <1>4, <1>5, <1>6, <1>7 DEF IdentityInv

(* Only one worker holds the current claim. *)
LEMMA OneHolder ==
  ASSUME IdentityInv, NEW w \in Workers, ~At(w, "idle"), Current(w)
  PROVE  /\ \A v \in Workers : ~At(v, "idle") /\ worker[v].fence = item.fence => v = w
         /\ worker[w].pc \in {"admit", "facts", "seal"}
              => \A v \in Workers : v # w => worker[v].pc \notin {"admit", "facts", "seal"}
BY DEF IdentityInv, FencesAreUnique, WriterHoldsBarrier, Current, At

(* The ledger starts with an item that nobody holds and an application nobody saw. *)
LEMMA InitIdentity == ASSUME NewIdentityAssumption, Init PROVE IdentityInv
<1>1. TypeOK
  BY DEF Init, TypeOK, Items, AppOK, NoApp, Idle, Stages
<1>. QED
  BY <1>1 DEF Init, IdentityInv, FencesAreUnique, WriterHoldsBarrier, SeenStays, BareIsHeld,
              CompleteHasFacts, Idle, NoApp, At

(* The record of a claim that was just leased. *)
LEMMA ClaimRecord ==
  ASSUME NEW f \in Nat, NEW claim, claim = [Idle EXCEPT !.pc = "leased", !.fence = f]
  PROVE  /\ claim.pc = "leased" /\ claim.fence = f /\ claim.guarded = FALSE
         /\ claim \in [pc : Stages, fence : Nat, guarded : BOOLEAN]
<1>1. Idle \in [pc : Stages, fence : Nat, guarded : BOOLEAN]
  BY DEF Idle, Stages
<1>2. "leased" \in Stages
  BY DEF Stages
<1>3. claim \in [pc : Stages, fence : Nat, guarded : BOOLEAN]
  BY <1>1, <1>2
<1>. QED
  BY <1>3 DEF Idle

(* A lease gives the item a fence that no worker has. *)
LEMMA LeaseKeeps == ASSUME IdentityInv, NEW w \in Workers, Lease(w) PROVE IdentityInv'
<1>. DEFINE claim == [Idle EXCEPT !.pc = "leased", !.fence = item.fence + 1]
<1>b. item \in Items /\ item.tries + 1 \in Nat /\ item.fence + 1 \in Nat
  BY DEF IdentityInv, TypeOK, Items
<1>c. worker' = [worker EXCEPT ![w] = claim]
  BY DEF Lease
<1>d. worker \in [Workers -> [pc : Stages, fence : Nat, guarded : BOOLEAN]]
  BY DEF IdentityInv, TypeOK
<1>1. /\ worker'[w].pc = "leased" /\ worker'[w].fence = item.fence + 1
      /\ \A v \in Workers : v # w => worker'[v] = worker[v]
      /\ worker' \in [Workers -> [pc : Stages, fence : Nat, guarded : BOOLEAN]]
  <2>1. /\ claim.pc = "leased" /\ claim.fence = item.fence + 1
        /\ claim \in [pc : Stages, fence : Nat, guarded : BOOLEAN]
    BY <1>b, ClaimRecord
  <2>. HIDE DEF claim
  <2>. QED
    BY <2>1, <1>c, <1>d
<1>2. /\ item' = [item EXCEPT !.state = "CLAIMED", !.phase = "CLAIMED", !.lapsed = FALSE,
                              !.tries = @ + 1, !.fence = @ + 1]
      /\ UNCHANGED <<stopped, app>> /\ ~stopped /\ ~Writing
      /\ item.state \in {"QUEUED", "DEFERRED"}
  BY DEF Lease
<1>3. TypeOK'
  <2>1. item' \in Items
    BY <1>2, <1>b DEF Items
  <2>2. stopped' \in BOOLEAN /\ AppOK'
    BY <1>2 DEF IdentityInv, TypeOK, AppOK, NoApp
  <2>. QED
    BY <1>1, <2>1, <2>2 DEF TypeOK
<1>4. item'.fence = item.fence + 1 /\ item.fence \in Nat
  BY <1>2 DEF IdentityInv, TypeOK, Items
<1>5. \A v \in Workers : ~At(v, "idle") => worker[v].fence \in Nat /\ worker[v].fence <= item.fence
  BY DEF IdentityInv, TypeOK, FencesAreUnique
<1>6. FencesAreUnique'
  BY <1>1, <1>4, <1>5 DEF IdentityInv, FencesAreUnique, At
<1>7. WriterHoldsBarrier'
  BY <1>1, <1>2, <1>4, <1>5 DEF WriterHoldsBarrier, Writing, Current, At
<1>8. SeenStays'
  BY <1>1, <1>2 DEF IdentityInv, TypeOK, SeenStays, At, NoApp
<1>9. BareIsHeld' /\ CompleteHasFacts'
  BY <1>2 DEF IdentityInv, TypeOK, BareIsHeld, CompleteHasFacts
<1>. QED
  BY <1>3, <1>6, <1>7, <1>8, <1>9 DEF IdentityInv

(* A step that takes the claim from its holder, outside the writer, and stops the      *)
(* ledger where the claim was at the write barrier.                                    *)
LEMMA ClaimTaken ==
  ASSUME IdentityInv, ~Writing, item.state = "CLAIMED",
         NEW state \in {"DEFERRED", "SAFETY_BLOCKED", "PERSISTENCE_UNCERTAIN"},
         item'.state = state, item'.fence = item.fence + 1,
         item'.checkpoint = item.checkpoint, UNCHANGED app, TypeOK',
         stopped => stopped', item.phase = "WRITE_INTENT" => stopped',
         worker' = worker \/ \E w \in Workers : Leave(w)
  PROVE  IdentityInv'
<1>1. \A v \in Workers : worker'[v] = worker[v] \/ worker'[v].pc = "idle"
  BY Leaves DEF IdentityInv
<1>2. item.fence \in Nat /\ \A v \in Workers : worker[v].fence \in Nat
  BY DEF IdentityInv, TypeOK, Items
<1>3. FencesAreUnique'
  BY <1>1, <1>2 DEF IdentityInv, FencesAreUnique, At
<1>4. WriterHoldsBarrier'
  BY <1>1 DEF WriterHoldsBarrier, Writing, Current, At
<1>5. SeenStays'
  BY <1>1 DEF IdentityInv, SeenStays, At, NoApp
<1>6. BareIsHeld' /\ CompleteHasFacts'
  BY DEF IdentityInv, BareIsHeld, CompleteHasFacts
<1>. QED
  BY <1>3, <1>4, <1>5, <1>6 DEF IdentityInv

(* The lease runs out: nothing but the deadline changes. *)
LEMMA LapseKeeps == ASSUME IdentityInv, LeaseLapses PROVE IdentityInv'
<1>1. /\ item' = [item EXCEPT !.lapsed = TRUE] /\ UNCHANGED <<stopped, app, worker>>
      /\ item \in Items
  BY DEF LeaseLapses, IdentityInv, TypeOK
<1>2. /\ item' \in Items /\ item'.state = item.state /\ item'.phase = item.phase
      /\ item'.fence = item.fence /\ item'.checkpoint = item.checkpoint
  BY <1>1 DEF Items
<1>3. TypeOK' /\ FencesAreUnique'
  BY <1>1, <1>2 DEF IdentityInv, TypeOK, AppOK, NoApp, FencesAreUnique, At
<1>4. WriterHoldsBarrier' /\ BareIsHeld'
  BY <1>1, <1>2 DEF IdentityInv, WriterHoldsBarrier, BareIsHeld, Current, At
<1>5. SeenStays' /\ CompleteHasFacts'
  BY <1>1, <1>2 DEF IdentityInv, SeenStays, CompleteHasFacts, At, NoApp
<1>. QED
  BY <1>3, <1>4, <1>5 DEF IdentityInv

(* Recovery takes the claim, and stops the ledger unless the claim was idle. *)
LEMMA RecoverKeeps ==
  ASSUME IdentityInv, NEW closed \in BOOLEAN, Recover(closed) PROVE IdentityInv'
<1>. DEFINE state == Abandoned(closed)
<1>1. /\ state \in {"DEFERRED", "SAFETY_BLOCKED", "PERSISTENCE_UNCERTAIN"}
      /\ item.phase = "WRITE_INTENT" => state # "DEFERRED"
  BY DEF Abandoned
<1>2. /\ item' = [item EXCEPT !.state = state, !.phase = "RECOVERED", !.fence = @ + 1]
      /\ stopped' = (stopped \/ state # "DEFERRED")
      /\ UNCHANGED <<app, worker>> /\ ~Writing /\ item.state = "CLAIMED"
  BY DEF Recover
<1>. HIDE DEF state
<1>3. item \in Items /\ stopped \in BOOLEAN /\ item.fence + 1 \in Nat
  BY DEF IdentityInv, TypeOK, Items
<1>4. /\ item' \in Items /\ item'.state = state /\ item'.fence = item.fence + 1
      /\ item'.checkpoint = item.checkpoint
  BY <1>1, <1>2, <1>3 DEF Items
<1>5. TypeOK'
  BY <1>2, <1>3, <1>4 DEF IdentityInv, TypeOK, AppOK, NoApp
<1>6. /\ stopped => stopped'
      /\ item.phase = "WRITE_INTENT" => stopped'
      /\ worker' = worker /\ app' = app
  BY <1>1, <1>2
<1>. QED
  BY <1>1, <1>2, <1>4, <1>5, <1>6, ClaimTaken

(* The handler of an effect: it takes the claim when it could report, else it leaves. *)
LEMMA ReportKeeps ==
  ASSUME IdentityInv, NEW w \in Workers, NEW reported \in BOOLEAN, Report(w, reported)
  PROVE  IdentityInv'
<1>1. /\ At(w, "raised") /\ ~Writing /\ Leave(w) /\ app' = app
      /\ stopped' = (stopped \/ reported \/ worker[w].guarded)
  BY DEF Report
<1>2. /\ item \in Items /\ stopped \in BOOLEAN /\ worker[w].guarded \in BOOLEAN
      /\ worker' \in [Workers -> [pc : Stages, fence : Nat, guarded : BOOLEAN]]
  BY <1>1, Leaves DEF IdentityInv, TypeOK
<1>3. stopped' \in BOOLEAN /\ (stopped => stopped') /\ (reported => stopped')
  BY <1>1, <1>2
<1>4. CASE reported /\ Current(w)
  <2>1. /\ item' = [item EXCEPT !.state = "PERSISTENCE_UNCERTAIN", !.fence = @ + 1]
        /\ item.state = "CLAIMED"
    BY <1>4 DEF Report, Current
  <2>2. /\ item' \in Items /\ item'.state = "PERSISTENCE_UNCERTAIN"
        /\ item'.fence = item.fence + 1 /\ item'.checkpoint = item.checkpoint
    <3>1. item.fence + 1 \in Nat
      BY <1>2 DEF Items
    <3>. QED
      BY <2>1, <1>2, <3>1 DEF Items
  <2>3. TypeOK'
    BY <2>2, <1>1, <1>2, <1>3 DEF IdentityInv, TypeOK, AppOK, NoApp
  <2>. QED
    BY <1>1, <1>3, <1>4, <2>1, <2>2, <2>3, ClaimTaken
<1>5. CASE ~(reported /\ Current(w))
  <2>1. item' = item
    BY <1>5 DEF Report
  <2>2. "idle" \in Stages /\ ~At(w, "idle")
    BY <1>1 DEF Stages, At
  <2>. QED
    BY <1>1, <1>3, <2>1, <2>2, QuietStep DEF At
<1>. QED
  BY <1>4, <1>5

(* The worker in the writer writes the item under the claim it still holds, and goes   *)
(* on to finish or to raise: it was not the one with an identity without facts.        *)
LEMMA SealedStep ==
  ASSUME IdentityInv, NEW w \in Workers, At(w, "admit") \/ At(w, "seal"),
         NEW checkpoint \in {"KNOWN", "VERIFIED"}, Sealed(w, checkpoint),
         app # NoApp, checkpoint = "VERIFIED" => app.facts > 0, UNCHANGED <<stopped, app>>
  PROVE  IdentityInv'
<1>1. PICK s \in {"finish", "raised"} : Goto(w, s)
  BY DEF Sealed
<1>2. /\ s \in Stages /\ worker'[w].pc = s /\ worker'[w].fence = worker[w].fence
      /\ worker' \in [Workers -> [pc : Stages, fence : Nat, guarded : BOOLEAN]]
      /\ \A v \in Workers : v # w => worker'[v] = worker[v]
  <2>1. s \in Stages
    BY DEF Stages
  <2>. QED
    BY <2>1, <1>1, Moves DEF IdentityInv
<1>3. item \in Items /\ app.facts \in Nat /\ Current(w) /\ ~At(w, "idle")
  BY DEF IdentityInv, TypeOK, AppOK, WriterHoldsBarrier, At
<1>4. /\ item' \in Items /\ item'.state = item.state /\ item'.fence = item.fence
      /\ item'.checkpoint = checkpoint
  BY <1>3 DEF Sealed, Items
<1>5. TypeOK'
  BY <1>2, <1>4 DEF IdentityInv, TypeOK, AppOK, NoApp
<1>6. /\ \A v \in Workers : ~At(v, "idle") /\ worker[v].fence = item.fence => v = w
      /\ \A v \in Workers : v # w => worker[v].pc \notin {"admit", "facts", "seal"}
  BY <1>3, OneHolder DEF At
<1>7. FencesAreUnique'
  BY <1>2, <1>4 DEF IdentityInv, FencesAreUnique, At
<1>8. WriterHoldsBarrier'
  BY <1>2, <1>4, <1>6 DEF WriterHoldsBarrier, Current, At
<1>9. SeenStays'
  BY <1>2, <1>4 DEF IdentityInv, SeenStays, At, NoApp
<1>10. ~(app.is = "pending" /\ app.facts = 0 /\ ~stopped)
  BY <1>3 DEF IdentityInv, BareIsHeld, At
<1>11. BareIsHeld' /\ CompleteHasFacts'
  BY <1>4, <1>10 DEF IdentityInv, BareIsHeld, CompleteHasFacts
<1>. QED
  BY <1>5, <1>7, <1>8, <1>9, <1>11 DEF IdentityInv

(* The identity is inserted: it is without facts, and its claim is the current one. *)
LEMMA InsertKeeps ==
  ASSUME IdentityInv, NEW w \in Workers, At(w, "admit"), app = NoApp,
         app' = [is |-> "pending", facts |-> 0],
         NEW s \in {"facts", "raised"}, Goto(w, s), UNCHANGED <<stopped, item>>
  PROVE  IdentityInv'
<1>1. s \in Stages
  BY DEF Stages
<1>2. /\ worker'[w].pc = s /\ worker'[w].fence = worker[w].fence
      /\ worker' \in [Workers -> [pc : Stages, fence : Nat, guarded : BOOLEAN]]
      /\ \A v \in Workers : v # w => worker'[v] = worker[v]
  BY <1>1, Moves DEF IdentityInv
<1>3. /\ Current(w) /\ item.phase = "WRITE_INTENT" /\ ~At(w, "idle")
      /\ \A v \in Workers : ~At(v, "idle") /\ worker[v].fence = item.fence => v = w
  <2>1. Current(w) /\ item.phase = "WRITE_INTENT" /\ ~At(w, "idle")
    BY DEF IdentityInv, WriterHoldsBarrier, At
  <2>. QED
    BY <2>1, OneHolder
<1>4. /\ app'.is = "pending" /\ app'.facts = 0 /\ app' # NoApp
  BY DEF NoApp
<1>5. TypeOK'
  BY <1>2, <1>4 DEF IdentityInv, TypeOK, AppOK
<1>6. FencesAreUnique'
  BY <1>2 DEF IdentityInv, FencesAreUnique, At
<1>7. WriterHoldsBarrier'
  BY <1>2, <1>3 DEF IdentityInv, WriterHoldsBarrier, Current, At
<1>8. ~(app.facts > 0)
  BY DEF NoApp
<1>9. SeenStays'
  BY <1>2, <1>4, <1>8 DEF IdentityInv, SeenStays, At
<1>10. BareIsHeld'
  BY <1>2, <1>3 DEF BareIsHeld, Current, At
<1>11. CompleteHasFacts'
  BY <1>8 DEF IdentityInv, CompleteHasFacts
<1>. QED
  BY <1>5, <1>6, <1>7, <1>9, <1>10, <1>11 DEF IdentityInv

(* Facts are added to the application, by whoever adds them; the worker that may move  *)
(* is the one in the writer.                                                           *)
LEMMA FactsArrive ==
  ASSUME IdentityInv, UNCHANGED <<stopped, item>>, AppOK', app'.facts > 0, app' # NoApp,
         NEW s \in {"seal", "raised"},
         worker' = worker \/ \E w \in Workers : At(w, "facts") /\ Goto(w, s)
  PROVE  IdentityInv'
<1>1. /\ worker' \in [Workers -> [pc : Stages, fence : Nat, guarded : BOOLEAN]]
      /\ \A v \in Workers :
           /\ worker'[v].fence = worker[v].fence
           /\ worker'[v].pc = worker[v].pc \/ (worker[v].pc = "facts" /\ worker'[v].pc = s)
  <2>1. s \in Stages
    BY DEF Stages
  <2>2. CASE worker' = worker
    BY <2>2 DEF IdentityInv, TypeOK
  <2>3. CASE \E w \in Workers : At(w, "facts") /\ Goto(w, s)
    <3>1. PICK w \in Workers : At(w, "facts") /\ Goto(w, s)
      BY <2>3
    <3>. QED
      BY <2>1, <3>1, Moves DEF IdentityInv, At
  <2>. QED
    BY <2>2, <2>3
<1>2. TypeOK'
  BY <1>1 DEF IdentityInv, TypeOK
<1>3. FencesAreUnique'
  BY <1>1 DEF IdentityInv, FencesAreUnique, At
<1>4. WriterHoldsBarrier'
  BY <1>1 DEF IdentityInv, WriterHoldsBarrier, Current
<1>5. SeenStays' /\ CompleteHasFacts'
  BY DEF SeenStays, CompleteHasFacts
<1>6. BareIsHeld'
  BY DEF BareIsHeld, IdentityInv, TypeOK, AppOK, NoApp
<1>. QED
  BY <1>2, <1>3, <1>4, <1>5, <1>6 DEF IdentityInv

(* The weekly scrape and the refresh of another item add facts. *)
LEMMA OthersKeep ==
  ASSUME NewIdentityAssumption, IdentityInv, Scrape \/ Refresh PROVE IdentityInv'
<1>1. /\ UNCHANGED <<stopped, item, worker>> /\ app.facts \in Nat
      /\ \/ app' = [is |-> "scraped", facts |-> app.facts + 1]
         \/ app' = [app EXCEPT !.facts = @ + 1] /\ app # NoApp
  BY DEF Scrape, Refresh, IdentityInv, TypeOK, AppOK, NoApp, NewIdentityAssumption
<1>2. app.facts + 1 \in Nat /\ app.facts + 1 > 0
  BY <1>1
<1>3. AppOK' /\ app'.facts > 0 /\ app' # NoApp
  <2>1. CASE app' = [is |-> "scraped", facts |-> app.facts + 1]
    BY <2>1, <1>2 DEF AppOK, NoApp
  <2>2. CASE app' = [app EXCEPT !.facts = @ + 1] /\ app # NoApp
    BY <2>2, <1>2 DEF IdentityInv, TypeOK, AppOK, NoApp
  <2>. QED
    BY <1>1, <2>1, <2>2
<1>. QED
  BY <1>1, <1>3, FactsArrive

(* The shared writer commits the facts of the identity that its worker admitted. *)
LEMMA WriteFactsKeeps ==
  ASSUME NewIdentityAssumption, IdentityInv, NEW w \in Workers, WriteFacts(w)
  PROVE  IdentityInv'
<1>1. PICK s \in {"seal", "raised"} : Goto(w, s)
  BY DEF WriteFacts
<1>2. /\ app # NoApp /\ MaxFacts + 1 \in Nat /\ MaxFacts + 1 > 0
      /\ app' = [app EXCEPT !.facts = MaxFacts + 1]
      /\ At(w, "facts") /\ UNCHANGED <<stopped, item>>
  BY DEF WriteFacts, IdentityInv, SeenStays, At, NewIdentityAssumption
<1>3. AppOK' /\ app'.facts > 0 /\ app' # NoApp
  BY <1>2 DEF IdentityInv, TypeOK, AppOK, NoApp
<1>. QED
  BY <1>1, <1>2, <1>3, FactsArrive

(* The writes of the owner outside the writer: reservations, receipts and outcomes. *)
LEMMA OwnedKeeps ==
  ASSUME IdentityInv, NEW w \in Workers,
         \/ ReserveSource(w) \/ ReaderReturns(w) \/ AlreadyKnown(w) \/ FactsWithheld(w)
         \/ Finish(w) \/ Block(w) \/ ReserveWrite(w)
  PROVE  IdentityInv'
<1>. USE DEF IdentityInv
<1>1. item \in Items /\ TypeOK
  BY DEF TypeOK
<1>2. \A s \in {"look", "finish", "block", "enter", "idle"} : s \in Stages
  BY DEF Stages
<1>3. CASE ReserveSource(w)
  <2>1. /\ At(w, "leased") /\ ~Writing /\ Owned(w) /\ UNCHANGED <<stopped, app>>
        /\ item' = [item EXCEPT !.phase = "SOURCE_INTENT"]
        /\ worker' = [worker EXCEPT ![w].pc = "reading", ![w].guarded = TRUE]
    BY <1>3 DEF ReserveSource
  <2>2. /\ worker'[w].pc = "reading" /\ worker'[w].fence = worker[w].fence
        /\ worker' \in [Workers -> [pc : Stages, fence : Nat, guarded : BOOLEAN]]
        /\ \A v \in Workers : v # w => worker'[v] = worker[v]
    BY <2>1, <1>1 DEF TypeOK, Stages
  <2>3. /\ item' \in Items /\ item'.state = item.state /\ item'.fence = item.fence
        /\ item'.checkpoint = item.checkpoint
    BY <2>1, <1>1 DEF Items
  <2>4. TypeOK' /\ FencesAreUnique'
    BY <2>1, <2>2, <2>3 DEF TypeOK, AppOK, NoApp, FencesAreUnique, At
  <2>5. \A v \in Workers : ~At(v, "idle") /\ worker[v].fence = item.fence => v = w
    BY <2>1, OneHolder DEF Owned, At
  <2>6. WriterHoldsBarrier' /\ SeenStays'
    <3>1. SeenStays'
      BY <2>1, <2>2, <2>3 DEF SeenStays, At, NoApp
    <3>2. WriterHoldsBarrier'
      BY <2>1, <2>2, <2>3, <2>5 DEF WriterHoldsBarrier, Writing, Current, At
    <3>. QED
      BY <3>1, <3>2
  <2>7. BareIsHeld' /\ CompleteHasFacts'
    BY <2>1, <2>3, OwnerIsNotBare DEF BareIsHeld, CompleteHasFacts, At
  <2>. QED
    BY <2>4, <2>6, <2>7
<1>4. CASE ReaderReturns(w)
  <2>1. /\ At(w, "reading") /\ ~Writing /\ Owned(w) /\ UNCHANGED <<stopped, app>>
        /\ Goto(w, "look") /\ item' = [item EXCEPT !.checkpoint = "DETAIL",
                                                  !.phase = "CHECKPOINTED"]
    BY <1>4 DEF ReaderReturns
  <2>2. /\ item' \in Items /\ item'.state = item.state /\ item'.fence = item.fence
        /\ item'.checkpoint = "DETAIL"
    BY <2>1, <1>1 DEF Items
  <2>3. TypeOK'
    BY <2>1, <2>2, <1>1, <1>2, Moves DEF TypeOK, AppOK, NoApp
  <2>4. item.state = "CLAIMED"
    BY <2>1 DEF Owned, Current
  <2>. QED
    BY <2>1, <2>2, <2>3, <2>4, <1>2, OwnedStep DEF At
<1>5. ASSUME NEW outcome \in {"KNOWN", "WITHHELD"}, NEW next \in {"finish", "block"},
             At(w, "known") \/ At(w, "withhold"), Note(w, outcome, next),
             next = "finish" => At(w, "known")
      PROVE  IdentityInv'
  <2>1. /\ ~Writing /\ Owned(w) /\ UNCHANGED <<stopped, app>> /\ Goto(w, next)
    BY <1>5 DEF Note
  <2>2. /\ item' \in Items /\ item'.state = item.state /\ item'.fence = item.fence
        /\ item'.checkpoint \in {"DETAIL", outcome}
    BY <1>1, <1>5 DEF Items, Note
  <2>3. TypeOK'
    BY <2>1, <2>2, <1>1, <1>2, Moves DEF TypeOK, AppOK, NoApp
  <2>4. item.state = "CLAIMED" /\ (next = "finish" => app # NoApp)
    BY <2>1, <1>5 DEF Owned, Current, SeenStays, At
  <2>. QED
    BY <2>1, <2>2, <2>3, <2>4, <1>2, <1>5, OwnedStep DEF At
<1>6. CASE AlreadyKnown(w) \/ FactsWithheld(w)
  BY <1>5, <1>6 DEF AlreadyKnown, FactsWithheld
<1>7. ASSUME NEW pc \in {"finish", "block"}, NEW state \in {"COMPLETE", "UNSUPPORTED_CONTRACT"},
             End(w, pc, state), state = "COMPLETE" => pc = "finish"
      PROVE  IdentityInv'
  <2>1. /\ At(w, pc) /\ ~Writing /\ Owned(w) /\ Leave(w) /\ UNCHANGED <<stopped, app>>
        /\ item' = [item EXCEPT !.state = state, !.phase = "FINISHED"]
    BY <1>7 DEF End
  <2>2. /\ item' \in Items /\ item'.state = state /\ item'.fence = item.fence
        /\ item'.checkpoint = item.checkpoint
    BY <2>1, <1>1 DEF Items
  <2>3. TypeOK'
    BY <2>1, <2>2, <1>1, Leaves DEF TypeOK, AppOK, NoApp
  <2>4. ~At(w, "idle") /\ ~At(w, "raised")
    BY <2>1 DEF At
  <2>5. state = "COMPLETE" => app.facts > 0
    BY <2>1, <2>4, <1>7, OwnerIsNotBare DEF SeenStays, At
  <2>. QED
    BY <2>1, <2>2, <2>3, <2>4, <2>5, <1>2, OwnedStep
<1>8. CASE Finish(w) \/ Block(w)
  BY <1>7, <1>8 DEF Finish, Block
<1>9. CASE ReserveWrite(w)
  <2>1. /\ At(w, "reserve") /\ ~Writing /\ Owned(w) /\ UNCHANGED <<stopped, app>>
        /\ Goto(w, "enter") /\ item' = [item EXCEPT !.phase = "WRITE_INTENT"]
    BY <1>9 DEF ReserveWrite
  <2>2. /\ item' \in Items /\ item'.state = item.state /\ item'.fence = item.fence
        /\ item'.checkpoint = item.checkpoint /\ item'.phase = "WRITE_INTENT"
    BY <2>1, <1>1 DEF Items
  <2>3. TypeOK'
    BY <2>1, <2>2, <1>1, <1>2, Moves DEF TypeOK, AppOK, NoApp
  <2>4. item.state = "CLAIMED"
    BY <2>1 DEF Owned, Current
  <2>. QED
    BY <2>1, <2>2, <2>3, <2>4, <1>2, OwnedStep DEF At
<1>. QED
  BY <1>3, <1>4, <1>6, <1>8, <1>9

(* The steps of a worker that write neither the item nor the application. *)
LEMMA QuietKeeps ==
  ASSUME IdentityInv, NEW w \in Workers,
         \/ Retained(w) \/ Resume(w) \/ Refused(w) \/ Look(w) \/ EnterWriter(w)
         \/ EffectRaises(w) \/ Die(w)
  PROVE  IdentityInv'
<1>1. \A s \in {"look", "finish", "known", "withhold", "reserve", "admit", "raised", "idle"} :
        s \in Stages
  BY DEF Stages
<1>2. stopped \in BOOLEAN /\ worker[w].guarded \in BOOLEAN
  BY DEF IdentityInv, TypeOK
<1>3. ASSUME Leave(w), ~At(w, "idle"), UNCHANGED <<item, app>>,
             stopped' \in BOOLEAN, stopped => stopped'
      PROVE  IdentityInv'
  BY <1>1, <1>3, QuietStep
<1>4. CASE Retained(w)
  BY <1>1, <1>2, <1>4, QuietStep DEF Retained, At
<1>5. CASE Resume(w)
  <2>1. CASE app.facts = item.readback
    <3>1. /\ At(w, "leased") /\ Goto(w, "finish") /\ UNCHANGED <<stopped, item, app>>
          /\ item.checkpoint = "VERIFIED"
      BY <1>5, <2>1 DEF Resume
    <3>2. app # NoApp
      BY <3>1 DEF IdentityInv, SeenStays, NoApp
    <3>. QED
      BY <1>1, <1>2, <3>1, <3>2, QuietStep DEF At
  <2>2. CASE app.facts # item.readback
    <3>1. /\ At(w, "leased") /\ Leave(w) /\ stopped' = TRUE /\ UNCHANGED <<item, app>>
      BY <1>5, <2>2 DEF Resume
    <3>. QED
      BY <3>1, <1>3 DEF At
  <2>. QED
    BY <2>1, <2>2
<1>6. CASE Refused(w)
  <2>1. Leave(w) /\ UNCHANGED <<item, app>> /\ stopped' = (stopped \/ worker[w].guarded)
    BY <1>6 DEF Refused, Raise
  <2>2. ~At(w, "idle")
    BY <1>6 DEF Refused, At
  <2>3. stopped' \in BOOLEAN /\ (stopped => stopped')
    BY <2>1, <1>2
  <2>. QED
    BY <2>1, <2>2, <2>3, <1>3
<1>7. CASE Look(w)
  <2>1. PICK s \in {"known", "withhold", "reserve"} :
           Goto(w, s) /\ (s = "known" => app # NoApp)
    BY <1>7 DEF Look
  <2>2. At(w, "look") /\ UNCHANGED <<stopped, item, app>>
    BY <1>7 DEF Look
  <2>. QED
    BY <1>1, <1>2, <2>1, <2>2, QuietStep DEF At
<1>8. CASE EnterWriter(w)
  BY <1>1, <1>2, <1>8, QuietStep DEF EnterWriter, At
<1>9. CASE EffectRaises(w)
  BY <1>1, <1>2, <1>9, QuietStep DEF EffectRaises, At
<1>10. CASE Die(w)
  BY <1>2, <1>3, <1>10 DEF Die
<1>. QED
  BY <1>4, <1>5, <1>6, <1>7, <1>8, <1>9, <1>10

(* The two ends of the admission: the committed insert, or the winner left alone. *)
LEMMA WriterKeeps ==
  ASSUME IdentityInv, NEW w \in Workers, Admit(w) \/ Seal(w) PROVE IdentityInv'
<1>1. CASE Admit(w) /\ app = NoApp
  BY <1>1, InsertKeeps DEF Admit
<1>2. CASE Admit(w) /\ app # NoApp
  BY <1>2, SealedStep DEF Admit
<1>3. CASE Seal(w)
  <2>1. app.facts > 0 /\ app # NoApp
    BY <1>3 DEF Seal, IdentityInv, SeenStays, NoApp
  <2>. QED
    BY <1>3, <2>1, SealedStep DEF Seal
<1>. QED
  BY <1>1, <1>2, <1>3

(* Every step of the specification keeps the inductive invariant. *)
LEMMA NextIdentity ==
  ASSUME NewIdentityAssumption, IdentityInv, [Next]_vars PROVE IdentityInv'
<1>1. CASE LeaseLapses
  BY <1>1, LapseKeeps
<1>2. CASE Scrape \/ Refresh
  BY <1>2, OthersKeep
<1>3. CASE \E closed \in BOOLEAN : Recover(closed)
  BY <1>3, RecoverKeeps
<1>4. ASSUME NEW w \in Workers, Lease(w) PROVE IdentityInv'
  BY <1>4, LeaseKeeps
<1>5. ASSUME NEW w \in Workers,
             \/ ReserveSource(w) \/ ReaderReturns(w) \/ AlreadyKnown(w) \/ FactsWithheld(w)
             \/ Finish(w) \/ Block(w) \/ ReserveWrite(w)
      PROVE  IdentityInv'
  BY <1>5, OwnedKeeps
<1>6. ASSUME NEW w \in Workers,
             \/ Retained(w) \/ Resume(w) \/ Refused(w) \/ Look(w) \/ EnterWriter(w)
             \/ EffectRaises(w) \/ Die(w)
      PROVE  IdentityInv'
  BY <1>6, QuietKeeps
<1>7. ASSUME NEW w \in Workers, Admit(w) \/ Seal(w) \/ WriteFacts(w) PROVE IdentityInv'
  BY <1>7, WriterKeeps, WriteFactsKeeps
<1>8. ASSUME NEW w \in Workers, NEW reported \in BOOLEAN, Report(w, reported)
      PROVE  IdentityInv'
  BY <1>8, ReportKeeps
<1>9. CASE UNCHANGED vars
  <2>1. UNCHANGED stopped /\ UNCHANGED item /\ UNCHANGED app /\ UNCHANGED worker
    BY <1>9 DEF vars
  <2>2. TypeOK' /\ FencesAreUnique'
    BY <2>1 DEF IdentityInv, TypeOK, AppOK, NoApp, FencesAreUnique, At
  <2>3. WriterHoldsBarrier' /\ BareIsHeld'
    BY <2>1 DEF IdentityInv, WriterHoldsBarrier, BareIsHeld, Current, At
  <2>4. SeenStays' /\ CompleteHasFacts'
    BY <2>1 DEF IdentityInv, SeenStays, CompleteHasFacts, At, NoApp
  <2>. QED
    BY <2>2, <2>3, <2>4 DEF IdentityInv
<1>. QED
  BY <1>1, <1>2, <1>3, <1>4, <1>5, <1>6, <1>7, <1>8, <1>9 DEF Next

(* Identity, facts, barrier and claims hang together in every reachable state          *)
(* (fenced_effect, execute and recover).                                               *)
THEOREM AdmissionKeepsTogether == Spec => []IdentityInv
<1>1. Init => IdentityInv
  BY InitIdentity, NewIdentityAssumption
<1>2. IdentityInv /\ [Next]_vars => IdentityInv'
  BY NextIdentity, NewIdentityAssumption
<1>. QED
  BY <1>1, <1>2, PTL DEF Spec

(* An admitted identity gets its facts, or the ledger knows that it lacks them: no     *)
(* death, expiry, retry, lost acknowledgement or scrape leaves an identity without     *)
(* facts behind a finished item, or outside the barrier of a running ledger.           *)
THEOREM AdmittedHasFacts == Spec => []IdentityHasFacts
<1>1. IdentityInv => IdentityHasFacts
  <2>1. IdentityInv => BareIdentityIsGuarded
    BY DEF IdentityInv, TypeOK, BareIsHeld, BareIdentityIsGuarded
  <2>. QED
    BY <2>1 DEF IdentityInv, IdentityHasFacts
<1>. QED
  BY <1>1, AdmissionKeepsTogether, PTL

-----------------------------------------------------------------------------
(* The unattended rebuild. *)

(* Of natural numbers there is a least. *)
LEMMA LeastNatural ==
  ASSUME NEW T, T \subseteq Nat, T # {}
  PROVE  \E x \in T : \A y \in T : x <= y
<1>. DEFINE R == {ss \in Nat \X Nat : ss[1] < ss[2]}
<1>1. IsWellFoundedOn(R, Nat)
  BY NatLessThanWellFounded, Zenon DEF OpToRel
<1>2. PICK x \in T : \A y \in T : ~ (<<y, x>> \in R)
  <2>. HIDE DEF R
  <2>. QED BY <1>1, WFMin
<1>3. ASSUME NEW y \in T PROVE x <= y
  <2>1. <<y, x>> \notin R
    BY <1>2
  <2>2. <<y, x>> \in Nat \X Nat
    OBVIOUS
  <2>. QED BY <2>1, <2>2
<1>. QED BY <1>3

(* A full or short batch of a number of applications is not empty (candidates' limit). *)
LEMMA BatchIsEmptyWhenNoneIsLeft ==
  ASSUME NEW S, S \subseteq Nat, FirstOf(S) = {}, RebuildAssumption PROVE S = {}
<1>1. SUFFICES ASSUME S # {} PROVE FALSE
  OBVIOUS
<1>2. PICK a \in S : \A b \in S : a <= b
  BY <1>1, LeastNatural
<1>3. {b \in S : b < a} = {}
  <2>1. \A b \in S : ~ (b < a)
    BY <1>2
  <2>. QED BY <2>1
<1>4. Cardinality({b \in S : b < a}) < BatchSize
  BY <1>3, FS_EmptySet DEF RebuildAssumption
<1>. QED
  BY <1>4 DEF FirstOf

(* The job when it is not running. *)
LEMMA NotRunningFields ==
  ASSUME RebuildAssumption, NEW why \in StopReasons
  PROVE  /\ NotRunning(why) \in RunState
         /\ NotRunning(why).stage = "idle" /\ NotRunning(why).stopped = why
         /\ NotRunning(why).todo = {} /\ NotRunning(why).usable = {}
         /\ NotRunning(why).batch = 0 /\ NotRunning(why).answer = {}
<1>1. 0 \in 0..MaxBatches /\ <<>> \in Seq(Outcomes)
  BY DEF RebuildAssumption
<1>. QED
  BY <1>1 DEF NotRunning, RunState

(* One candidate is processed: the batch gets shorter and its results longer. *)
LEMMA ProcessedFields ==
  ASSUME RebuildTypeOK, NEW a \in Apps, NEW outcome \in Outcomes, Processed(a, outcome)
  PROVE  /\ run'.stage = run.stage /\ run'.stopped = run.stopped /\ run'.batch = run.batch
         /\ run'.usable = run.usable /\ run'.before = run.before
         /\ run'.todo = run.todo \ {a} /\ run'.answer = {} /\ Len(run'.results) # 0
         /\ run' \in RunState
         /\ \A i \in DOMAIN run'.results :
              \/ run'.results[i] = outcome
              \/ i \in DOMAIN run.results /\ run'.results[i] = run.results[i]
<1>. DEFINE longer == Append(run.results, outcome)
<1>1. /\ run.results \in Seq(Outcomes) /\ longer \in Seq(Outcomes) /\ Len(longer) # 0
      /\ run.todo \ {a} \in SUBSET Apps /\ {} \in SUBSET Apps
      /\ \A i \in DOMAIN longer :
           longer[i] = outcome \/ (i \in DOMAIN run.results /\ longer[i] = run.results[i])
  <2>1. run.results \in Seq(Outcomes) /\ run.todo \in SUBSET Apps
    BY DEF RebuildTypeOK, RunState
  <2>2. PICK n \in Nat : n = Len(run.results) /\ DOMAIN run.results = 1..n
    BY <2>1
  <2>3. longer \in Seq(Outcomes) /\ Len(longer) = n + 1 /\ DOMAIN longer = 1..(n + 1)
    BY <2>1, <2>2
  <2>4. \A i \in 1..n : longer[i] = run.results[i]
    BY <2>1, <2>2
  <2>5. longer[n + 1] = outcome
    BY <2>1, <2>2
  <2>. HIDE DEF longer
  <2>6. \A i \in 1..(n + 1) : i = n + 1 \/ i \in 1..n
    OBVIOUS
  <2>. QED
    BY <2>1, <2>2, <2>3, <2>4, <2>5, <2>6
<1>2. run' = [run EXCEPT !.todo = run.todo \ {a}, !.answer = {}, !.results = longer]
  BY DEF Processed
<1>. HIDE DEF longer
<1>. QED
  BY <1>1, <1>2 DEF RebuildTypeOK, RunState

(* A fault or a kill more. *)
LEMMA OneMoreIsCounted ==
  ASSUME RebuildTypeOK, NEW what \in {"faults", "kills"}, OneMore(what)
  PROVE  spent' \in [faults : Nat, kills : Nat]
<1>1. spent \in [faults : Nat, kills : Nat]
  BY DEF RebuildTypeOK
<1>2. CASE what = "faults"
  <2>1. spent' = [spent EXCEPT !.faults = spent.faults + 1]
    BY <1>2 DEF OneMore
  <2>. QED BY <1>1, <2>1
<1>3. CASE what = "kills"
  <2>1. spent' = [spent EXCEPT !.kills = spent.kills + 1]
    BY <1>3 DEF OneMore
  <2>. QED BY <1>1, <2>1
<1>. QED BY <1>2, <1>3

(* What the process held when it ended is counted as lost, and nothing else. *)
LEMMA LostIsCounted ==
  ASSUME RebuildInv, AnswerIsLost, UNCHANGED <<rebuilt, paid>>
  PROVE  /\ lost' \in [Apps -> Nat]
         /\ \A a \in Apps : paid'[a] = lost'[a] + (IF a \in rebuilt' THEN 1 ELSE 0)
BY DEF RebuildInv, RebuildTypeOK, PaidIsMarked, BatchIsOfTheRest, AnswerIsLost

(* Nothing is running before the first run. *)
LEMMA RebuildStarts == ASSUME RebuildInit, RebuildAssumption PROVE RebuildInv
<1>1. docs \in [Apps -> SUBSET Categories]
  BY DEF RebuildInit
<1>2. /\ paid \in [Apps -> Nat] /\ lost \in [Apps -> Nat] /\ rebuilt = {}
      /\ spent \in [faults : Nat, kills : Nat]
  BY DEF RebuildInit
<1>3. run = NotRunning("never_run") /\ "never_run" \in StopReasons /\ "never_run" \notin GaveUp
  BY DEF RebuildInit, StopReasons, GaveUp
<1>4. \A a \in Apps : paid[a] = 0 /\ lost[a] = 0
  BY DEF RebuildInit
<1>. QED
  BY <1>1, <1>2, <1>3, <1>4, NotRunningFields
     DEF RebuildInv, RebuildTypeOK, PaidIsMarked, BatchIsOfTheRest, SuccessIsProgress,
         CompletedMeansNoneLeft, GivesUpOnMoreThanOne

(* A run that ends, for whatever reason but those of EndBatch, leaves what is rebuilt alone. *)
LEMMA StoppedKeeps ==
  ASSUME RebuildInv, RebuildAssumption,
         NEW why \in StopReasons \ GaveUp, why # "completed", run' = NotRunning(why),
         spent' \in [faults : Nat, kills : Nat], UNCHANGED <<docs, rebuilt, paid>>,
         AnswerIsLost \/ (run.answer = {} /\ UNCHANGED lost)
  PROVE  RebuildInv'
<1>1. /\ lost' \in [Apps -> Nat]
      /\ \A a \in Apps : paid'[a] = lost'[a] + (IF a \in rebuilt' THEN 1 ELSE 0)
  BY LostIsCounted DEF RebuildInv, RebuildTypeOK, PaidIsMarked
<1>2. /\ run' \in RunState /\ run'.stage = "idle" /\ run'.stopped = why
      /\ run'.todo = {} /\ run'.answer = {}
  BY NotRunningFields
<1>. QED
  BY <1>1, <1>2
     DEF RebuildInv, RebuildTypeOK, PaidIsMarked, BatchIsOfTheRest, SuccessIsProgress,
         CompletedMeansNoneLeft, GivesUpOnMoreThanOne

(* A candidate that is processed and not stored. *)
LEMMA NotStoredKeeps ==
  ASSUME RebuildInv, RebuildAssumption, run.stage = "batch", NEW a \in run.todo,
         NEW outcome \in Outcomes \ {"success"}, Processed(a, outcome),
         spent' \in [faults : Nat, kills : Nat], UNCHANGED <<docs, rebuilt, failures, paid>>,
         AnswerIsLost \/ (run.answer = {} /\ UNCHANGED lost)
  PROVE  RebuildInv'
<1>. USE DEF RebuildInv
<1>1. /\ lost' \in [Apps -> Nat]
      /\ \A b \in Apps : paid'[b] = lost'[b] + (IF b \in rebuilt' THEN 1 ELSE 0)
  BY LostIsCounted DEF RebuildTypeOK, PaidIsMarked
<1>2. a \in Apps /\ run.stopped = "running" /\ "running" \notin GaveUp
  BY DEF RebuildTypeOK, RunState, BatchIsOfTheRest, GaveUp
<1>3. RebuildTypeOK' /\ PaidIsMarked'
  BY <1>1, <1>2, ProcessedFields DEF RebuildTypeOK, PaidIsMarked
<1>4. BatchIsOfTheRest'
  BY <1>2, ProcessedFields DEF BatchIsOfTheRest
<1>5. SuccessIsProgress'
  BY <1>2, ProcessedFields DEF SuccessIsProgress
<1>6. CompletedMeansNoneLeft' /\ GivesUpOnMoreThanOne'
  BY <1>2, ProcessedFields DEF CompletedMeansNoneLeft, GivesUpOnMoreThanOne
<1>. QED BY <1>3, <1>4, <1>5, <1>6

(* Two that differ make a set of two or more. *)
LEMMA TwoOrMore ==
  ASSUME NEW n \in Nat, n >= 2, NEW S \in SUBSET (1..n), 1 \in S, 2 \in S
  PROVE  Cardinality(S) >= 2
<1>1. IsFiniteSet(S) /\ {1, 2} \subseteq S
  <2>1. IsFiniteSet(1..n)
    BY FS_Interval
  <2>. QED BY <2>1, FS_Subset
<1>2. Cardinality({1, 2}) = 2
  <2>1. Cardinality({1}) = 1 /\ IsFiniteSet({1})
    BY FS_Singleton
  <2>2. Cardinality({1} \cup {2}) = Cardinality({1}) + 1
    BY <2>1, FS_AddElement
  <2>3. {1} \cup {2} = {1, 2}
    OBVIOUS
  <2>. QED BY <2>1, <2>2, <2>3
<1>3. Cardinality({1, 2}) <= Cardinality(S) /\ Cardinality(S) \in Nat
  BY <1>1, FS_Subset, FS_CardinalityType
<1>. QED BY <1>2, <1>3

(* The rules after a batch: the job gives up only on more than one attempt that went wrong. *)
LEMMA OneIsNotSystemic ==
  ASSUME RebuildInv, RebuildAssumption, run.stage = "batch", StopReason \in GaveUp,
         StopReason # "consecutive_systemic_failures"
  PROVE  Cardinality({i \in DOMAIN run.results : run.results[i] # "success"}) >= 2
<1>. DEFINE failed == {i \in DOMAIN run.results : run.results[i] = "failed"}
            wrong  == {i \in DOMAIN run.results : run.results[i] # "success"}
<1>1. run.results \in Seq(Outcomes) /\ DOMAIN run.results = 1..Attempted /\ Attempted \in Nat
  BY DEF RebuildInv, RebuildTypeOK, RunState, Attempted
<1>2. /\ IsFiniteSet(wrong) /\ failed \subseteq wrong
      /\ Cardinality(failed) <= Cardinality(wrong)
      /\ Cardinality(failed) \in Nat /\ Cardinality(wrong) \in Nat
  <2>1. IsFiniteSet(1..Attempted)
    <3>1. 1 \in Int /\ Attempted \in Int
      BY <1>1
    <3>. HIDE DEF wrong, failed
    <3>. QED
      BY <3>1, FS_Interval
  <2>2. wrong \subseteq 1..Attempted /\ failed \subseteq wrong
    BY <1>1
  <2>. HIDE DEF wrong, failed
  <2>. QED
    BY <2>1, <2>2, FS_Subset, FS_CardinalityType
<1>3. CASE StopReason = "batch_failure_rate"
  <2>1. Attempted >= RateMin /\ FailedCount * RateStop > Attempted /\ FailedCount = Cardinality(failed)
    BY <1>3 DEF StopReason, FailedCount
  <2>2. FailedCount # 0 /\ FailedCount # 1
    BY <1>1, <2>1 DEF RebuildAssumption
  <2>. QED
    BY <1>2, <2>1, <2>2
<1>4. CASE StopReason = "no_forward_progress"
  <2>1. Attempted >= 2 /\ rebuilt = run.before
    BY <1>4 DEF StopReason, NO_PROGRESS_MIN_ATTEMPTED
  <2>2. 1 \in wrong /\ 2 \in wrong
    BY <1>1, <2>1 DEF RebuildInv, SuccessIsProgress
  <2>3. wrong \in SUBSET (1..Attempted)
    BY <1>1
  <2>. HIDE DEF wrong
  <2>4. Cardinality(wrong) >= 2
    BY <1>1, <2>1, <2>2, <2>3, TwoOrMore
  <2>. QED
    BY <2>4 DEF wrong
<1>. QED
  BY <1>3, <1>4 DEF GaveUp

(* Every step of the rebuild keeps the invariant. *)
LEMMA RebuildKept ==
  ASSUME RebuildInv, RebuildAssumption, [RebuildNext]_rebuildVars PROVE RebuildInv'
<1>. USE DEF RebuildInv
<1>1. CASE StartRun
  <2>1. "running" \in StopReasons \ GaveUp
    BY DEF StopReasons, GaveUp
  <2>2. PICK start \in RunState : /\ start = NotRunning("running") /\ start.answer = {}
                                  /\ start.stopped = "running" /\ start.todo = {}
    BY <2>1, NotRunningFields
  <2>3. run' = [start EXCEPT !.stage = "between"] /\ run.answer = {}
    BY <1>1, <2>2 DEF StartRun, BatchIsOfTheRest
  <2>4. /\ run' \in RunState /\ run'.stage = "between" /\ run'.stopped = "running"
        /\ run'.todo = {} /\ run'.answer = {}
    BY <2>2, <2>3 DEF RunState
  <2>. QED
    BY <1>1, <2>1, <2>3, <2>4
       DEF StartRun, RebuildTypeOK, PaidIsMarked, BatchIsOfTheRest, SuccessIsProgress,
           CompletedMeansNoneLeft, GivesUpOnMoreThanOne
<1>2. CASE StartBatch
  <2>1. FirstOf(_not_yet_rebuilt \cap Usable) \subseteq _not_yet_rebuilt \cap Usable
    BY DEF FirstOf
  <2>2. _not_yet_rebuilt \cap Usable \subseteq Apps /\ Apps \subseteq Nat /\ Usable \subseteq Apps
        /\ _not_yet_rebuilt \cap rebuilt = {}
    BY DEF _not_yet_rebuilt, Usable, RebuildAssumption
  <2>3. FirstOf(_not_yet_rebuilt \cap Usable) = {} => Usable \subseteq rebuilt
    BY <2>2, BatchIsEmptyWhenNoneIsLeft DEF _not_yet_rebuilt
  <2>. DEFINE batch == FirstOf(_not_yet_rebuilt \cap Usable)
  <2>4. /\ batch \in SUBSET Apps /\ batch \cap rebuilt = {} /\ Usable \in SUBSET Apps
        /\ batch = {} => Usable \subseteq rebuilt
    BY <2>1, <2>2, <2>3
  <2>5. run.batch + 1 \in 0..MaxBatches /\ run.answer = {} /\ run \in RunState
        /\ run.stopped = "running" /\ "running" \notin GaveUp /\ rebuilt \in SUBSET Apps
    BY <1>2 DEF StartBatch, RebuildAssumption, RunState, RebuildTypeOK, BatchIsOfTheRest, GaveUp
  <2>6. run' = [run EXCEPT !.stage = "batch", !.batch = run.batch + 1, !.results = <<>>,
                           !.todo = batch, !.usable = Usable, !.before = rebuilt]
    BY <1>2 DEF StartBatch
  <2>. HIDE DEF batch
  <2>7. /\ run'.stage = "batch" /\ run'.stopped = "running" /\ run'.todo = batch
        /\ run'.usable = Usable /\ run'.answer = {} /\ run'.before = rebuilt
        /\ run'.results = <<>>
    BY <2>5, <2>6 DEF RunState
  <2>8. run' \in RunState
    <3>1. <<>> \in Seq(Outcomes)
      OBVIOUS
    <3>. QED
      BY <2>4, <2>5, <2>6, <3>1 DEF RunState
  <2>9. UNCHANGED <<docs, rebuilt, failures, spent, paid, lost>>
    BY <1>2 DEF StartBatch
  <2>10. RebuildTypeOK' /\ PaidIsMarked'
    BY <2>5, <2>7, <2>8, <2>9 DEF RebuildTypeOK, PaidIsMarked
  <2>11. BatchIsOfTheRest' /\ SuccessIsProgress'
    BY <2>4, <2>7, <2>9 DEF BatchIsOfTheRest, SuccessIsProgress
  <2>12. CompletedMeansNoneLeft' /\ GivesUpOnMoreThanOne'
    BY <2>5, <2>7 DEF CompletedMeansNoneLeft, GivesUpOnMoreThanOne
  <2>. QED
    BY <2>10, <2>11, <2>12
<1>3. CASE BatchRaises
  <2>1. "systemic_exception" \in StopReasons \ GaveUp
    BY DEF StopReasons, GaveUp
  <2>. QED
    BY <1>3, <2>1, OneMoreIsCounted, StoppedKeeps DEF BatchRaises
<1>4. CASE Candidate
  <2>1. PICK a \in run.todo :
          HasNoText(a) \/ Answered(a) \/ Unanswered(a) \/ Stored(a) \/ NotStored(a)
    BY <1>4 DEF Candidate
  <2>2. a \in Apps /\ a \notin rebuilt /\ run.stage = "batch" /\ run.stopped = "running"
        /\ "running" \notin GaveUp
    BY <1>4, <2>1 DEF Candidate, RebuildTypeOK, RunState, BatchIsOfTheRest, GaveUp
  <2>3. CASE HasNoText(a)
    <3>1. spent' \in [faults : Nat, kills : Nat]
      BY <2>3 DEF HasNoText, RebuildTypeOK
    <3>. QED
      BY <2>2, <2>3, <3>1, NotStoredKeeps DEF HasNoText, Outcomes
  <2>4. CASE Answered(a)
    <3>1. /\ run' = [run EXCEPT !.answer = {a}] /\ run.answer = {}
          /\ paid' = [paid EXCEPT ![a] = paid[a] + 1]
          /\ UNCHANGED <<docs, rebuilt, failures, spent, lost>>
      BY <2>4 DEF Answered
    <3>2. /\ run' \in RunState /\ run'.answer = {a} /\ run'.stage = run.stage
          /\ run'.stopped = run.stopped /\ run'.todo = run.todo /\ run'.usable = run.usable
          /\ run'.results = run.results /\ run'.before = run.before
      BY <2>2, <3>1 DEF RebuildTypeOK, RunState
    <3>3. RebuildTypeOK'
      BY <2>2, <3>1, <3>2 DEF RebuildTypeOK
    <3>4. PaidIsMarked'
      BY <2>2, <3>1, <3>2 DEF PaidIsMarked, RebuildTypeOK
    <3>. QED
      BY <2>1, <2>2, <3>1, <3>2, <3>3, <3>4
         DEF BatchIsOfTheRest, SuccessIsProgress, CompletedMeansNoneLeft, GivesUpOnMoreThanOne
  <2>5. CASE Unanswered(a)
    <3>1. spent' \in [faults : Nat, kills : Nat]
      BY <2>5, OneMoreIsCounted DEF Unanswered, RebuildTypeOK
    <3>. QED
      BY <2>2, <2>5, <3>1, NotStoredKeeps DEF Unanswered, Outcomes
  <2>6. CASE Stored(a)
    <3>1. /\ a \in run.answer /\ rebuilt' = rebuilt \cup {a}
          /\ UNCHANGED <<docs, failures, paid, lost>>
          /\ spent' \in [faults : Nat, kills : Nat]
      BY <2>6, OneMoreIsCounted DEF Stored, RebuildTypeOK
    <3>2. PICK outcome \in Outcomes : Processed(a, outcome)
      BY <2>6 DEF Stored, Outcomes
    <3>3. run.answer = {a}
      BY <2>6, <3>1 DEF BatchIsOfTheRest
    <3>4. RebuildTypeOK'
      BY <2>2, <3>1, <3>2, ProcessedFields DEF RebuildTypeOK
    <3>5. PaidIsMarked'
      BY <2>2, <3>1, <3>2, <3>3, ProcessedFields DEF PaidIsMarked
    <3>6. BatchIsOfTheRest'
      BY <2>2, <3>1, <3>2, ProcessedFields DEF BatchIsOfTheRest
    <3>7. SuccessIsProgress'
      BY <2>2, <3>1, <3>2, ProcessedFields DEF SuccessIsProgress
    <3>8. CompletedMeansNoneLeft' /\ GivesUpOnMoreThanOne'
      BY <2>2, <3>2, ProcessedFields DEF CompletedMeansNoneLeft, GivesUpOnMoreThanOne
    <3>. QED BY <3>4, <3>5, <3>6, <3>7, <3>8
  <2>7. CASE NotStored(a)
    BY <2>2, <2>7, OneMoreIsCounted, NotStoredKeeps DEF NotStored, Outcomes
  <2>. QED
    BY <2>1, <2>3, <2>4, <2>5, <2>6, <2>7
<1>5. CASE EndBatch
  <2>1. StopReason = "completed" => Attempted = 0 \/ remaining_rebuildable_after = {}
    BY DEF StopReason
  <2>2. StopReason \in StopReasons \cup {"none"} /\ StopReason # "never_run"
    BY DEF StopReason, StopReasons, GaveUp
  <2>3. StopReason = "consecutive_systemic_failures" => failures' >= 2
    BY <1>5 DEF StopReason, EndBatch, RebuildAssumption
  <2>4. /\ run.stage = "batch" /\ run.todo = {} /\ run.answer = {} /\ run \in RunState
        /\ run.stopped = "running" /\ "running" \notin GaveUp
        /\ UNCHANGED <<docs, rebuilt, spent, paid, lost>>
    BY <1>5 DEF EndBatch, RebuildTypeOK, BatchIsOfTheRest, GaveUp
  <2>5. StopReason \in GaveUp /\ StopReason # "consecutive_systemic_failures"
          => Cardinality({i \in DOMAIN run.results : run.results[i] # "success"}) >= 2
    BY <2>4, OneIsNotSystemic
  <2>. HIDE DEF StopReason
  <2>6. CASE StopReason = "none"
    <3>1. run' = [run EXCEPT !.stage = "between"]
      BY <1>5, <2>6 DEF EndBatch
    <3>2. /\ run' \in RunState /\ run'.stage = "between" /\ run'.stopped = "running"
          /\ run'.todo = {} /\ run'.answer = {}
      BY <2>4, <3>1 DEF RunState
    <3>. QED
      BY <2>4, <3>2
         DEF RebuildTypeOK, PaidIsMarked, BatchIsOfTheRest, SuccessIsProgress,
             CompletedMeansNoneLeft, GivesUpOnMoreThanOne
  <2>7. CASE StopReason # "none"
    <3>1. PICK end \in RunState : /\ end = NotRunning(StopReason) /\ end.stage = "idle"
                                  /\ end.stopped = StopReason /\ end.todo = {}
                                  /\ end.answer = {}
      BY <2>2, <2>7, NotRunningFields
    <3>2. run' = [end EXCEPT !.usable = run.usable, !.results = run.results]
      BY <1>5, <2>7, <3>1 DEF EndBatch
    <3>3. /\ run' \in RunState /\ run'.stage = "idle" /\ run'.stopped = StopReason
          /\ run'.todo = {} /\ run'.answer = {} /\ run'.usable = run.usable
          /\ run'.results = run.results
      BY <2>4, <3>1, <3>2 DEF RunState
    <3>4. StopReason = "completed" => run.usable \subseteq rebuilt
      BY <2>1, <2>4 DEF Attempted, remaining_rebuildable_after, BatchIsOfTheRest
    <3>5. GivesUpOnMoreThanOne'
      BY <2>3, <2>5, <3>3 DEF GivesUpOnMoreThanOne
    <3>. QED
      BY <2>4, <3>3, <3>4, <3>5
         DEF RebuildTypeOK, PaidIsMarked, BatchIsOfTheRest, SuccessIsProgress,
             CompletedMeansNoneLeft
  <2>. QED
    BY <2>6, <2>7
<1>6. CASE OutOfBatches
  <2>1. "max_batches_exceeded" \in StopReasons \ GaveUp
    BY DEF StopReasons, GaveUp
  <2>2. run.answer = {} /\ spent' \in [faults : Nat, kills : Nat]
    BY <1>6 DEF OutOfBatches, BatchIsOfTheRest, RebuildTypeOK
  <2>. QED
    BY <1>6, <2>1, <2>2, StoppedKeeps DEF OutOfBatches
<1>7. CASE Kill
  <2>1. "killed" \in StopReasons \ GaveUp
    BY DEF StopReasons, GaveUp
  <2>. QED
    BY <1>7, <2>1, OneMoreIsCounted, StoppedKeeps DEF Kill
<1>8. CASE \E a \in Apps, c \in Categories : DocumentArrives(a, c)
  <2>1. PICK a \in Apps, c \in Categories : DocumentArrives(a, c)
    BY <1>8
  <2>2. docs[a] \cup {c} \in SUBSET Categories
    BY <2>1 DEF RebuildTypeOK
  <2>3. docs' \in [Apps -> SUBSET Categories]
        /\ UNCHANGED <<rebuilt, run, failures, spent, paid, lost>>
    BY <2>1, <2>2 DEF DocumentArrives, RebuildTypeOK
  <2>. QED
    BY <2>3
       DEF RebuildTypeOK, PaidIsMarked, BatchIsOfTheRest, SuccessIsProgress,
           CompletedMeansNoneLeft, GivesUpOnMoreThanOne
<1>9. CASE UNCHANGED rebuildVars
  BY <1>9
     DEF rebuildVars, RebuildTypeOK, PaidIsMarked, BatchIsOfTheRest, SuccessIsProgress,
         CompletedMeansNoneLeft, GivesUpOnMoreThanOne
<1>. QED
  BY <1>1, <1>2, <1>3, <1>4, <1>5, <1>6, <1>7, <1>8, <1>9 DEF RebuildNext, RunStep

(* For any applications, limits, failures, kills and lost acknowledgements: the unattended
   rebuild says "completed" only when every application that had a readable document as its
   last batch began is rebuilt; it pays again only for an answer that was lost before it was
   stored; and it gives up only on more than one attempt that went wrong
   (run_to_completion, select_historical_rebuild_candidates, _process_one_candidate). *)
THEOREM RebuildCompletesAndPaysForLosses == RebuildSpec => []RebuildKeepsItsWord
<1>1. RebuildInit => RebuildInv
  BY RebuildStarts, RebuildAssumption
<1>2. RebuildInv /\ [RebuildNext]_rebuildVars => RebuildInv'
  BY RebuildKept, RebuildAssumption
<1>3. RebuildInv => RebuildKeepsItsWord
  BY DEF RebuildInv, RebuildTypeOK, PaidIsMarked, RebuildKeepsItsWord, PaidAgainOnlyIfLost
<1>. QED
  BY <1>1, <1>2, <1>3, PTL DEF RebuildSpec

-----------------------------------------------------------------------------
(* The document job. *)

(* What an exception leaves in the parent's record. *)
LEMMA RaisesFields ==
  ASSUME parent \in ParentState, Raises
  PROVE  /\ parent' \in ParentState
         /\ parent'.pc = "rollback" /\ parent'.at = parent.at /\ parent'.acked = parent.acked
BY DEF ParentState, ParentAt, Raises

(* What the acknowledgement of a commit leaves in the parent's record. *)
LEMMA AckFields ==
  ASSUME parent \in ParentState,
         parent' = [parent EXCEPT !.pc = "cleaning", !.out = "ok", !.acked = TRUE]
  PROVE  /\ parent' \in ParentState
         /\ parent'.pc = "cleaning" /\ parent'.at = parent.at /\ parent'.acked
BY DEF ParentState, ParentAt

(* What the end of the custodian leaves in its record. *)
LEMMA ExitFields ==
  ASSUME cust \in CustodianState,
         NEW state \in {NONE, "commit", "abort", "rolled_back"}, Exit(state)
  PROVE  /\ cust' \in CustodianState
         /\ cust'.pc = "exited" /\ cust'.ack = cust.ack /\ cust'.left = cust.left
         /\ cust'.state = state
BY DEF CustodianState, CustodianAt, Exit

(* Two fields of the parent's record change and it keeps its shape. *)
LEMMA ParentUpdate ==
  ASSUME NEW pc \in ParentAt, parent \in ParentState
  PROVE  /\ \A t \in Targets : [parent EXCEPT !.pc = pc, !.at = t] \in ParentState
         /\ \A out \in {NONE, "ok", "failed"} :
              [parent EXCEPT !.pc = pc, !.out = out] \in ParentState
BY DEF ParentState

(* Likewise of the custodian's. *)
LEMMA CustodianUpdate ==
  ASSUME NEW pc \in CustodianAt, cust \in CustodianState
  PROVE  /\ \A a \in {NONE, "commit", "abort"} :
              [cust EXCEPT !.pc = pc, !.ack = a] \in CustodianState
         /\ \A S \in SUBSET Entries : [cust EXCEPT !.pc = pc, !.left = S] \in CustodianState
BY DEF CustodianState

(* What a step reads of the two processes, the directory and the lock. *)
USE JobAssumption DEF To, Dies, Exists, ParentAlive, CustodianExited, Lockable, Opened,
                      Freed, check, verify_cleanup, Undone, Unlinked, Restores, NONE, Past,
                      Locking, Saving, Polling

(* The variables keep their shape. *)
LEMMA JobTypeOKKept == ASSUME JobInv, [JobNext]_jobVars PROVE JobTypeOK'
<1>. USE DEF JobInv, JobTypeOK, ParentState, CustodianState, Entries, ParentAt, CustodianAt
<1>1. CASE StartJob
  BY <1>1 DEF StartJob
<1>2. CASE \E t \in Targets : OpenForSave(t)
  <2>. HIDE DEF ParentState
  <2>1. PICK t \in Targets : OpenForSave(t)
    BY <1>2
  <2>2. parent' \in ParentState
    BY <2>1, ParentUpdate DEF OpenForSave
  <2>. QED BY <2>1, <2>2 DEF OpenForSave
<1>3. CASE LeaveBody
  BY <1>3 DEF LeaveBody
<1>4. CASE LockForSave
  BY <1>4 DEF LockForSave
<1>5. CASE Replace
  BY <1>5 DEF Replace
<1>6. CASE BodyFails
  BY <1>6, RaisesFields DEF BodyFails
<1>7. CASE OpenForCommit
  <2>1. CASE Exists /\ ~CustodianExited
    BY <1>7, <2>1 DEF OpenForCommit
  <2>2. CASE Raises /\ dir' = dir
    BY <1>7, <2>2, RaisesFields DEF OpenForCommit
  <2>. QED BY <1>7, <2>1, <2>2 DEF OpenForCommit
<1>8. CASE LockForCommit
  <2>1. CASE Raises
    BY <1>8, <2>1, RaisesFields DEF LockForCommit
  <2>2. CASE To("acking") /\ ~("journal" \in dir /\ partial # {})
    BY <1>8, <2>2 DEF LockForCommit
  <2>. QED BY <1>8, <2>1, <2>2 DEF LockForCommit
<1>9. CASE AckCommit
  <2>1. CASE Raises /\ pipe' = pipe
    BY <1>9, <2>1, RaisesFields DEF AckCommit
  <2>2. CASE pipe' = "commit" /\ ~CustodianExited
    BY <1>9, <2>2, AckFields DEF AckCommit
  <2>. QED BY <1>9, <2>1, <2>2 DEF AckCommit
<1>10. CASE OpenForRollback \/ LockForRollback \/ RollbackTimesOut
  BY <1>10 DEF OpenForRollback, LockForRollback, RollbackTimesOut
<1>11. CASE (\E t \in Targets : Restore(t)) \/ BackupGone \/ Restored
  BY <1>11 DEF Restore, BackupGone, Restored
<1>12. CASE AskReceipt \/ AckAbort
  BY <1>12 DEF AskReceipt, AckAbort
<1>13. CASE \E S \in SUBSET (dir \ {"root"}) : CleanSome(S)
  BY <1>13 DEF CleanSome
<1>14. CASE CleanAll
  BY <1>14 DEF CleanAll
<1>15. CASE wait_custodian
  <2>. DEFINE out == IF cust.state = NONE \/ slot' # "free" THEN "failed" ELSE parent.out
  <2>1. out \in {NONE, "ok", "failed"} /\ parent' = [parent EXCEPT !.pc = "done", !.out = out]
    BY <1>15 DEF wait_custodian
  <2>2. parent' \in ParentState
    <3>. HIDE DEF out, ParentState
    <3>. QED BY <2>1, ParentUpdate
  <2>. QED BY <1>15, <2>2 DEF wait_custodian
<1>16. CASE ReadPipe
  <2>. DEFINE ack == IF pipe # NONE THEN pipe ELSE cust.ack
  <2>1. ack \in {NONE, "commit", "abort"} /\ cust' = [cust EXCEPT !.pc = "check", !.ack = ack]
    BY <1>16 DEF ReadPipe
  <2>2. cust' \in CustodianState
    <3>. HIDE DEF ack, CustodianState
    <3>. QED BY <2>1, CustodianUpdate
  <2>. QED BY <1>16, <2>2 DEF ReadPipe
<1>17. CASE CheckParent
  <2>1. CASE ~Exists
    BY <1>17, <2>1, ExitFields DEF CheckParent
  <2>2. CASE Exists /\ ParentAlive /\ ~expired
    BY <1>17, <2>2 DEF CheckParent
  <2>3. CASE Exists /\ ~(ParentAlive /\ ~expired)
    BY <1>17, <2>3 DEF CheckParent
  <2>. QED BY <2>1, <2>2, <2>3
<1>18. CASE OwnerChanged
  BY <1>18, ExitFields DEF OwnerChanged
<1>19. CASE RemovalTimesOut
  BY <1>19, ExitFields DEF RemovalTimesOut
<1>20. CASE CustodianDies
  BY <1>20, ExitFields DEF CustodianDies
<1>21. CASE GiveUp
  BY <1>21, ExitFields DEF GiveUp
<1>22. CASE LockForRemoval
  BY <1>22 DEF LockForRemoval
<1>23. CASE \E t \in Targets : CustodianRestores(t)
  BY <1>23 DEF CustodianRestores
<1>24. CASE CustodianBackupGone
  BY <1>24, ExitFields DEF CustodianBackupGone
<1>25. CASE \E S \in SUBSET (dir \ {"root"}) : RemoveSome(S)
  <2>. HIDE DEF CustodianState
  <2>1. PICK S \in SUBSET dir : RemoveSome(S)
    BY <1>25
  <2>2. dir \ S \in SUBSET Entries
    BY <1>25
  <2>3. cust' \in CustodianState
    BY <2>1, <2>2, CustodianUpdate DEF RemoveSome
  <2>. QED BY <2>1, <2>3 DEF RemoveSome
<1>26. CASE RemoveAll
  <2>1. CASE /\ dir \subseteq cust.left /\ dir' = {}
             /\ Exit(IF cust.ack = "commit" THEN "commit" ELSE "rolled_back")
    BY <1>26, <2>1, ExitFields DEF RemoveAll
  <2>2. CASE dir # cust.left /\ Dies /\ dir' = dir
    BY <1>26, <2>2, ExitFields DEF RemoveAll
  <2>. QED BY <1>26, <2>1, <2>2 DEF RemoveAll
<1>27. CASE ParentDies
  BY <1>27 DEF ParentDies
<1>28. CASE Expire
  BY <1>28 DEF Expire
<1>29. CASE GuardianLost
  BY <1>29 DEF GuardianLost
<1>30. CASE UNCHANGED jobVars
  BY <1>30 DEF jobVars
<1>. QED
  BY <1>1, <1>2, <1>3, <1>4, <1>5, <1>6, <1>7, <1>8, <1>9, <1>10, <1>11, <1>12, <1>13,
     <1>14, <1>15, <1>16, <1>17, <1>18, <1>19, <1>20, <1>21, <1>22, <1>23, <1>24, <1>25,
     <1>26, <1>27, <1>28, <1>29, <1>30
     DEF JobNext, ParentStep, CustodianStep

(* Before a job begins there is nothing, and what was not saved is as it was. *)
LEMMA StartHoldsKept == ASSUME JobInv, [JobNext]_jobVars PROVE StartHolds'
<1>. USE DEF JobInv, JobTypeOK, ParentState, CustodianState, StartHolds, PartialHolds
<1>1. CASE StartJob
  BY <1>1 DEF StartJob
<1>2. CASE \E t \in Targets : OpenForSave(t)
  BY <1>2 DEF OpenForSave
<1>3. CASE LeaveBody
  BY <1>3 DEF LeaveBody
<1>4. CASE LockForSave
  BY <1>4 DEF LockForSave
<1>5. CASE Replace
  BY <1>5 DEF Replace
<1>6. CASE BodyFails
  BY <1>6, RaisesFields DEF BodyFails
<1>7. CASE OpenForCommit
  BY <1>7, RaisesFields DEF OpenForCommit
<1>8. CASE LockForCommit
  BY <1>8, RaisesFields DEF LockForCommit
<1>9. CASE AckCommit
  BY <1>9, RaisesFields, AckFields DEF AckCommit
<1>10. CASE OpenForRollback \/ LockForRollback \/ RollbackTimesOut
  BY <1>10 DEF OpenForRollback, LockForRollback, RollbackTimesOut
<1>11. CASE (\E t \in Targets : Restore(t)) \/ BackupGone \/ Restored
  BY <1>11 DEF Restore, BackupGone, Restored
<1>12. CASE AskReceipt \/ AckAbort
  BY <1>12 DEF AskReceipt, AckAbort
<1>13. CASE \E S \in SUBSET (dir \ {"root"}) : CleanSome(S)
  BY <1>13 DEF CleanSome
<1>14. CASE CleanAll
  BY <1>14 DEF CleanAll
<1>15. CASE wait_custodian
  BY <1>15 DEF wait_custodian
<1>16. CASE ReadPipe
  BY <1>16 DEF ReadPipe
<1>17. CASE CheckParent
  BY <1>17, ExitFields DEF CheckParent
<1>18. CASE OwnerChanged \/ RemovalTimesOut \/ CustodianDies \/ GiveUp
  BY <1>18, ExitFields DEF OwnerChanged, RemovalTimesOut, CustodianDies, GiveUp
<1>19. CASE LockForRemoval
  BY <1>19 DEF LockForRemoval
<1>20. CASE (\E t \in Targets : CustodianRestores(t)) \/ CustodianBackupGone
  BY <1>20, ExitFields DEF CustodianRestores, CustodianBackupGone
<1>21. CASE \E S \in SUBSET (dir \ {"root"}) : RemoveSome(S)
  BY <1>21 DEF RemoveSome
<1>22. CASE RemoveAll
  BY <1>22, ExitFields DEF RemoveAll
<1>23. CASE ParentDies
  BY <1>23 DEF ParentDies
<1>24. CASE Expire \/ GuardianLost \/ UNCHANGED jobVars
  BY <1>24 DEF Expire, GuardianLost, jobVars
<1>. QED
  BY <1>1, <1>2, <1>3, <1>4, <1>5, <1>6, <1>7, <1>8, <1>9, <1>10, <1>11, <1>12, <1>13,
     <1>14, <1>15, <1>16, <1>17, <1>18, <1>19, <1>20, <1>21, <1>22, <1>23, <1>24
     DEF JobNext, ParentStep, CustodianStep

(* The custodian that undoes has the lock until its removal unlinks the file; a new file of
   that name is another lock (output_lock). *)
LEMMA LockHoldsKept == ASSUME JobInv, [JobNext]_jobVars PROVE LockHolds'
<1>. USE DEF JobInv, JobTypeOK, ParentState, CustodianState, StartHolds, LockHolds, Entries,
             ParentAt, CustodianAt
<1>1. CASE StartJob
  BY <1>1 DEF StartJob
<1>2. CASE \E t \in Targets : OpenForSave(t)
  BY <1>2 DEF OpenForSave
<1>3. CASE LeaveBody
  BY <1>3 DEF LeaveBody
<1>4. CASE LockForSave
  BY <1>4 DEF LockForSave
<1>5. CASE Replace
  BY <1>5 DEF Replace
<1>6. CASE BodyFails
  BY <1>6, RaisesFields DEF BodyFails
<1>7. CASE OpenForCommit
  <2>1. CASE Exists /\ ~CustodianExited
    BY <1>7, <2>1 DEF OpenForCommit
  <2>2. CASE Raises /\ dir' = dir
    BY <1>7, <2>2, RaisesFields DEF OpenForCommit
  <2>. QED BY <1>7, <2>1, <2>2 DEF OpenForCommit
<1>8. CASE LockForCommit
  <2>1. CASE Raises
    BY <1>8, <2>1, RaisesFields DEF LockForCommit
  <2>2. CASE To("acking") /\ ~("journal" \in dir /\ partial # {})
    BY <1>8, <2>2 DEF LockForCommit
  <2>. QED BY <1>8, <2>1, <2>2 DEF LockForCommit
<1>9. CASE AckCommit
  <2>1. CASE Raises /\ pipe' = pipe
    BY <1>9, <2>1, RaisesFields DEF AckCommit
  <2>2. CASE pipe' = "commit" /\ ~CustodianExited
    BY <1>9, <2>2, AckFields DEF AckCommit
  <2>. QED BY <1>9, <2>1, <2>2 DEF AckCommit
<1>10. CASE OpenForRollback \/ LockForRollback \/ RollbackTimesOut
  BY <1>10 DEF OpenForRollback, LockForRollback, RollbackTimesOut
<1>11. CASE (\E t \in Targets : Restore(t)) \/ BackupGone \/ Restored
  BY <1>11 DEF Restore, BackupGone, Restored
<1>12. CASE AskReceipt \/ AckAbort
  BY <1>12 DEF AskReceipt, AckAbort
<1>13. CASE \E S \in SUBSET (dir \ {"root"}) : CleanSome(S)
  BY <1>13 DEF CleanSome
<1>14. CASE CleanAll
  BY <1>14 DEF CleanAll
<1>15. CASE wait_custodian
  BY <1>15 DEF wait_custodian
<1>16. CASE ReadPipe
  BY <1>16 DEF ReadPipe
<1>17. CASE CheckParent
  <2>1. CASE ~Exists
    BY <1>17, <2>1, ExitFields DEF CheckParent
  <2>2. CASE Exists /\ ParentAlive /\ ~expired
    BY <1>17, <2>2 DEF CheckParent
  <2>3. CASE Exists /\ ~(ParentAlive /\ ~expired)
    BY <1>17, <2>3 DEF CheckParent
  <2>. QED BY <2>1, <2>2, <2>3
<1>18. CASE OwnerChanged \/ RemovalTimesOut \/ CustodianDies \/ GiveUp
  BY <1>18, ExitFields DEF OwnerChanged, RemovalTimesOut, CustodianDies, GiveUp
<1>19. CASE LockForRemoval
  BY <1>19 DEF LockForRemoval
<1>20. CASE (\E t \in Targets : CustodianRestores(t)) \/ CustodianBackupGone
  BY <1>20, ExitFields DEF CustodianRestores, CustodianBackupGone
<1>21. CASE \E S \in SUBSET (dir \ {"root"}) : RemoveSome(S)
  BY <1>21 DEF RemoveSome
<1>22. CASE RemoveAll
  <2>1. CASE /\ dir \subseteq cust.left /\ dir' = {}
             /\ Exit(IF cust.ack = "commit" THEN "commit" ELSE "rolled_back")
    BY <1>22, <2>1, ExitFields DEF RemoveAll
  <2>2. CASE dir # cust.left /\ Dies /\ dir' = dir
    BY <1>22, <2>2, ExitFields DEF RemoveAll
  <2>. QED BY <1>22, <2>1, <2>2 DEF RemoveAll
<1>23. CASE ParentDies
  BY <1>23 DEF ParentDies
<1>24. CASE Expire \/ GuardianLost \/ UNCHANGED jobVars
  BY <1>24 DEF Expire, GuardianLost, jobVars
<1>. QED
  BY <1>1, <1>2, <1>3, <1>4, <1>5, <1>6, <1>7, <1>8, <1>9, <1>10, <1>11, <1>12, <1>13,
     <1>14, <1>15, <1>16, <1>17, <1>18, <1>19, <1>20, <1>21, <1>22, <1>23, <1>24
     DEF JobNext, ParentStep, CustodianStep

(* A partial file is left behind only by the death of its parent, and a custodian that ends
   well has removed it (save_download, remove_owned_job). *)
LEMMA PartialHoldsKept == ASSUME JobInv, [JobNext]_jobVars PROVE PartialHolds'
<1>. USE DEF JobInv, JobTypeOK, ParentState, CustodianState, StartHolds, LockHolds,
             PartialHolds
<1>1. CASE StartJob
  BY <1>1 DEF StartJob
<1>2. CASE \E t \in Targets : OpenForSave(t)
  BY <1>2 DEF OpenForSave
<1>3. CASE LeaveBody
  BY <1>3 DEF LeaveBody
<1>4. CASE LockForSave
  BY <1>4 DEF LockForSave
<1>5. CASE Replace
  BY <1>5 DEF Replace
<1>6. CASE BodyFails
  BY <1>6, RaisesFields DEF BodyFails
<1>7. CASE OpenForCommit
  BY <1>7, RaisesFields DEF OpenForCommit
<1>8. CASE LockForCommit
  BY <1>8, RaisesFields DEF LockForCommit
<1>9. CASE AckCommit
  BY <1>9, RaisesFields, AckFields DEF AckCommit
<1>10. CASE OpenForRollback \/ LockForRollback \/ RollbackTimesOut
  BY <1>10 DEF OpenForRollback, LockForRollback, RollbackTimesOut
<1>11. CASE (\E t \in Targets : Restore(t)) \/ BackupGone \/ Restored
  BY <1>11 DEF Restore, BackupGone, Restored
<1>12. CASE AskReceipt \/ AckAbort
  BY <1>12 DEF AskReceipt, AckAbort
<1>13. CASE \E S \in SUBSET (dir \ {"root"}) : CleanSome(S)
  BY <1>13 DEF CleanSome
<1>14. CASE CleanAll
  BY <1>14 DEF CleanAll
<1>15. CASE wait_custodian
  BY <1>15 DEF wait_custodian
<1>16. CASE ReadPipe
  BY <1>16 DEF ReadPipe
<1>17. CASE CheckParent
  BY <1>17, ExitFields DEF CheckParent
<1>18. CASE OwnerChanged \/ RemovalTimesOut \/ CustodianDies \/ GiveUp
  BY <1>18, ExitFields DEF OwnerChanged, RemovalTimesOut, CustodianDies, GiveUp
<1>19. CASE LockForRemoval
  BY <1>19 DEF LockForRemoval
<1>20. CASE (\E t \in Targets : CustodianRestores(t)) \/ CustodianBackupGone
  BY <1>20, ExitFields DEF CustodianRestores, CustodianBackupGone
<1>21. CASE \E S \in SUBSET (dir \ {"root"}) : RemoveSome(S)
  BY <1>21 DEF RemoveSome
<1>22. CASE RemoveAll
  BY <1>22, ExitFields DEF RemoveAll
<1>23. CASE ParentDies
  BY <1>23 DEF ParentDies
<1>24. CASE Expire \/ GuardianLost \/ UNCHANGED jobVars
  BY <1>24 DEF Expire, GuardianLost, jobVars
<1>. QED
  BY <1>1, <1>2, <1>3, <1>4, <1>5, <1>6, <1>7, <1>8, <1>9, <1>10, <1>11, <1>12, <1>13,
     <1>14, <1>15, <1>16, <1>17, <1>18, <1>19, <1>20, <1>21, <1>22, <1>23, <1>24
     DEF JobNext, ParentStep, CustodianStep

(* What was saved stays until the custodian begins to undo, and a commit that it reads is
   kept (finish_files, remove_owned_job). *)
LEMMA CommitHoldsKept == ASSUME JobInv, [JobNext]_jobVars PROVE CommitHolds'
<1>. USE DEF JobInv, JobTypeOK, ParentState, CustodianState, StartHolds, LockHolds,
             PartialHolds, CommitHolds, AllNew
<1>1. CASE StartJob
  BY <1>1 DEF StartJob
<1>2. CASE \E t \in Targets : OpenForSave(t)
  BY <1>2 DEF OpenForSave
<1>3. CASE LeaveBody
  BY <1>3 DEF LeaveBody
<1>4. CASE LockForSave
  BY <1>4 DEF LockForSave
<1>5. CASE Replace
  BY <1>5 DEF Replace
<1>6. CASE BodyFails
  BY <1>6, RaisesFields DEF BodyFails
<1>7. CASE OpenForCommit
  <2>1. CASE Exists /\ ~CustodianExited
    BY <1>7, <2>1 DEF OpenForCommit
  <2>2. CASE Raises /\ dir' = dir
    BY <1>7, <2>2, RaisesFields DEF OpenForCommit
  <2>. QED BY <1>7, <2>1, <2>2 DEF OpenForCommit
<1>8. CASE LockForCommit
  <2>1. CASE Raises
    BY <1>8, <2>1, RaisesFields DEF LockForCommit
  <2>2. CASE To("acking") /\ ~("journal" \in dir /\ partial # {})
    BY <1>8, <2>2 DEF LockForCommit
  <2>. QED BY <1>8, <2>1, <2>2 DEF LockForCommit
<1>9. CASE AckCommit
  <2>1. CASE Raises /\ pipe' = pipe
    BY <1>9, <2>1, RaisesFields DEF AckCommit
  <2>2. CASE pipe' = "commit" /\ ~CustodianExited
    BY <1>9, <2>2, AckFields DEF AckCommit
  <2>. QED BY <1>9, <2>1, <2>2 DEF AckCommit
<1>10. CASE OpenForRollback \/ LockForRollback \/ RollbackTimesOut
  BY <1>10 DEF OpenForRollback, LockForRollback, RollbackTimesOut
<1>11. CASE (\E t \in Targets : Restore(t)) \/ BackupGone \/ Restored
  BY <1>11 DEF Restore, BackupGone, Restored
<1>12. CASE AskReceipt \/ AckAbort
  BY <1>12 DEF AskReceipt, AckAbort
<1>13. CASE \E S \in SUBSET (dir \ {"root"}) : CleanSome(S)
  BY <1>13 DEF CleanSome
<1>14. CASE CleanAll
  BY <1>14 DEF CleanAll
<1>15. CASE wait_custodian
  BY <1>15 DEF wait_custodian
<1>16. CASE ReadPipe
  BY <1>16 DEF ReadPipe
<1>17. CASE CheckParent
  <2>1. CASE ~Exists
    BY <1>17, <2>1, ExitFields DEF CheckParent
  <2>2. CASE Exists /\ ParentAlive /\ ~expired
    BY <1>17, <2>2 DEF CheckParent
  <2>3. CASE Exists /\ ~(ParentAlive /\ ~expired)
    BY <1>17, <2>3 DEF CheckParent
  <2>. QED BY <2>1, <2>2, <2>3
<1>18. CASE OwnerChanged \/ RemovalTimesOut \/ CustodianDies \/ GiveUp
  BY <1>18, ExitFields DEF OwnerChanged, RemovalTimesOut, CustodianDies, GiveUp
<1>19. CASE LockForRemoval
  BY <1>19 DEF LockForRemoval
<1>20. CASE (\E t \in Targets : CustodianRestores(t)) \/ CustodianBackupGone
  BY <1>20, ExitFields DEF CustodianRestores, CustodianBackupGone
<1>21. CASE \E S \in SUBSET (dir \ {"root"}) : RemoveSome(S)
  BY <1>21 DEF RemoveSome
<1>22. CASE RemoveAll
  <2>1. CASE /\ dir \subseteq cust.left /\ dir' = {}
             /\ Exit(IF cust.ack = "commit" THEN "commit" ELSE "rolled_back")
    BY <1>22, <2>1, ExitFields DEF RemoveAll
  <2>2. CASE dir # cust.left /\ Dies /\ dir' = dir
    BY <1>22, <2>2, ExitFields DEF RemoveAll
  <2>. QED BY <1>22, <2>1, <2>2 DEF RemoveAll
<1>23. CASE ParentDies
  BY <1>23 DEF ParentDies
<1>24. CASE Expire \/ GuardianLost \/ UNCHANGED jobVars
  BY <1>24 DEF Expire, GuardianLost, jobVars
<1>. QED
  BY <1>1, <1>2, <1>3, <1>4, <1>5, <1>6, <1>7, <1>8, <1>9, <1>10, <1>11, <1>12, <1>13,
     <1>14, <1>15, <1>16, <1>17, <1>18, <1>19, <1>20, <1>21, <1>22, <1>23, <1>24
     DEF JobNext, ParentStep, CustodianStep

(* Before the deadline, and with one process alive, the one that is alive can and does undo
   (document_page, file_custodian). *)
LEMMA UndoHoldsKept == ASSUME JobInv, [JobNext]_jobVars PROVE UndoHolds'
<1>. USE DEF JobInv, JobTypeOK, ParentState, CustodianState, StartHolds, LockHolds,
             PartialHolds, CommitHolds, UndoHolds, AllOld, Full, ParentAt, AllNew
<1>1. CASE StartJob
  BY <1>1 DEF StartJob
<1>2. CASE \E t \in Targets : OpenForSave(t)
  BY <1>2 DEF OpenForSave
<1>3. CASE LeaveBody
  BY <1>3 DEF LeaveBody
<1>4. CASE LockForSave
  BY <1>4 DEF LockForSave
<1>5. CASE Replace
  BY <1>5 DEF Replace
<1>6. CASE BodyFails
  BY <1>6, RaisesFields DEF BodyFails
<1>7. CASE OpenForCommit
  <2>1. CASE Exists /\ ~CustodianExited
    BY <1>7, <2>1 DEF OpenForCommit
  <2>2. CASE Raises /\ dir' = dir
    BY <1>7, <2>2, RaisesFields DEF OpenForCommit
  <2>. QED BY <1>7, <2>1, <2>2 DEF OpenForCommit
<1>8. CASE LockForCommit
  <2>1. CASE Raises
    BY <1>8, <2>1, RaisesFields DEF LockForCommit
  <2>2. CASE To("acking") /\ ~("journal" \in dir /\ partial # {})
    BY <1>8, <2>2 DEF LockForCommit
  <2>. QED BY <1>8, <2>1, <2>2 DEF LockForCommit
<1>9. CASE AckCommit
  <2>1. CASE Raises /\ pipe' = pipe
    BY <1>9, <2>1, RaisesFields DEF AckCommit
  <2>2. CASE pipe' = "commit" /\ ~CustodianExited
    BY <1>9, <2>2, AckFields DEF AckCommit
  <2>. QED BY <1>9, <2>1, <2>2 DEF AckCommit
<1>10. CASE OpenForRollback \/ LockForRollback \/ RollbackTimesOut
  BY <1>10 DEF OpenForRollback, LockForRollback, RollbackTimesOut
<1>11. CASE (\E t \in Targets : Restore(t)) \/ BackupGone \/ Restored
  BY <1>11 DEF Restore, BackupGone, Restored
<1>12. CASE AskReceipt \/ AckAbort
  BY <1>12 DEF AskReceipt, AckAbort
<1>13. CASE \E S \in SUBSET (dir \ {"root"}) : CleanSome(S)
  BY <1>13 DEF CleanSome
<1>14. CASE CleanAll
  BY <1>14 DEF CleanAll
<1>15. CASE wait_custodian
  BY <1>15 DEF wait_custodian
<1>16. CASE ReadPipe
  BY <1>16 DEF ReadPipe
<1>17. CASE CheckParent
  <2>1. CASE ~Exists
    BY <1>17, <2>1, ExitFields DEF CheckParent
  <2>2. CASE Exists /\ ParentAlive /\ ~expired
    BY <1>17, <2>2 DEF CheckParent
  <2>3. CASE Exists /\ ~(ParentAlive /\ ~expired)
    BY <1>17, <2>3 DEF CheckParent
  <2>. QED BY <2>1, <2>2, <2>3
<1>18. CASE OwnerChanged \/ RemovalTimesOut \/ CustodianDies \/ GiveUp
  BY <1>18, ExitFields DEF OwnerChanged, RemovalTimesOut, CustodianDies, GiveUp
<1>19. CASE LockForRemoval
  BY <1>19 DEF LockForRemoval
<1>20. CASE (\E t \in Targets : CustodianRestores(t)) \/ CustodianBackupGone
  BY <1>20, ExitFields DEF CustodianRestores, CustodianBackupGone
<1>21. CASE \E S \in SUBSET (dir \ {"root"}) : RemoveSome(S)
  BY <1>21 DEF RemoveSome
<1>22. CASE RemoveAll
  BY <1>22, ExitFields DEF RemoveAll
<1>23. CASE ParentDies
  BY <1>23 DEF ParentDies
<1>24. CASE Expire \/ GuardianLost \/ UNCHANGED jobVars
  BY <1>24 DEF Expire, GuardianLost, jobVars
<1>. QED
  BY <1>1, <1>2, <1>3, <1>4, <1>5, <1>6, <1>7, <1>8, <1>9, <1>10, <1>11, <1>12, <1>13,
     <1>14, <1>15, <1>16, <1>17, <1>18, <1>19, <1>20, <1>21, <1>22, <1>23, <1>24
     DEF JobNext, ParentStep, CustodianStep

(* A job ends well only when nothing of it is left (verify_cleanup). *)
LEMMA NothingLeftKept == ASSUME JobInv, [JobNext]_jobVars PROVE NothingLeft'
<1>. USE DEF JobInv, JobTypeOK, ParentState, CustodianState, StartHolds, LockHolds,
             PartialHolds, NothingLeft
<1>1. CASE StartJob
  BY <1>1 DEF StartJob
<1>2. CASE \E t \in Targets : OpenForSave(t)
  BY <1>2 DEF OpenForSave
<1>3. CASE LeaveBody
  BY <1>3 DEF LeaveBody
<1>4. CASE LockForSave
  BY <1>4 DEF LockForSave
<1>5. CASE Replace
  BY <1>5 DEF Replace
<1>6. CASE BodyFails
  BY <1>6, RaisesFields DEF BodyFails
<1>7. CASE OpenForCommit
  BY <1>7, RaisesFields DEF OpenForCommit
<1>8. CASE LockForCommit
  BY <1>8, RaisesFields DEF LockForCommit
<1>9. CASE AckCommit
  BY <1>9, RaisesFields, AckFields DEF AckCommit
<1>10. CASE OpenForRollback \/ LockForRollback \/ RollbackTimesOut
  BY <1>10 DEF OpenForRollback, LockForRollback, RollbackTimesOut
<1>11. CASE (\E t \in Targets : Restore(t)) \/ BackupGone \/ Restored
  BY <1>11 DEF Restore, BackupGone, Restored
<1>12. CASE AskReceipt \/ AckAbort
  BY <1>12 DEF AskReceipt, AckAbort
<1>13. CASE \E S \in SUBSET (dir \ {"root"}) : CleanSome(S)
  BY <1>13 DEF CleanSome
<1>14. CASE CleanAll
  BY <1>14 DEF CleanAll
<1>15. CASE wait_custodian
  BY <1>15 DEF wait_custodian
<1>16. CASE ReadPipe
  BY <1>16 DEF ReadPipe
<1>17. CASE CheckParent
  BY <1>17, ExitFields DEF CheckParent
<1>18. CASE OwnerChanged \/ RemovalTimesOut \/ CustodianDies \/ GiveUp
  BY <1>18, ExitFields DEF OwnerChanged, RemovalTimesOut, CustodianDies, GiveUp
<1>19. CASE LockForRemoval
  BY <1>19 DEF LockForRemoval
<1>20. CASE (\E t \in Targets : CustodianRestores(t)) \/ CustodianBackupGone
  BY <1>20, ExitFields DEF CustodianRestores, CustodianBackupGone
<1>21. CASE \E S \in SUBSET (dir \ {"root"}) : RemoveSome(S)
  BY <1>21 DEF RemoveSome
<1>22. CASE RemoveAll
  BY <1>22, ExitFields DEF RemoveAll
<1>23. CASE ParentDies
  BY <1>23 DEF ParentDies
<1>24. CASE Expire \/ GuardianLost \/ UNCHANGED jobVars
  BY <1>24 DEF Expire, GuardianLost, jobVars
<1>. QED
  BY <1>1, <1>2, <1>3, <1>4, <1>5, <1>6, <1>7, <1>8, <1>9, <1>10, <1>11, <1>12, <1>13,
     <1>14, <1>15, <1>16, <1>17, <1>18, <1>19, <1>20, <1>21, <1>22, <1>23, <1>24
     DEF JobNext, ParentStep, CustodianStep

(* A job that has not begun. *)
LEMMA JobStarts == JobInit => JobInv
<1>. SUFFICES ASSUME JobInit PROVE JobInv
  OBVIOUS
<1>1. /\ parent.pc = "idle" /\ parent.at = NONE /\ ~parent.acked /\ parent \in ParentState
      /\ cust.pc = "off" /\ cust.ack = NONE /\ cust.left = {} /\ cust \in CustodianState
  BY DEF JobInit, ParentState, ParentAt, CustodianState, CustodianAt
<1>2. \A t \in Targets : target[t] = "old"
  BY DEF JobInit
<1>3. JobTypeOK
  BY <1>1 DEF JobInit, JobTypeOK
<1>. QED
  BY <1>1, <1>2, <1>3 DEF JobInit, JobInv, StartHolds, LockHolds, PartialHolds, CommitHolds,
     UndoHolds, NothingLeft

(* Lock, directory, partial files, outputs and acknowledgement agree in every reachable
   state, for any files (document_page, file_custodian). *)
THEOREM JobKeepsTogether == JobSpec => []JobInv
<1>1. JobInv /\ [JobNext]_jobVars => JobInv'
  BY JobTypeOKKept, StartHoldsKept, LockHoldsKept, PartialHoldsKept, CommitHoldsKept,
     UndoHoldsKept, NothingLeftKept DEF JobInv
<1>. QED
  BY <1>1, JobStarts, PTL DEF JobSpec

(* Outputs are all or nothing, for any files: what was not acknowledged is undone by
   whichever process survives until the deadline, a commit that was read is kept whoever dies
   and whatever times out, and nothing is left of a job that ended well ("pending outputs
   roll back on parent loss", verify_cleanup). *)
THEOREM OutputsAllOrNothing == JobSpec => []OutputsAreAllOrNothing
<1>1. JobInv => ReadCommitPersists /\ NothingLeft
  BY DEF JobInv, CommitHolds, ReadCommitPersists
<1>2. JobInv /\ ~expired /\ killed # {"parent", "custodian"} => PendingIsUndone
  BY DEF JobInv, UndoHolds, PendingIsUndone, Settled
<1>. QED
  BY <1>1, <1>2, JobKeepsTogether, PTL DEF OutputsAreAllOrNothing
=============================================================================
