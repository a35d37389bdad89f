------------------------------ MODULE PolicyProofs ------------------------------
(* Who may pay for an evaluation and what the recording transaction leaves behind, *)
(* what makes a mandate's baseline current, what the four writers of the           *)
(* relationships do to each other, and which links of applications to Sites stand, *)
(* for any workers, fingerprints, mandates, operators, documents, crashes and      *)
(* histories.                                                                      *)
EXTENDS EvaluationProperties, MandateProperties, RelationshipProperties, SiteLinking,
        TLAPS, FiniteSetTheorems, WellFoundedInduction

-----------------------------------------------------------------------------
(* Paid evaluations. *)

(* Pays for a fingerprint on a claim that has not expired and that nobody who outlasted
   another settled. *)
InTime(w) == worker[w].pc \in Paying /\ worker[w].elapsed <= Expiry /\ worker[w].key \notin late

(* A worker that pays in time holds the claim, which is as old as its evaluation; a worker
   about to record has a result. *)
HoldsClaim(w) ==
  /\ InTime(w) =>
       /\ claims[worker[w].key].status = "claimed"
       /\ claims[worker[w].key].age = worker[w].elapsed
  /\ worker[w].pc \notin Paying => worker[w].elapsed = 0
  /\ worker[w].pc # "idle" => worker[w].key \in Keys
  /\ worker[w].pc = "retake" => worker[w].seen \in Terminal
  /\ worker[w].pc \in {"record", "inserted", "locked"} => worker[w].result \in Terminal

PayerInv == TypeOK /\ (\A w \in Workers : HoldsClaim(w)) /\ OnePayer

(* The record of an idle worker is well typed. *)
LEMMA IdleTyped == Idle \in Worker /\ NoClaim \in Claim /\ NoCurrent \in Current
<1>1. NoCurrent \in Current
  BY DEF NoCurrent, Current, Results
<1>2. NoClaim \in Claim
  BY TimeAssumption DEF NoClaim, Claim, Statuses
<1>. QED
  BY <1>1, <1>2 DEF Idle, Worker, Pcs, Statuses, Results

(* The columns and locals that the steps below assign. *)
LEMMA FieldsTyped ==
  /\ \A r \in Worker, pc \in Pcs, n \in Nat : [r EXCEPT !.pc = pc, !.id = n] \in Worker
  /\ \A r \in Worker, pc \in Pcs, result \in Results, calls \in 0 .. 2 :
       [r EXCEPT !.calls = calls, !.pc = pc, !.result = result] \in Worker
  /\ \A r \in Worker, n \in Nat : [r EXCEPT !.elapsed = n] \in Worker
  /\ \A r \in Worker, pc \in Pcs, b \in Current : [r EXCEPT !.pc = pc, !.base = b] \in Worker
  /\ \A c \in Claim, age \in 0 .. Expiry + 1 : [c EXCEPT !.age = age] \in Claim
BY Zenon DEF Worker, Claim

(* An update of one worker's locals leaves the others alone and the table typed. *)
LEMMA WorkerUpdate ==
  ASSUME TypeOK, NEW w \in Workers, NEW r \in Worker, worker' = [worker EXCEPT ![w] = r]
  PROVE  /\ worker' \in [Workers -> Worker] /\ worker'[w] = r
         /\ \A v \in Workers : v # w => worker'[v] = worker[v]
BY DEF TypeOK

(* A step of one worker that leaves the claims alone and pays only if it did before. *)
LEMMA OwnStep ==
  ASSUME PayerInv, NEW w \in Workers, UNCHANGED <<claims, late>>,
         \A v \in Workers : v # w => worker'[v] = worker[v],
         HoldsClaim(w)',
         worker'[w].pc \in Paying =>
           /\ worker[w].pc \in Paying /\ worker'[w].key = worker[w].key
           /\ worker'[w].elapsed = worker[w].elapsed
  PROVE  (\A v \in Workers : HoldsClaim(v)') /\ OnePayer'
<1>1. \A v \in Workers : HoldsClaim(v)'
  BY DEF PayerInv, HoldsClaim, InTime
<1>2. OnePayer'
  <2>. SUFFICES ASSUME NEW u \in Workers, NEW v \in Workers, u # v,
                       worker'[u].pc \in Paying, worker'[v].pc \in Paying,
                       worker'[u].key = worker'[v].key, worker'[u].key \notin late
                PROVE  worker'[u].elapsed > Expiry \/ worker'[v].elapsed > Expiry
    BY DEF OnePayer
  <2>1. /\ worker[u].pc \in Paying /\ worker'[u].key = worker[u].key
        /\ worker[v].pc \in Paying /\ worker'[v].key = worker[v].key
        /\ worker'[u].elapsed = worker[u].elapsed /\ worker'[v].elapsed = worker[v].elapsed
    OBVIOUS
  <2>. QED
    BY <2>1 DEF PayerInv, OnePayer
<1>. QED
  BY <1>1, <1>2

(* The empty tables. *)
LEMMA InitPayers == Init => PayerInv
BY IdleTyped DEF Init, PayerInv, TypeOK, HoldsClaim, InTime, OnePayer, Idle, Paying

(* Leaving the evaluation: a lost claim, a rolled back transaction, a crash. *)
LEMMA LeavePayers ==
  ASSUME PayerInv, NEW w \in Workers, Leave(w), crashes' \in Nat,
         UNCHANGED <<claims, history, current, lastId, runs, forced, late>>
  PROVE  PayerInv'
<1>1. /\ worker' \in [Workers -> Worker] /\ worker'[w] = Idle
      /\ \A v \in Workers : v # w => worker'[v] = worker[v]
  BY IdleTyped, WorkerUpdate DEF PayerInv, Leave
<1>2. TypeOK'
  BY <1>1 DEF PayerInv, TypeOK
<1>3. HoldsClaim(w)' /\ worker'[w].pc \notin Paying
  BY <1>1 DEF HoldsClaim, InTime, Idle, Paying
<1>. QED
  BY <1>1, <1>2, <1>3, OwnStep DEF PayerInv

(* The select of try_claim_evaluation. *)
LEMMA LookPayers ==
  ASSUME PayerInv, NEW w \in Workers, NEW k \in Keys, NEW force \in BOOLEAN,
         Look(w, k, force)
  PROVE  PayerInv'
<1>1. PICK step \in {"insert", "reclaim", "retake"} :
        /\ step = "retake" => claims[k].status \in Terminal
        /\ worker' = [worker EXCEPT ![w] = [Idle EXCEPT !.pc = step, !.key = k,
                                                        !.seen = claims[k].status]]
  BY DEF Look
<1>. DEFINE r == [Idle EXCEPT !.pc = step, !.key = k, !.seen = claims[k].status]
<1>2. /\ r \in Worker /\ r.pc = step /\ r.key = k /\ r.seen = claims[k].status
      /\ r.elapsed = 0
  <2>1. claims[k].status \in Statuses /\ step \in Pcs
    BY DEF PayerInv, TypeOK, Claim, Pcs
  <2>. QED
    BY <2>1, IdleTyped DEF Idle, Worker
<1>3. /\ worker' \in [Workers -> Worker] /\ worker'[w] = r
      /\ \A v \in Workers : v # w => worker'[v] = worker[v]
  BY <1>1, <1>2, WorkerUpdate DEF PayerInv
<1>. HIDE DEF r
<1>4. UNCHANGED <<claims, history, current, lastId, runs, forced, crashes, late>>
  BY DEF Look
<1>5. HoldsClaim(w)' /\ worker'[w].pc \notin Paying
  BY <1>1, <1>2, <1>3 DEF HoldsClaim, InTime, Paying
<1>. QED
  BY <1>3, <1>4, <1>5, OwnStep DEF PayerInv, TypeOK
(* The winner of the guarded write is the only payer in time: another one would hold a
   claim that is neither absent, nor settled, nor expired. *)
LEMMA TakePayers ==
  ASSUME PayerInv, NEW w \in Workers, TakeClaim(w)
  PROVE  PayerInv'
<1>. DEFINE k == worker[w].key
            r == [worker[w] EXCEPT !.pc = "evaluating"]
<1>1. /\ worker[w].pc \in {"insert", "reclaim", "retake"} /\ Wins(w, k)
      /\ claims' = [claims EXCEPT ![k] = [NoClaim EXCEPT !.status = "claimed"]]
      /\ worker' = [worker EXCEPT ![w] = r]
      /\ UNCHANGED <<history, current, lastId, crashes, late>>
  BY DEF TakeClaim, Goto
<1>2. /\ worker[w] \in Worker /\ k \in Keys /\ claims[k] \in Claim
      /\ worker[w].elapsed = 0
  BY <1>1 DEF PayerInv, TypeOK, HoldsClaim, Paying
<1>3. r \in Worker /\ r.pc = "evaluating" /\ r.key = k /\ r.elapsed = 0
  BY <1>2 DEF Worker, Pcs, Paying
<1>4. /\ worker' \in [Workers -> Worker] /\ worker'[w] = r
      /\ \A v \in Workers : v # w => worker'[v] = worker[v]
  BY <1>1, <1>3, WorkerUpdate DEF PayerInv
<1>. HIDE DEF r
<1>5. /\ claims' \in [Keys -> Claim]
      /\ claims'[k].status = "claimed" /\ claims'[k].age = 0
      /\ \A j \in Keys : j # k => claims'[j] = claims[j]
  <2>1. [NoClaim EXCEPT !.status = "claimed"] \in Claim
    BY IdleTyped DEF NoClaim, Claim, Statuses
  <2>. QED
    BY <1>1, <1>2, <2>1 DEF PayerInv, TypeOK, NoClaim
<1>6. TypeOK'
  <2>1. runs' \in [Keys -> Nat] /\ forced' \in [Keys -> Nat]
    BY <1>2 DEF TakeClaim, PayerInv, TypeOK
  <2>. QED
    BY <1>1, <1>4, <1>5, <2>1 DEF PayerInv, TypeOK
<1>7. \A v \in Workers : InTime(v) => worker[v].key # k
  <2>. SUFFICES ASSUME NEW v \in Workers, InTime(v), worker[v].key = k
                PROVE  FALSE
    OBVIOUS
  <2>1. claims[k].status = "claimed" /\ claims[k].age <= Expiry
    BY DEF PayerInv, HoldsClaim, InTime
  <2>2. ~Expired(k)
    BY <1>2, <2>1, TimeAssumption DEF Expired, Claim
  <2>3. worker[w].pc = "retake" => worker[w].seen \in Terminal
    BY DEF PayerInv, HoldsClaim
  <2>. QED
    BY <1>1, <2>1, <2>2, <2>3 DEF Wins, Terminal
<1>8. \A v \in Workers : HoldsClaim(v)'
  <2>1. HoldsClaim(w)'
    BY <1>2, <1>3, <1>4, <1>5, TimeAssumption DEF HoldsClaim, InTime, Paying
  <2>2. ASSUME NEW v \in Workers, v # w PROVE HoldsClaim(v)'
    <3>1. InTime(v)' => InTime(v)
      BY <1>1, <1>4, <2>2 DEF InTime
    <3>2. InTime(v) => worker[v].key \in Keys
      BY DEF PayerInv, HoldsClaim, InTime, Paying
    <3>. QED
      BY <1>4, <1>5, <1>7, <2>2, <3>1, <3>2 DEF PayerInv, HoldsClaim
  <2>. QED
    BY <2>1, <2>2
<1>9. OnePayer'
  <2>. SUFFICES ASSUME NEW u \in Workers, NEW v \in Workers, u # v,
                       worker'[u].pc \in Paying, worker'[v].pc \in Paying,
                       worker'[u].key = worker'[v].key, worker'[u].key \notin late
                PROVE  worker'[u].elapsed > Expiry \/ worker'[v].elapsed > Expiry
    BY <1>1 DEF OnePayer
  <2>1. ASSUME NEW x \in Workers, x # w, worker[x].pc \in Paying, worker[x].key = k, k \notin late
        PROVE  worker[x].elapsed > Expiry
    <3>1. worker[x].elapsed \in Nat
      BY DEF PayerInv, TypeOK, Worker
    <3>. QED
      BY <1>7, <2>1, <3>1, TimeAssumption DEF InTime
  <2>2. CASE u = w
    BY <1>3, <1>4, <2>1, <2>2
  <2>3. CASE v = w
    BY <1>3, <1>4, <2>1, <2>3
  <2>4. CASE u # w /\ v # w
    BY <1>4, <2>4 DEF PayerInv, OnePayer
  <2>. QED
    BY <2>2, <2>3, <2>4
<1>. QED
  BY <1>6, <1>8, <1>9 DEF PayerInv

(* A paying worker moves on inside its evaluation: the claims are untouched. *)
LEMMA AdvancePayers ==
  ASSUME PayerInv, NEW w \in Workers, NEW r \in Worker,
         worker' = [worker EXCEPT ![w] = r],
         worker[w].pc \in Paying, r.pc \in Paying, r.key = worker[w].key,
         r.elapsed = worker[w].elapsed,
         r.pc \in {"record", "inserted", "locked"} => r.result \in Terminal,
         lastId' \in Nat,
         UNCHANGED <<claims, history, current, runs, forced, crashes, late>>
  PROVE  PayerInv'
<1>1. /\ worker' \in [Workers -> Worker] /\ worker'[w] = r
      /\ \A v \in Workers : v # w => worker'[v] = worker[v]
  BY WorkerUpdate DEF PayerInv
<1>2. HoldsClaim(w)'
  BY <1>1 DEF PayerInv, HoldsClaim, InTime, Paying
<1>. QED
  BY <1>1, <1>2, OwnStep DEF PayerInv, TypeOK

(* An evaluation that needs no provider call. *)
LEMMA DecidePayers ==
  ASSUME PayerInv, NEW w \in Workers, NEW result \in Terminal, DecideWithoutCall(w, result)
  PROVE  PayerInv'
<1>. DEFINE r == [worker[w] EXCEPT !.pc = "record", !.result = result]
<1>1. /\ worker[w] \in Worker /\ worker[w].pc \in Paying
      /\ worker' = [worker EXCEPT ![w] = r]
  BY DEF DecideWithoutCall, PayerInv, TypeOK, Paying
<1>2. /\ r \in Worker /\ r.pc = "record" /\ r.key = worker[w].key
      /\ r.elapsed = worker[w].elapsed /\ r.result \in Terminal
  BY <1>1 DEF Worker, Pcs, Paying, Results, Terminal
<1>. HIDE DEF r
<1>. QED
  BY <1>1, <1>2, AdvancePayers DEF DecideWithoutCall, Paying, PayerInv, TypeOK

(* A provider call, valid or not, and its one repair. *)
LEMMA CallPayers ==
  ASSUME PayerInv, NEW w \in Workers, NEW valid \in BOOLEAN, CallProvider(w, valid)
  PROVE  PayerInv'
<1>. DEFINE me == worker[w]
            pc == IF valid \/ me.calls = 1 THEN "record" ELSE me.pc
            result == IF valid THEN "completed" ELSE IF me.calls = 1 THEN "failed" ELSE me.result
            r == [me EXCEPT !.calls = @ + 1, !.pc = pc, !.result = result]
<1>1. /\ me \in Worker /\ me.pc = "evaluating" /\ me.calls < 2
      /\ worker' = [worker EXCEPT ![w] = r]
  BY DEF CallProvider, PayerInv, TypeOK
<1>2. /\ r.pc = pc /\ r.key = me.key /\ r.elapsed = me.elapsed /\ r.result = result
      /\ r.calls = me.calls + 1 /\ r.id = me.id /\ r.base = me.base /\ r.seen = me.seen
      /\ r \in Worker
  <2>1. pc \in Pcs /\ result \in Results /\ me.calls + 1 \in 0 .. 2
    BY <1>1 DEF Worker, Pcs, Paying, Results
  <2>. HIDE DEF pc, result
  <2>2. r \in Worker
    BY <1>1, <2>1, FieldsTyped, Zenon
  <2>. QED
    BY <1>1, <2>2 DEF Worker
<1>3. /\ r.pc \in Paying
      /\ r.pc \in {"record", "inserted", "locked"} => r.result \in Terminal
  BY <1>1, <1>2 DEF Paying, Terminal
<1>. HIDE DEF r
<1>. QED
  BY <1>1, <1>2, <1>3, AdvancePayers DEF CallProvider, Paying, PayerInv, TypeOK

(* The flushed history row and the read of the current position. *)
LEMMA RecordPayers ==
  ASSUME PayerInv, NEW w \in Workers, InsertHistory(w) \/ ReadCurrent(w)
  PROVE  PayerInv'
<1>. DEFINE me == worker[w]
<1>1. me \in Worker /\ current \in Current /\ lastId \in Nat
  BY DEF PayerInv, TypeOK
<1>2. CASE InsertHistory(w)
  <2>. DEFINE r == [me EXCEPT !.pc = "inserted", !.id = lastId + 1]
  <2>1. worker' = [worker EXCEPT ![w] = r] /\ me.pc = "record" /\ lastId' = lastId + 1
    BY <1>2 DEF InsertHistory
  <2>2. /\ r \in Worker /\ r.pc = "inserted" /\ r.key = me.key /\ r.elapsed = me.elapsed
        /\ r.result = me.result
    <3>1. "inserted" \in Pcs /\ lastId + 1 \in Nat
      BY <1>1 DEF Pcs, Paying
    <3>2. r \in Worker
      BY <1>1, <3>1, FieldsTyped, Zenon
    <3>. QED
      BY <1>1, <3>2 DEF Worker
  <2>. HIDE DEF r
  <2>3. me.result \in Terminal /\ lastId' \in Nat
    BY <1>1, <2>1 DEF PayerInv, HoldsClaim
  <2>. QED
    BY <1>2, <2>1, <2>2, <2>3, AdvancePayers DEF InsertHistory, Paying
<1>3. CASE ReadCurrent(w)
  <2>. DEFINE r == [me EXCEPT !.pc = "locked", !.base = current]
  <2>1. worker' = [worker EXCEPT ![w] = r] /\ me.pc = "inserted" /\ lastId' = lastId
    BY <1>3 DEF ReadCurrent
  <2>2. /\ r \in Worker /\ r.pc = "locked" /\ r.key = me.key /\ r.elapsed = me.elapsed
        /\ r.result = me.result
    <3>1. "locked" \in Pcs
      BY DEF Pcs, Paying
    <3>2. r \in Worker
      BY <1>1, <3>1, FieldsTyped, Zenon
    <3>. QED
      BY <1>1, <3>2 DEF Worker
  <2>. HIDE DEF r
  <2>3. me.result \in Terminal
    BY <2>1 DEF PayerInv, HoldsClaim
  <2>4. UNCHANGED <<claims, history, current, runs, forced, crashes, late>>
    BY <1>3 DEF ReadCurrent
  <2>5. worker[w].pc \in Paying /\ r.pc \in Paying
    BY <2>1, <2>2 DEF Paying
  <2>. QED
    BY <1>1, <2>1, <2>2, <2>3, <2>4, <2>5, AdvancePayers
<1>. QED
  BY <1>2, <1>3

(* A commit in time settles the claim of the one payer in time; a later one makes the
   fingerprint late. *)
LEMMA CommitPayers ==
  ASSUME PayerInv, NEW w \in Workers, Commit(w)
  PROVE  PayerInv'
<1>. DEFINE me == worker[w]
            k == me.key
<1>1. /\ me.pc = "locked" /\ me \in Worker /\ k \in Keys /\ me.result \in Terminal
      /\ claims' = [claims EXCEPT ![k] = Settled(w)] /\ current' = Updated(w)
      /\ history' = history \cup {[id |-> me.id, key |-> k, result |-> me.result]}
      /\ late' = (IF me.elapsed > Expiry THEN late \cup {k} ELSE late)
      /\ Leave(w) /\ UNCHANGED <<lastId, runs, forced, crashes>>
  BY DEF Commit, PayerInv, TypeOK, HoldsClaim
<1>2. /\ worker' \in [Workers -> Worker] /\ worker'[w] = Idle
      /\ \A v \in Workers : v # w => worker'[v] = worker[v]
  BY <1>1, IdleTyped, WorkerUpdate DEF PayerInv, Leave
<1>3. /\ claims' \in [Keys -> Claim]
      /\ \A j \in Keys : j # k => claims'[j] = claims[j]
  <2>1. Settled(w) \in Claim
    <3>1. claims[k] \in Claim /\ me.id \in Nat /\ me.result \in Statuses
      BY <1>1 DEF PayerInv, TypeOK, Worker, Statuses
    <3>2. Settled(w) = [claims[k] EXCEPT !.status = me.result, !.history = me.id]
      BY DEF Settled
    <3>. HIDE DEF k, me
    <3>. QED BY <3>1, <3>2 DEF Claim
  <2>. QED
    BY <1>1, <2>1 DEF PayerInv, TypeOK
<1>4. current' \in Current
  <2>1. current \in Current /\ me.base \in Current /\ me.id \in Nat /\ me.result \in Results
    BY <1>1 DEF PayerInv, TypeOK, Worker
  <2>. QED
    BY <1>1, <2>1 DEF Updated, Current
<1>5. history' \subseteq Entry
  BY <1>1 DEF PayerInv, TypeOK, Entry, Worker
<1>6. TypeOK'
  BY <1>1, <1>2, <1>3, <1>4, <1>5 DEF PayerInv, TypeOK
<1>7. \A v \in Workers : v # w /\ InTime(v) /\ k \notin late' => worker[v].key # k
  <2>. SUFFICES ASSUME NEW v \in Workers, v # w, InTime(v), k \notin late', worker[v].key = k
                PROVE  FALSE
    OBVIOUS
  <2>1. k \notin late /\ ~(me.elapsed > Expiry) /\ me.pc \in Paying
    BY <1>1 DEF Paying
  <2>2. worker[v].elapsed > Expiry
    BY <2>1 DEF PayerInv, OnePayer, InTime
  <2>3. worker[v].elapsed \in Nat
    BY DEF PayerInv, TypeOK, Worker
  <2>. QED
    BY <2>2, <2>3, TimeAssumption DEF InTime
<1>8. ASSUME NEW v \in Workers PROVE HoldsClaim(v)'
  <2>1. CASE v = w
    BY <1>2, <2>1 DEF HoldsClaim, InTime, Idle, Paying
  <2>2. CASE v # w
    <3>1. InTime(v)' => InTime(v) /\ worker[v].key \notin late'
      BY <1>1, <1>2, <2>2 DEF InTime
    <3>2. InTime(v) => worker[v].key \in Keys
      BY DEF PayerInv, HoldsClaim, InTime, Paying
    <3>. QED
      BY <1>2, <1>3, <1>7, <2>2, <3>1, <3>2 DEF PayerInv, HoldsClaim
  <2>. QED
    BY <2>1, <2>2
<1>9. OnePayer'
  <2>1. worker'[w].pc \notin Paying /\ late \subseteq late'
    BY <1>1, <1>2 DEF Idle, Paying
  <2>. QED
    BY <1>2, <2>1 DEF PayerInv, OnePayer
<1>. QED
  BY <1>6, <1>8, <1>9 DEF PayerInv

(* Time passes for the claims and for their holders alike. *)
LEMMA TickPayers ==
  ASSUME PayerInv, Tick
  PROVE  PayerInv'
<1>1. \A k \in Keys : claims'[k] =
         IF claims[k].status = "claimed" /\ claims[k].age <= Expiry
         THEN [claims[k] EXCEPT !.age = @ + 1] ELSE claims[k]
  BY DEF Tick
<1>2. \A w \in Workers : worker'[w] =
         IF worker[w].pc \in Paying THEN [worker[w] EXCEPT !.elapsed = @ + 1] ELSE worker[w]
  BY DEF Tick
<1>3. claims' \in [Keys -> Claim]
  <2>1. ASSUME NEW k \in Keys PROVE claims'[k] \in Claim
    <3>1. claims[k] \in Claim
      BY DEF PayerInv, TypeOK
    <3>. QED
      <4>1. CASE claims[k].status = "claimed" /\ claims[k].age <= Expiry
        <5>1. claims[k].age + 1 \in 0 .. Expiry + 1
          BY <3>1, <4>1, TimeAssumption DEF Claim
        <5>2. claims'[k] = [claims[k] EXCEPT !.age = claims[k].age + 1]
          BY <1>1, <4>1
        <5>. QED
          BY <3>1, <5>1, <5>2, FieldsTyped, Zenon
      <4>2. CASE ~(claims[k].status = "claimed" /\ claims[k].age <= Expiry)
        BY <1>1, <3>1, <4>2
      <4>. QED
        BY <4>1, <4>2
  <2>. QED
    BY <2>1 DEF Tick
<1>4. worker' \in [Workers -> Worker]
  <2>1. ASSUME NEW w \in Workers PROVE worker'[w] \in Worker
    <3>1. worker[w] \in Worker
      BY DEF PayerInv, TypeOK
    <3>. QED
      <4>1. worker[w].elapsed + 1 \in Nat
        BY <3>1 DEF Worker
      <4>2. [worker[w] EXCEPT !.elapsed = worker[w].elapsed + 1] \in Worker
        BY <3>1, <4>1, FieldsTyped, Zenon
      <4>. QED
        BY <1>2, <3>1, <4>2
  <2>. QED
    BY <2>1 DEF Tick
<1>5. \A w \in Workers :
        /\ worker'[w].pc = worker[w].pc /\ worker'[w].key = worker[w].key
        /\ worker'[w].seen = worker[w].seen /\ worker'[w].result = worker[w].result
        /\ worker'[w].elapsed = IF worker[w].pc \in Paying THEN worker[w].elapsed + 1
                                                            ELSE worker[w].elapsed
  BY <1>2 DEF PayerInv, TypeOK, Worker
<1>6. ASSUME NEW w \in Workers PROVE HoldsClaim(w)'
  <2>1. CASE InTime(w)'
    <3>. DEFINE k == worker[w].key
    <3>1. /\ k \in Keys /\ claims[k].status = "claimed" /\ claims[k].age = worker[w].elapsed
          /\ worker[w].elapsed < Expiry /\ worker[w].elapsed \in Nat
          /\ claims[k] \in Claim /\ worker[w].pc \in Paying
      <4>1. worker[w].pc \in Paying /\ worker[w].elapsed + 1 <= Expiry /\ k \notin late
        BY <1>5, <2>1 DEF InTime, Tick
      <4>2. worker[w].elapsed \in Nat
        BY DEF PayerInv, TypeOK, Worker
      <4>3. InTime(w)
        BY <4>1, <4>2, TimeAssumption DEF InTime
      <4>. QED
        BY <4>1, <4>2, <4>3, TimeAssumption DEF PayerInv, TypeOK, HoldsClaim, Paying
    <3>2. claims'[k].status = "claimed" /\ claims'[k].age = worker[w].elapsed + 1
      <4>1. claims[k].age <= Expiry
        BY <3>1, TimeAssumption
      <4>2. claims'[k] = [claims[k] EXCEPT !.age = claims[k].age + 1]
        BY <1>1, <3>1, <4>1
      <4>. QED
        BY <3>1, <4>2 DEF Claim
    <3>. QED
      BY <1>5, <3>1, <3>2, TimeAssumption DEF PayerInv, HoldsClaim
  <2>2. CASE ~InTime(w)'
    BY <1>5, <2>2 DEF PayerInv, HoldsClaim
  <2>. QED
    BY <2>1, <2>2
<1>7. OnePayer'
  <2>1. ASSUME NEW w \in Workers, worker[w].elapsed > Expiry PROVE worker'[w].elapsed > Expiry
    <3>1. worker[w].elapsed \in Nat
      BY DEF PayerInv, TypeOK, Worker
    <3>. QED
      BY <1>5, <2>1, <3>1, TimeAssumption
  <2>. QED
    BY <1>5, <2>1 DEF PayerInv, OnePayer, Tick
<1>8. TypeOK'
  BY <1>3, <1>4 DEF PayerInv, TypeOK, Tick
<1>. QED
  BY <1>6, <1>7, <1>8 DEF PayerInv

(* Whoever pays in time holds the claim, and every variable keeps its type. *)
THEOREM PayersHoldClaims == Spec => []PayerInv
<1>1. Init => PayerInv
  BY InitPayers
<1>2. PayerInv /\ [Next]_vars => PayerInv'
  <2>. SUFFICES ASSUME PayerInv, [Next]_vars PROVE PayerInv'
    OBVIOUS
  <2>1. ASSUME NEW w \in Workers, LoseClaim(w) \/ RollBack(w) \/ Crash(w) PROVE PayerInv'
    <3>1. crashes' \in Nat
      BY <2>1 DEF LoseClaim, RollBack, Crash, PayerInv, TypeOK
    <3>. QED
      BY <2>1, <3>1, LeavePayers DEF LoseClaim, RollBack, Crash
  <2>2. CASE UNCHANGED vars
    BY <2>2 DEF vars, PayerInv, TypeOK, HoldsClaim, InTime, OnePayer
  <2>. QED
    BY <2>1, <2>2, LookPayers, TakePayers, DecidePayers, CallPayers, RecordPayers,
       CommitPayers, TickPayers DEF Next
<1>. QED
  BY <1>1, <1>2, PTL DEF Spec

(* AgentEvaluationClaim: "two concurrent workers can never both pay for the same
   evaluation", unless one of them outlasts the expiry of its claim, however long
   evaluations take. *)
THEOREM OnePayerPerEvaluation == Spec => []OnePayer
<1>1. PayerInv => OnePayer
  BY DEF PayerInv
<1>. QED
  BY <1>1, PayersHoldClaims, PTL
-----------------------------------------------------------------------------
(* What the recording transaction leaves behind. *)

(* A fingerprint has one result more than its forced retakes once it is settled, and
   not before; a settled claim names its row. *)
RecordInv ==
  /\ IsFiniteSet(history)
  /\ ClaimNamesItsHistory
  /\ \A k \in Keys \ late :
       Cardinality(ResultsOf(k)) <= forced[k] + IF claims[k].status \in Terminal THEN 1 ELSE 0

(* The results of a fingerprint are finitely many. *)
LEMMA ResultsFinite ==
  ASSUME IsFiniteSet(history), NEW k
  PROVE  IsFiniteSet(ResultsOf(k)) /\ Cardinality(ResultsOf(k)) \in Nat
<1>1. ResultsOf(k) \subseteq history
  BY DEF ResultsOf
<1>. QED
  BY <1>1, FS_Subset, FS_CardinalityType

(* Steps that neither settle a claim nor take one keep the accounts. *)
LEMMA QuietRecords ==
  ASSUME RecordInv, UNCHANGED <<history, forced, late>>,
         \A k \in Keys : /\ claims'[k].status = claims[k].status
                         /\ claims'[k].history = claims[k].history
  PROVE  RecordInv'
<1>1. \A k \in Keys : ResultsOf(k)' = ResultsOf(k)
  BY DEF ResultsOf
<1>. QED
  BY <1>1 DEF RecordInv, ClaimNamesItsHistory

(* A retake of a settled claim is counted, the other two ways in find none settled. *)
LEMMA TakeRecords ==
  ASSUME PayerInv, RecordInv, NEW w \in Workers, TakeClaim(w)
  PROVE  RecordInv'
<1>. DEFINE k == worker[w].key
<1>1. /\ worker[w].pc \in {"insert", "reclaim", "retake"} /\ Wins(w, k)
      /\ k \in Keys /\ history' = history /\ late' = late
      /\ claims' = [claims EXCEPT ![k] = [NoClaim EXCEPT !.status = "claimed"]]
      /\ forced' = [forced EXCEPT ![k] = IF worker[w].pc = "retake" THEN @ + 1 ELSE @]
  BY DEF TakeClaim, PayerInv, HoldsClaim
<1>2. \A j \in Keys : ResultsOf(j)' = ResultsOf(j)
  BY <1>1 DEF ResultsOf
<1>3. /\ claims'[k].status = "claimed"
      /\ \A j \in Keys : j # k => claims'[j] = claims[j] /\ forced'[j] = forced[j]
  BY <1>1 DEF PayerInv, TypeOK, NoClaim
<1>4. claims[k].status \in Terminal => forced'[k] = forced[k] + 1
  <2>1. claims[k].status \in Terminal => worker[w].pc = "retake"
    BY <1>1 DEF Wins, Terminal
  <2>. QED
    BY <1>1, <2>1 DEF PayerInv, TypeOK
<1>5. claims[k].status \notin Terminal => forced'[k] >= forced[k]
  BY <1>1 DEF PayerInv, TypeOK
<1>6. forced[k] \in Nat /\ Cardinality(ResultsOf(k)) \in Nat
  BY <1>1, ResultsFinite DEF PayerInv, TypeOK, RecordInv
<1>7. k \notin late => Cardinality(ResultsOf(k)) <= forced'[k]
  BY <1>1, <1>4, <1>5, <1>6 DEF RecordInv
<1>8. forced'[k] \in Nat
  BY <1>1, <1>6 DEF PayerInv, TypeOK
<1>9. \A j \in Keys \ late :
        Cardinality(ResultsOf(j))' <= forced'[j] + IF claims'[j].status \in Terminal THEN 1 ELSE 0
  <2>. SUFFICES ASSUME NEW j \in Keys \ late
                PROVE  Cardinality(ResultsOf(j)) <=
                         forced'[j] + IF claims'[j].status \in Terminal THEN 1 ELSE 0
    BY <1>2
  <2>1. CASE j = k
    BY <1>3, <1>6, <1>7, <1>8, <2>1 DEF Terminal
  <2>2. CASE j # k
    BY <1>3, <2>2 DEF RecordInv
  <2>. QED
    BY <2>1, <2>2
<1>10. ClaimNamesItsHistory'
  BY <1>2, <1>3 DEF RecordInv, ClaimNamesItsHistory, Terminal
<1>. QED
  BY <1>1, <1>9, <1>10 DEF RecordInv

(* The commit adds one result to a fingerprint whose claim was not settled. *)
LEMMA CommitRecords ==
  ASSUME PayerInv, RecordInv, NEW w \in Workers, NEW k \in Keys, k = worker[w].key,
         Commit(w)
  PROVE  RecordInv'
<1>. DEFINE me == worker[w]
            h == [id |-> me.id, key |-> k, result |-> me.result]
<1>1. /\ me.pc = "locked" /\ me.result \in Terminal /\ claims[k] \in Claim
      /\ late \subseteq late' /\ (k \notin late' => k \notin late /\ ~(me.elapsed > Expiry))
      /\ claims' = [claims EXCEPT ![k] = Settled(w)]
      /\ history' = history \cup {h} /\ forced' = forced
  BY DEF Commit, PayerInv, TypeOK, HoldsClaim, Paying
<1>2. /\ claims'[k].status = me.result /\ claims'[k].history = me.id
      /\ \A j \in Keys : j # k => claims'[j] = claims[j]
  BY <1>1 DEF Settled, Claim, PayerInv, TypeOK
<1>3. h.key = k /\ h.id = me.id /\ h.result = me.result
  OBVIOUS
<1>. HIDE DEF h
<1>4. /\ ResultsOf(k)' = ResultsOf(k) \cup {h}
      /\ \A j \in Keys : j # k => ResultsOf(j)' = ResultsOf(j)
  BY <1>3, <1>1 DEF ResultsOf
<1>5. IsFiniteSet(history')
  BY <1>1, FS_AddElement DEF RecordInv
<1>6. Cardinality(ResultsOf(k)') <= Cardinality(ResultsOf(k)) + 1
  <2>1. IsFiniteSet(ResultsOf(k)) /\ Cardinality(ResultsOf(k)) \in Nat
    BY ResultsFinite DEF RecordInv
  <2>2. Cardinality(ResultsOf(k) \cup {h})
          = IF h \in ResultsOf(k) THEN Cardinality(ResultsOf(k))
                                  ELSE Cardinality(ResultsOf(k)) + 1
    BY <2>1, FS_AddElement
  <2>. QED
    BY <1>4, <2>1, <2>2
<1>7. forced[k] \in Nat /\ Cardinality(ResultsOf(k)) \in Nat /\ Cardinality(ResultsOf(k)') \in Nat
  <2>1. Cardinality(ResultsOf(k)') \in Nat
    BY <1>4, ResultsFinite, FS_AddElement, FS_CardinalityType DEF RecordInv
  <2>. QED
    BY <1>1, <2>1, ResultsFinite DEF PayerInv, TypeOK, RecordInv
<1>8. k \notin late' => Cardinality(ResultsOf(k)) <= forced[k]
  <2>1. me.elapsed \in Nat
    BY DEF PayerInv, TypeOK, Worker
  <2>2. k \notin late' => claims[k].status = "claimed"
    BY <1>1, <2>1, TimeAssumption DEF PayerInv, HoldsClaim, InTime, Paying
  <2>. QED
    BY <1>1, <1>7, <2>2 DEF RecordInv, Terminal
<1>9. \A j \in Keys \ late' :
        Cardinality(ResultsOf(j))' <= forced'[j] + IF claims'[j].status \in Terminal THEN 1 ELSE 0
  <2>. SUFFICES ASSUME NEW j \in Keys \ late'
                PROVE  Cardinality(ResultsOf(j)') <=
                         forced[j] + IF claims'[j].status \in Terminal THEN 1 ELSE 0
    BY <1>1
  <2>1. CASE j = k
    <3>1. Cardinality(ResultsOf(k)') <= forced[k] + 1
      BY <1>6, <1>7, <1>8, <2>1
    <3>. QED
      BY <1>1, <1>2, <2>1, <3>1
  <2>2. CASE j # k
    BY <1>1, <1>2, <1>4, <2>2 DEF RecordInv
  <2>. QED
    BY <2>1, <2>2
<1>10. ClaimNamesItsHistory'
  <2>. SUFFICES ASSUME NEW j \in Keys, claims'[j].status \in Terminal
                PROVE  \E x \in ResultsOf(j)' : x.id = claims'[j].history
                                               /\ x.result = claims'[j].status
    BY DEF ClaimNamesItsHistory
  <2>1. CASE j = k
    BY <1>3, <1>2, <1>4, <2>1
  <2>2. CASE j # k
    BY <1>2, <1>4, <2>2 DEF RecordInv, ClaimNamesItsHistory
  <2>. QED
    BY <2>1, <2>2
<1>. QED
  BY <1>5, <1>9, <1>10 DEF RecordInv

(* Claims and history agree in every reachable state. *)
THEOREM RecordsAgree == Spec => []RecordInv
<1>1. Init => RecordInv
  <2>. SUFFICES ASSUME Init PROVE RecordInv
    OBVIOUS
  <2>1. \A k : ResultsOf(k) = {}
    BY DEF Init, ResultsOf
  <2>2. IsFiniteSet(history) /\ \A k : Cardinality(ResultsOf(k)) = 0
    BY <2>1, FS_EmptySet DEF Init
  <2>. QED
    BY <2>2 DEF Init, RecordInv, ClaimNamesItsHistory, NoClaim, Terminal
<1>2. PayerInv /\ RecordInv /\ [Next]_vars => RecordInv'
  <2>. SUFFICES ASSUME PayerInv, RecordInv, [Next]_vars PROVE RecordInv'
    OBVIOUS
  <2>1. CASE Tick
    <3>1. \A k \in Keys : claims'[k] = claims[k]
             \/ claims'[k] = [claims[k] EXCEPT !.age = claims[k].age + 1]
      BY <2>1 DEF Tick
    <3>2. \A k \in Keys : /\ claims'[k].status = claims[k].status
                         /\ claims'[k].history = claims[k].history
      <4>1. \A k \in Keys : claims[k] \in Claim
        BY DEF PayerInv, TypeOK
      <4>. QED
        BY <3>1, <4>1 DEF Claim
    <3>. QED
      BY <2>1, <3>2, QuietRecords DEF Tick
  <2>2. ASSUME NEW w \in Workers,
               \/ \E k \in Keys, force \in BOOLEAN : Look(w, k, force)
               \/ LoseClaim(w) \/ RollBack(w) \/ Crash(w)
               \/ InsertHistory(w) \/ ReadCurrent(w)
               \/ \E result \in Terminal : DecideWithoutCall(w, result)
               \/ \E valid \in BOOLEAN : CallProvider(w, valid)
        PROVE  RecordInv'
    <3>1. UNCHANGED <<claims, history, forced, late>>
      BY <2>2 DEF Look, LoseClaim, RollBack, Crash, InsertHistory, ReadCurrent,
                  DecideWithoutCall, CallProvider
    <3>. QED
      BY <3>1, QuietRecords
  <2>3. ASSUME NEW w \in Workers, Commit(w) PROVE RecordInv'
    BY <2>3, CommitRecords DEF Commit, PayerInv, HoldsClaim
  <2>4. CASE UNCHANGED vars
    BY <2>4, QuietRecords DEF vars
  <2>. QED
    BY <2>1, <2>2, <2>3, <2>4, TakeRecords DEF Next
<1>. QED
  BY <1>1, <1>2, PayersHoldClaims, PTL DEF Spec

(* A settled evaluation is never paid and recorded again, except by force or by a worker
   that outlasted its claim. *)
THEOREM SettledAtMostOnce == Spec => []SettledOnce
<1>1. PayerInv /\ RecordInv => SettledOnce
  <2>. SUFFICES ASSUME PayerInv, RecordInv, NEW k \in Keys \ late
                PROVE  Cardinality(ResultsOf(k)) <= 1 + forced[k]
    BY DEF SettledOnce
  <2>1. Cardinality(ResultsOf(k)) \in Nat /\ forced[k] \in Nat
    BY ResultsFinite DEF RecordInv, PayerInv, TypeOK
  <2>2. \/ Cardinality(ResultsOf(k)) <= forced[k] + 1
        \/ Cardinality(ResultsOf(k)) <= forced[k] + 0
    BY DEF RecordInv
  <2>. QED
    BY <2>1, <2>2
<1>. QED
  BY <1>1, PayersHoldClaims, RecordsAgree, PTL

(* A settled claim leads its reader to the history row it was settled with, however often
   and however late the fingerprint was recorded. *)
THEOREM ClaimsNameTheirHistory == Spec => []ClaimNamesItsHistory
<1>1. RecordInv => ClaimNamesItsHistory
  BY DEF RecordInv
<1>. QED
  BY <1>1, RecordsAgree, PTL

-----------------------------------------------------------------------------
(* Mandates and baselines. *)

(* A review gives a baseline of the type of the others, counted under the rules and    *)
(* the policy version that its fingerprint names.                                      *)
LEMMA ComputedIsHonest ==
  ASSUME NEW o \in Operators, NEW m \in Mandates, stamp \in Nat,
         operator[o].rows \in Rows, operator[o].version \in Nat, operator[o].universe \in Nat
  PROVE  Computed(o, m) \in Baselines /\ Honest(Computed(o, m))
<1>1. /\ operator[o].rows[m].b1 \in BOOLEAN /\ operator[o].rows[m].rules \in Rules
      /\ stamp + 1 \in Nat
  BY DEF Rows
<1>2. Computed(o, m) \in Baselines
  BY <1>1 DEF Computed, Baselines, Fingerprints, Summaries, Fingerprint, Summary
<1>3. Honest(Computed(o, m))
  BY DEF Computed, Honest, Fingerprint, Summary
<1>. QED
  BY <1>2, <1>3

(* Beginning and leaving a command keep the operators in their type. *)
LEMMA BeginTyped ==
  ASSUME MandateTypeOK, MandateAssumption, NEW o \in Operators, NEW todo \in SUBSET Mandates,
         NEW pc \in {"seeding", "applying", "restoring", "syncing"}, Begin(o, pc, todo)
  PROVE  /\ operator' \in [Operators -> Work]
         /\ \A p \in Operators : operator'[p].pc # "idle" => operator'[p].rows \in Rows
         /\ operator'[o].pc = pc /\ operator'[o].rows = mandates /\ operator'[o].todo = todo
         /\ operator'[o].version = version /\ operator'[o].universe = universe
         /\ \A p \in Operators : p # o => operator'[p] = operator[p]
<1>. DEFINE work == [pc |-> pc, rows |-> mandates, version |-> version,
                     universe |-> universe, todo |-> todo]
<1>1. version \in Nat /\ universe \in Nat /\ mandates \in Rows
  BY DEF MandateTypeOK, MandateAssumption
<1>2. /\ work \in Work /\ work.pc = pc /\ work.rows = mandates /\ work.todo = todo
      /\ work.version = version /\ work.universe = universe
  BY <1>1 DEF Work
<1>3. operator' = [operator EXCEPT ![o] = work]
  BY DEF Begin
<1>. HIDE DEF work
<1>. QED
  BY <1>1, <1>2, <1>3 DEF MandateTypeOK

(* Likewise when an operator is done, or its process dies. *)
LEMMA EndTyped ==
  ASSUME MandateTypeOK, NEW o \in Operators, EndCommand(o)
  PROVE  /\ operator' \in [Operators -> Work]
         /\ \A p \in Operators : operator'[p].pc # "idle" => operator'[p].rows \in Rows
         /\ operator'[o].pc = "idle"
         /\ \A p \in Operators : p # o => operator'[p] = operator[p]
<1>1. NoCommand \in Work /\ NoCommand.pc = "idle"
  BY DEF NoCommand, Work
<1>. QED
  BY <1>1 DEF MandateTypeOK, EndCommand

(* The seeded mandates are well typed. *)
LEMMA InitTyped == ASSUME MandateAssumption, MandateInit PROVE MandateTypeOK
<1>1. mandates \in Rows
  <2>1. \A c \in BOOLEAN : [fp |-> Fingerprint(c, "old", 1), at |-> 1,
                            summary |-> Summary("old", 1, 0)] \in Baselines
    BY DEF Baselines, Fingerprints, Summaries, Fingerprint, Summary, Rules
  <2>2. NoBaseline \in Baselines /\ "old" \in Rules
    BY DEF NoBaseline, Baselines, Rules
  <2>. QED
    BY <2>1, <2>2 DEF MandateInit, Rows
<1>2. NoCommand \in Work /\ NoCommand.pc = "idle"
  BY DEF NoCommand, Work
<1>3. /\ operator \in [Operators -> Work]
      /\ \A o \in Operators : operator[o].pc = "idle"
  BY <1>2 DEF MandateInit
<1>4. report = NoReport /\ version = 1 /\ universe = 0 /\ stamp = 1
  BY DEF MandateInit
<1>5. /\ DOMAIN report.old = DOMAIN report.new /\ DOMAIN report.old \subseteq Mandates
      /\ \A m \in DOMAIN report.old : report.old[m] \in Baselines
  BY <1>4 DEF NoReport
<1>. QED
  BY <1>1, <1>3, <1>4, <1>5 DEF MandateTypeOK, MandateAssumption

(* The mandates and the report after each command, and the operators between them. *)
LEMMA NextTyped == ASSUME MandateAssumption, MandateTypeOK, [MandateNext]_mandateVars PROVE MandateTypeOK'
<1>1. /\ version \in Nat /\ universe \in Nat /\ stamp \in Nat /\ mandates \in Rows
      /\ operator \in [Operators -> Work]
  BY DEF MandateTypeOK, MandateAssumption
<1>2. ASSUME NEW o \in Operators,
             BeginBootstrap(o) \/ BeginApply(o) \/ BeginRestore(o)
               \/ \E m \in Mandates : BeginSync(o, m)
      PROVE  MandateTypeOK'
  <2>1. UNCHANGED <<mandates, version, universe, stamp, report>>
    BY <1>2 DEF BeginBootstrap, BeginApply, BeginRestore, BeginSync
  <2>2. \E todo \in SUBSET Mandates, pc \in {"seeding", "applying", "restoring", "syncing"} :
          Begin(o, pc, todo)
    <3>1. CASE BeginBootstrap(o)
      BY <3>1 DEF BeginBootstrap
    <3>2. CASE BeginApply(o)
      BY <3>2 DEF BeginApply, StaleNow
    <3>3. CASE BeginRestore(o)
      BY <3>3 DEF BeginRestore, MandateTypeOK
    <3>4. CASE \E m \in Mandates : BeginSync(o, m)
      BY <3>4 DEF BeginSync
    <3>. QED
      BY <1>2, <3>1, <3>2, <3>3, <3>4
  <2>3. /\ operator' \in [Operators -> Work]
        /\ \A p \in Operators : operator'[p].pc # "idle" => operator'[p].rows \in Rows
    BY <2>2, BeginTyped
  <2>. QED
    BY <2>1, <2>3 DEF MandateTypeOK
<1>3. ASSUME NEW o \in Operators, CommitSeed(o) PROVE MandateTypeOK'
  <2>. DEFINE me == operator[o]
  <2>1. /\ me \in Work /\ me.rows \in Rows
        /\ operator' = [operator EXCEPT ![o] = [me EXCEPT !.pc = "listing"]]
    BY <1>1, <1>3 DEF CommitSeed, MandateTypeOK
  <2>2. [me EXCEPT !.pc = "listing"] \in Work /\ [me EXCEPT !.pc = "listing"].rows = me.rows
    BY <2>1 DEF Work
  <2>3. ASSUME NEW m \in Mandates
        PROVE  Seeded(o, m) \in [b1 : BOOLEAN, rules : Rules, baseline : Baselines]
    <3>1. /\ mandates[m] \in [b1 : BOOLEAN, rules : Rules, baseline : Baselines]
          /\ me.rows[m].rules \in Rules /\ me.version \in Nat
      BY <1>1, <2>1 DEF Rows, Work
    <3>2. Fingerprint(TRUE, me.rows[m].rules, me.version) \in Fingerprints
      BY <3>1 DEF Fingerprint, Fingerprints
    <3>3. ASSUME NEW f \in Fingerprints
          PROVE  [[mandates[m] EXCEPT !.b1 = TRUE] EXCEPT !.baseline.fp = f]
                   \in [b1 : BOOLEAN, rules : Rules, baseline : Baselines]
      BY <3>1, <3>3 DEF Baselines
    <3>4. [mandates[m] EXCEPT !.b1 = TRUE] \in [b1 : BOOLEAN, rules : Rules, baseline : Baselines]
      BY <3>1
    <3>. QED
      BY <3>1, <3>2, <3>3, <3>4 DEF Seeded
  <2>4. mandates' \in Rows
    BY <1>3, <2>3 DEF CommitSeed, Rows
  <2>. HIDE DEF me
  <2>. QED
    BY <2>1, <2>2, <2>4, <1>3 DEF CommitSeed, MandateTypeOK
<1>4. ASSUME NEW o \in Operators, ListStale(o) PROVE MandateTypeOK'
  <2>1. PICK stale \in SUBSET Mandates :
          operator' = [operator EXCEPT ![o] =
            IF stale = {} THEN NoCommand
            ELSE [@ EXCEPT !.pc = "onboarding", !.rows = mandates, !.universe = universe,
                           !.todo = stale]]
    BY <1>4 DEF ListStale
  <2>2. NoCommand \in Work /\ NoCommand.pc = "idle" /\ operator[o] \in Work
    BY <1>1 DEF NoCommand, Work
  <2>3. LET me == [operator[o] EXCEPT !.pc = "onboarding", !.rows = mandates,
                                      !.universe = universe, !.todo = stale]
        IN  me \in Work /\ me.rows = mandates
    BY <1>1, <2>2 DEF Work
  <2>4. /\ operator' \in [Operators -> Work]
        /\ \A p \in Operators : operator'[p].pc # "idle" => operator'[p].rows \in Rows
    BY <1>1, <2>1, <2>2, <2>3 DEF MandateTypeOK
  <2>. QED
    BY <2>4, <1>4 DEF ListStale, MandateTypeOK
<1>5. ASSUME NEW o \in Operators, NEW m \in Mandates, OnboardOne(o, m) PROVE MandateTypeOK'
  <2>1. operator[o] \in Work /\ operator[o].rows \in Rows /\ operator[o].pc = "onboarding"
    BY <1>1, <1>5 DEF OnboardOne, MandateTypeOK
  <2>2. Computed(o, m) \in Baselines
    BY <1>1, <2>1, ComputedIsHonest DEF Work
  <2>3. mandates' \in Rows
    BY <1>1, <1>5, <2>2 DEF OnboardOne, Rows
  <2>4. /\ operator' \in [Operators -> Work]
        /\ \A p \in Operators : operator'[p].pc # "idle" => operator'[p].rows \in Rows
    <3>1. PICK rest \in SUBSET Mandates :
            operator' = [operator EXCEPT ![o] = IF rest = {} THEN NoCommand ELSE [@ EXCEPT !.todo = rest]]
      BY <1>5, <2>1 DEF OnboardOne, Work
    <3>2. NoCommand \in Work /\ NoCommand.pc = "idle"
      BY DEF NoCommand, Work
    <3>3. /\ [operator[o] EXCEPT !.todo = rest] \in Work
          /\ [operator[o] EXCEPT !.todo = rest].rows \in Rows
      BY <2>1 DEF Work
    <3>. QED
      BY <1>1, <3>1, <3>2, <3>3 DEF MandateTypeOK
  <2>5. stamp' \in 1 .. MaxStamp
    BY <1>5 DEF OnboardOne, MandateTypeOK, MandateAssumption
  <2>. QED
    BY <2>3, <2>4, <2>5, <1>5 DEF OnboardOne, MandateTypeOK
<1>6. ASSUME NEW o \in Operators, CommitApply(o) PROVE MandateTypeOK'
  <2>1. /\ operator[o] \in Work /\ operator[o].rows \in Rows
        /\ operator[o].pc = "applying" /\ operator[o].todo \subseteq Mandates
    BY <1>1, <1>6 DEF CommitApply, MandateTypeOK, Work
  <2>2. \A m \in Mandates : Computed(o, m) \in Baselines /\ operator[o].rows[m].baseline \in Baselines
    BY <1>1, <2>1, ComputedIsHonest DEF Work, Rows
  <2>3. mandates' \in Rows
    BY <1>1, <1>6, <2>2 DEF CommitApply, Rows
  <2>4. /\ DOMAIN report'.old = DOMAIN report'.new /\ DOMAIN report'.old \subseteq Mandates
        /\ \A m \in DOMAIN report'.old : report'.old[m] \in Baselines
    BY <1>6, <2>1, <2>2 DEF CommitApply
  <2>5. stamp' \in 1 .. MaxStamp
    BY <1>6 DEF CommitApply, MandateTypeOK, MandateAssumption
  <2>6. EndCommand(o) /\ UNCHANGED <<version, universe>>
    BY <1>6 DEF CommitApply
  <2>7. /\ operator' \in [Operators -> Work]
        /\ \A p \in Operators : operator'[p].pc # "idle" => operator'[p].rows \in Rows
    BY <2>6, EndTyped
  <2>. QED
    BY <2>3, <2>4, <2>5, <2>6, <2>7 DEF MandateTypeOK
<1>7. ASSUME NEW o \in Operators, CommitRestore(o) PROVE MandateTypeOK'
  <2>1. mandates' \in Rows
    BY <1>1, <1>7 DEF CommitRestore, MandateTypeOK, Rows
  <2>. QED
    BY <2>1, <1>7, EndTyped DEF CommitRestore, MandateTypeOK
<1>8. ASSUME NEW o \in Operators, NEW m \in Mandates, CommitSync(o, m) PROVE MandateTypeOK'
  <2>1. mandates' \in Rows
    BY <1>1, <1>8 DEF CommitSync, Rows, Rules
  <2>. QED
    BY <2>1, <1>8, EndTyped DEF CommitSync, MandateTypeOK
<1>9. ASSUME NEW o \in Operators, Dies(o) PROVE MandateTypeOK'
  BY <1>9, EndTyped DEF Dies, MandateTypeOK
<1>10. ASSUME NEW m \in Mandates, Drift(m) PROVE MandateTypeOK'
  <2>1. mandates' \in Rows
    BY <1>1, <1>10 DEF Drift, Rows, Rules
  <2>. QED
    BY <2>1, <1>10 DEF Drift, MandateTypeOK
<1>11. CASE PlanReonboarding \/ Deploy \/ Discover \/ \E m \in Mandates : PlanSync(m)
  BY <1>11 DEF PlanReonboarding, Deploy, Discover, PlanSync, MandateTypeOK, MandateAssumption
<1>12. CASE UNCHANGED mandateVars
  BY <1>12 DEF mandateVars, MandateTypeOK
<1>. QED
  BY <1>2, <1>3, <1>4, <1>5, <1>6, <1>7, <1>8, <1>9, <1>10, <1>11, <1>12 DEF MandateNext

(* The baselines of the seeded mandates were counted under what they name. *)
LEMMA InitHonest == ASSUME MandateAssumption, MandateInit PROVE HonestEverywhere
<1>1. HonestRows(mandates)
  BY DEF MandateInit, MandateAssumption, HadB1, HonestRows, Honest, NoBaseline, Fingerprint, Summary
<1>2. report = NoReport /\ \A o \in Operators : operator[o].pc = "idle"
  BY DEF MandateInit, NoCommand
<1>. QED
  BY <1>1, <1>2 DEF HonestEverywhere, NoReport

(* A step that leaves the stored baselines and the report alone, and in which an       *)
(* operator loads the mandates, leaves, or only loses work, keeps honesty.             *)
LEMMA LoadedHonest ==
  ASSUME HonestEverywhere, HonestRows(mandates)', NEW o \in Operators, UNCHANGED report,
         \A p \in Operators : p # o => operator'[p] = operator[p],
         \/ operator'[o].pc = "idle"
         \/ operator'[o].rows \in {mandates, operator[o].rows} /\ operator[o].pc # "idle"
         \/ operator'[o].rows = mandates,
         operator'[o].pc = "seeding" => operator'[o].todo \cap HadB1 = {}
  PROVE  HonestEverywhere'
BY DEF HonestEverywhere, HonestRows

(* To such a mandate no command writes a baseline but by a review or from               *)
(* the report of one.                                                                  *)
LEMMA NextHonest ==
  ASSUME MandateAssumption, MandateTypeOK, HonestEverywhere, [MandateNext]_mandateVars
  PROVE  HonestEverywhere'
<1>1. /\ version \in Nat /\ universe \in Nat /\ stamp \in Nat /\ mandates \in Rows
      /\ operator \in [Operators -> Work] /\ HonestRows(mandates)
  BY DEF MandateTypeOK, MandateAssumption, HonestEverywhere
<1>2. ASSUME NEW o \in Operators, NEW todo \in SUBSET Mandates,
             NEW pc \in {"seeding", "applying", "restoring", "syncing"}, Begin(o, pc, todo),
             pc = "seeding" => todo \cap HadB1 = {}, UNCHANGED <<mandates, report>>
      PROVE  HonestEverywhere'
  <2>1. HonestRows(mandates)'
    BY <1>1, <1>2 DEF HonestRows
  <2>. QED
    BY <2>1, <1>2, BeginTyped, LoadedHonest
<1>3. ASSUME NEW o \in Operators, EndCommand(o), UNCHANGED report, HonestRows(mandates)'
      PROVE  HonestEverywhere'
  BY <1>3, EndTyped, LoadedHonest
<1>4. ASSUME NEW o \in Operators, BeginBootstrap(o) PROVE HonestEverywhere'
  <2>. DEFINE bare == {m \in Mandates : ~mandates[m].b1}
  <2>1. bare \in SUBSET Mandates /\ bare \cap HadB1 = {}
    BY <1>1 DEF HonestRows
  <2>2. Begin(o, "seeding", bare) /\ UNCHANGED <<mandates, report>>
    BY <1>4 DEF BeginBootstrap
  <2>. HIDE DEF bare
  <2>. QED
    BY <2>1, <2>2, <1>2
<1>5. ASSUME NEW o \in Operators, CommitSeed(o) PROVE HonestEverywhere'
  <2>1. /\ operator[o].todo \cap HadB1 = {} /\ operator[o].pc = "seeding"
        /\ UNCHANGED report
    BY <1>5 DEF CommitSeed, HonestEverywhere
  <2>2. HonestRows(mandates)'
    BY <2>1, <1>1, <1>5 DEF CommitSeed, Seeded, HonestRows, HadB1
  <2>3. /\ operator'[o].rows = operator[o].rows /\ operator'[o].pc = "listing"
        /\ \A p \in Operators : p # o => operator'[p] = operator[p]
    BY <1>1, <1>5 DEF CommitSeed, Work
  <2>. QED
    BY <2>1, <2>2, <2>3, LoadedHonest
<1>6. ASSUME NEW o \in Operators, ListStale(o) PROVE HonestEverywhere'
  <2>1. PICK stale \in SUBSET Mandates :
          operator' = [operator EXCEPT ![o] =
            IF stale = {} THEN NoCommand
            ELSE [@ EXCEPT !.pc = "onboarding", !.rows = mandates, !.universe = universe,
                           !.todo = stale]]
    BY <1>6 DEF ListStale
  <2>2. /\ operator'[o].pc = "idle" \/ (operator'[o].rows = mandates /\ operator'[o].pc = "onboarding")
        /\ \A p \in Operators : p # o => operator'[p] = operator[p]
    BY <1>1, <2>1 DEF Work, NoCommand
  <2>3. HonestRows(mandates)' /\ UNCHANGED report
    BY <1>1, <1>6 DEF ListStale, HonestRows
  <2>. QED
    BY <2>2, <2>3, LoadedHonest
<1>7. ASSUME NEW o \in Operators, NEW m \in Mandates, OnboardOne(o, m) PROVE HonestEverywhere'
  <2>1. operator[o] \in Work /\ operator[o].rows \in Rows /\ operator[o].pc = "onboarding"
    BY <1>1, <1>7 DEF OnboardOne, MandateTypeOK
  <2>2. Honest(Computed(o, m))
    BY <1>1, <2>1, ComputedIsHonest DEF Work
  <2>3. HonestRows(mandates)' /\ UNCHANGED report
    BY <1>1, <1>7, <2>2 DEF OnboardOne, Rows, HonestRows, HadB1
  <2>4. PICK rest :
          operator' = [operator EXCEPT ![o] = IF rest = {} THEN NoCommand ELSE [@ EXCEPT !.todo = rest]]
    BY <1>7 DEF OnboardOne
  <2>5. /\ operator'[o].pc = "idle" \/ (operator'[o].rows = operator[o].rows /\ operator'[o].pc = "onboarding")
        /\ \A p \in Operators : p # o => operator'[p] = operator[p]
    BY <1>1, <2>1, <2>4 DEF Work, NoCommand
  <2>. QED
    BY <2>1, <2>3, <2>5, LoadedHonest
<1>8. ASSUME NEW o \in Operators, CommitApply(o) PROVE HonestEverywhere'
  <2>1. /\ operator[o] \in Work /\ operator[o].rows \in Rows /\ EndCommand(o)
        /\ HonestRows(operator[o].rows) /\ operator[o].todo \subseteq Mandates
    BY <1>1, <1>8 DEF CommitApply, MandateTypeOK, HonestEverywhere, Work
  <2>2. \A m \in Mandates : Honest(Computed(o, m))
    BY <1>1, <2>1, ComputedIsHonest DEF Work
  <2>3. HonestRows(mandates)'
    BY <1>1, <1>8, <2>2 DEF CommitApply, Rows, HonestRows, HadB1
  <2>4. \A m \in HadB1 \cap DOMAIN report'.old : Honest(report'.old[m])
    BY <1>8, <2>1 DEF CommitApply, HonestRows
  <2>5. /\ operator'[o].pc = "idle"
        /\ \A p \in Operators : p # o => operator'[p] = operator[p]
    BY <2>1, EndTyped
  <2>. QED
    BY <2>3, <2>4, <2>5 DEF HonestEverywhere
<1>9. ASSUME NEW o \in Operators, CommitRestore(o) PROVE HonestEverywhere'
  <2>1. HonestRows(mandates)'
    BY <1>1, <1>9 DEF CommitRestore, HonestEverywhere, HonestRows, Rows, HadB1
  <2>. QED
    BY <2>1, <1>3, <1>9 DEF CommitRestore
<1>10. ASSUME NEW o \in Operators, NEW m \in Mandates, CommitSync(o, m) PROVE HonestEverywhere'
  <2>1. HonestRows(mandates)'
    BY <1>1, <1>10 DEF CommitSync, HonestRows, Rows, HadB1
  <2>. QED
    BY <2>1, <1>3, <1>10 DEF CommitSync
<1>11. ASSUME NEW o \in Operators, Dies(o) PROVE HonestEverywhere'
  BY <1>1, <1>3, <1>11 DEF Dies, HonestRows
<1>12. ASSUME NEW m \in Mandates, Drift(m) PROVE HonestEverywhere'
  <2>1. HonestRows(mandates)'
    BY <1>1, <1>12 DEF Drift, HonestRows, Rows, HadB1
  <2>. QED
    BY <2>1, <1>12 DEF Drift, HonestEverywhere, HonestRows
<1>13. CASE PlanReonboarding \/ Deploy \/ Discover \/ (\E m \in Mandates : PlanSync(m)) \/ UNCHANGED mandateVars
  <2>1. UNCHANGED <<mandates, report, operator>>
    BY <1>13 DEF PlanReonboarding, Deploy, Discover, PlanSync, mandateVars
  <2>. QED
    BY <2>1 DEF HonestEverywhere, HonestRows
<1>14. ASSUME NEW o \in Operators, BeginApply(o) PROVE HonestEverywhere'
  BY <1>2, <1>14 DEF BeginApply, StaleNow
<1>15. ASSUME NEW o \in Operators, BeginRestore(o) PROVE HonestEverywhere'
  BY <1>2, <1>15 DEF BeginRestore, MandateTypeOK
<1>16. ASSUME NEW o \in Operators, NEW m \in Mandates, BeginSync(o, m) PROVE HonestEverywhere'
  BY <1>2, <1>16 DEF BeginSync
<1>. QED
  BY <1>4, <1>5, <1>6, <1>7, <1>8, <1>9, <1>10, <1>11, <1>12, <1>13, <1>14, <1>15, <1>16 DEF MandateNext

(* Where a plan is entered, the operator has loaded what the reviewed digest says.     *)
LEMMA BeginApplyReviewed ==
  ASSUME MandateAssumption, MandateTypeOK, NEW o \in Operators, BeginApply(o)
  PROVE  /\ \E d \in reviewed : d.kind = "reonboard" /\ d.entries = Loaded(operator'[o])
         /\ reviewed' = reviewed
         /\ \A p \in Operators : p # o => operator'[p] = operator[p]
<1>1. /\ operator'[o].rows = mandates /\ operator'[o].todo = StaleNow
      /\ operator'[o].version = version /\ operator'[o].universe = universe
      /\ \A p \in Operators : p # o => operator'[p] = operator[p]
  BY BeginTyped DEF BeginApply, StaleNow
<1>2. Digest(mandates, StaleNow, version, universe) \in reviewed /\ reviewed' = reviewed
  BY DEF BeginApply
<1>3. /\ Digest(mandates, StaleNow, version, universe).kind = "reonboard"
      /\ Digest(mandates, StaleNow, version, universe).entries = Loaded(operator'[o])
  BY <1>1 DEF Digest, Loaded
<1>. QED
  BY <1>1, <1>2, <1>3

(* No other step brings an operator to the point of applying, or forgets a review.     *)
LEMMA NextReviewed ==
  ASSUME MandateAssumption, MandateTypeOK, AppliersHoldReviewed, [MandateNext]_mandateVars
  PROVE  AppliersHoldReviewed'
<1>1. ASSUME NEW o \in Operators, reviewed \subseteq reviewed', operator'[o].pc # "applying",
             \A p \in Operators : p # o => operator'[p] = operator[p]
      PROVE  AppliersHoldReviewed'
  <2>1. ASSUME NEW p \in Operators, operator'[p].pc = "applying"
        PROVE  \E d \in reviewed' : d.kind = "reonboard" /\ d.entries = Loaded(operator'[p])
    <3>1. operator'[p] = operator[p]
      BY <1>1, <2>1
    <3>. QED
      BY <1>1, <2>1, <3>1 DEF AppliersHoldReviewed
  <2>. QED
    BY <2>1 DEF AppliersHoldReviewed
<1>2. ASSUME NEW o \in Operators, BeginApply(o) PROVE AppliersHoldReviewed'
  <2>1. ASSUME NEW p \in Operators, operator'[p].pc = "applying"
        PROVE  \E d \in reviewed' : d.kind = "reonboard" /\ d.entries = Loaded(operator'[p])
    <3>1. CASE p = o
      BY <1>2, <3>1, BeginApplyReviewed
    <3>2. CASE p # o
      <4>1. operator'[p] = operator[p] /\ reviewed' = reviewed
        BY <1>2, <3>2, BeginApplyReviewed
      <4>. QED
        BY <2>1, <4>1 DEF AppliersHoldReviewed
    <3>. QED
      BY <3>1, <3>2
  <2>. QED
    BY <2>1 DEF AppliersHoldReviewed
<1>3. ASSUME NEW o \in Operators, UNCHANGED reviewed,
             NEW pc \in {"seeding", "restoring", "syncing"}, NEW todo \in SUBSET Mandates,
             Begin(o, pc, todo)
      PROVE  AppliersHoldReviewed'
  BY <1>1, <1>3, BeginTyped
<1>4. ASSUME NEW o \in Operators, UNCHANGED reviewed, EndCommand(o) PROVE AppliersHoldReviewed'
  BY <1>1, <1>4, EndTyped
<1>5. ASSUME NEW o \in Operators, BeginBootstrap(o) \/ BeginRestore(o)
      PROVE  AppliersHoldReviewed'
  BY <1>3, <1>5 DEF BeginBootstrap, BeginRestore, MandateTypeOK
<1>6. ASSUME NEW o \in Operators, NEW m \in Mandates, BeginSync(o, m) \/ CommitSync(o, m)
      PROVE  AppliersHoldReviewed'
  BY <1>3, <1>4, <1>6 DEF BeginSync, CommitSync
<1>7. ASSUME NEW o \in Operators, CommitApply(o) \/ CommitRestore(o) \/ Dies(o)
      PROVE  AppliersHoldReviewed'
  BY <1>4, <1>7 DEF CommitApply, CommitRestore, Dies
<1>8. ASSUME NEW o \in Operators,
             CommitSeed(o) \/ ListStale(o) \/ \E m \in Mandates : OnboardOne(o, m)
      PROVE  AppliersHoldReviewed'
  <2>1. /\ reviewed' = reviewed
        /\ \A p \in Operators : p # o => operator'[p] = operator[p]
    BY <1>8 DEF CommitSeed, ListStale, OnboardOne, MandateTypeOK
  <2>2. operator \in [Operators -> Work]
    BY DEF MandateTypeOK
  <2>3. CASE CommitSeed(o)
    BY <1>1, <2>1, <2>2, <2>3 DEF CommitSeed, Work
  <2>4. CASE ListStale(o)
    BY <1>1, <2>1, <2>2, <2>4 DEF ListStale, Work, NoCommand
  <2>5. CASE \E m \in Mandates : OnboardOne(o, m)
    BY <1>1, <2>1, <2>2, <2>5 DEF OnboardOne, Work, NoCommand
  <2>. QED
    BY <1>8, <2>3, <2>4, <2>5
<1>9. CASE \/ PlanReonboarding \/ Deploy \/ Discover \/ UNCHANGED mandateVars
           \/ \E m \in Mandates : PlanSync(m) \/ Drift(m)
  <2>1. reviewed \subseteq reviewed' /\ UNCHANGED operator
    BY <1>9 DEF PlanReonboarding, Deploy, Discover, PlanSync, Drift, mandateVars
  <2>. QED
    BY <2>1 DEF AppliersHoldReviewed, Loaded
<1>. QED
  BY <1>2, <1>5, <1>6, <1>7, <1>8, <1>9 DEF MandateNext

(* Every mandate, report and command keeps its type (mandate_reonboarding,             *)
(* mandate_sync and the bootstrap).                                                    *)
THEOREM MandatesTyped == ASSUME MandateAssumption PROVE MandateSpec => []MandateTypeOK
<1>1. MandateInit => MandateTypeOK
  BY InitTyped
<1>2. MandateTypeOK /\ [MandateNext]_mandateVars => MandateTypeOK'
  BY NextTyped
<1>. QED
  BY <1>1, <1>2, PTL DEF MandateSpec

(* A mandate that had its B1 fields and is not stale was reviewed under its present      *)
(* rules and the deployed policy version: "never a silent fingerprint rewrite"           *)
(* (buyer_profile_store.py).                                                             *)
THEOREM FreshIsReassessed ==
  ASSUME MandateAssumption PROVE MandateSpec => []FreshWasReassessed
<1>1. MandateInit => HonestEverywhere
  BY InitHonest
<1>2. MandateTypeOK /\ HonestEverywhere /\ [MandateNext]_mandateVars => HonestEverywhere'
  BY NextHonest
<1>3. HonestEverywhere => FreshWasReassessed
  BY DEF HonestEverywhere, HonestRows, HadB1, Honest, FreshWasReassessed, Stale, Fingerprint
<1>. QED
  BY <1>1, <1>2, <1>3, MandatesTyped, PTL DEF MandateSpec

(* Whatever a re-onboarding stamps, somebody reviewed: the plan recomputed at the start *)
(* of the apply is the reviewed one, and what is written is what was loaded then        *)
(* (mandate_reonboarding).                                                              *)
THEOREM AppliedWasReviewed ==
  ASSUME MandateAssumption PROVE MandateSpec => OnlyReviewedIsApplied
<1>1. MandateInit => AppliersHoldReviewed
  BY DEF MandateInit, AppliersHoldReviewed, NoCommand
<1>2. MandateTypeOK /\ AppliersHoldReviewed /\ [MandateNext]_mandateVars => AppliersHoldReviewed'
  BY NextReviewed
<1>. DEFINE A == report' # report
                  => \E d \in reviewed :
                       /\ d.kind = "reonboard"
                       /\ d.entries = [m \in DOMAIN report'.new |->
                            <<report'.old[m].fp, report'.new[m].fp, report'.new[m].summary>>]
<1>3. MandateTypeOK /\ AppliersHoldReviewed /\ [MandateNext]_mandateVars => [A]_mandateVars
  <2>. SUFFICES ASSUME MandateTypeOK, AppliersHoldReviewed, MandateNext, report' # report
                PROVE  \E d \in reviewed :
                         /\ d.kind = "reonboard"
                         /\ d.entries = [m \in DOMAIN report'.new |->
                              <<report'.old[m].fp, report'.new[m].fp, report'.new[m].summary>>]
    BY DEF mandateVars
  <2>1. PICK o \in Operators : CommitApply(o)
    BY DEF MandateNext, BeginBootstrap, CommitSeed, ListStale, OnboardOne, PlanReonboarding, BeginApply,
           BeginRestore, CommitRestore, PlanSync, BeginSync, CommitSync, Dies, Deploy, Discover,
           Drift
  <2>2. PICK d \in reviewed : d.kind = "reonboard" /\ d.entries = Loaded(operator[o])
    BY <2>1 DEF CommitApply, AppliersHoldReviewed
  <2>3. /\ DOMAIN report'.new = operator[o].todo
        /\ \A m \in operator[o].todo :
             /\ report'.old[m] = operator[o].rows[m].baseline
             /\ report'.new[m] = Computed(o, m)
    BY <2>1 DEF CommitApply
  <2>4. [m \in DOMAIN report'.new |->
           <<report'.old[m].fp, report'.new[m].fp, report'.new[m].summary>>] = Loaded(operator[o])
    <3>1. ASSUME NEW m
          PROVE  /\ Computed(o, m).fp = Fingerprint(operator[o].rows[m].b1, operator[o].rows[m].rules,
                                                   operator[o].version)
                 /\ Computed(o, m).summary = Summary(operator[o].rows[m].rules,
                                                   operator[o].version, operator[o].universe)
      <4>. DEFINE f == Fingerprint(operator[o].rows[m].b1, operator[o].rows[m].rules,
                                  operator[o].version)
                  s == Summary(operator[o].rows[m].rules, operator[o].version,
                               operator[o].universe)
      <4>1. Computed(o, m) = [fp |-> f, at |-> stamp + 1, summary |-> s]
        BY DEF Computed
      <4>. HIDE DEF f, s
      <4>2. Computed(o, m).fp = f /\ Computed(o, m).summary = s
        BY <4>1
      <4>. QED
        BY <4>2 DEF f, s
    <3>. QED
      BY <2>3, <3>1 DEF Loaded
  <2>. QED
    BY <2>2, <2>4
<1>. QED
  BY <1>1, <1>2, <1>3, MandatesTyped, PTL DEF MandateSpec, OnlyReviewedIsApplied

-----------------------------------------------------------------------------
(* Relationships of Sites and allocations. *)

(* Of natural numbers there is a least. *)
LEMMA LeastNatural ==
  ASSUME NEW T, T \subseteq Nat, T # {}
  PROVE  \E x \in T : \A y \in T : x <= y
<1>. DEFINE R == {ss \in Nat \X Nat : ss[1] < ss[2]}
<1>1. IsWellFoundedOn(R, Nat)
  BY NatLessThanWellFounded, Zenon DEF OpToRel
<1>2. PICK x \in T : \A y \in T : ~ (<<y, x>> \in R)
  <2>. HIDE DEF R
  <2>. QED BY <1>1, WFMin
<1>3. ASSUME NEW y \in T PROVE x <= y
  <2>1. <<y, x>> \notin R
    BY <1>2
  <2>2. <<y, x>> \in Nat \X Nat
    OBVIOUS
  <2>. QED BY <2>1, <2>2
<1>. QED BY <1>3

(* Of some documents one is the heaviest: BestDoc is one of those it chooses from. *)
LEMMA Heaviest ==
  ASSUME NEW hits \in SUBSET Docs, hits # {}
  PROVE  (CHOOSE d \in hits : \A e \in hits : Weight[d] >= Weight[e]) \in hits
<1>1. PICK top \in Docs : \A d \in Docs : Weight[d] <= Weight[top]
  BY EvidenceAssumption
<1>2. \A d \in Docs : Weight[d] \in Nat /\ Weight[top] - Weight[d] \in Nat
  BY <1>1, EvidenceAssumption
<1>. DEFINE Lightness == {Weight[top] - Weight[d] : d \in hits}
<1>3. PICK x \in Lightness : \A y \in Lightness : x <= y
  <2>1. Lightness \subseteq Nat /\ Lightness # {}
    BY <1>2
  <2>. HIDE DEF Lightness
  <2>. QED BY <2>1, LeastNatural
<1>4. PICK d \in hits : x = Weight[top] - Weight[d]
  BY <1>3
<1>5. \A e \in hits : Weight[d] >= Weight[e]
  <2>. TAKE e \in hits
  <2>1. x <= Weight[top] - Weight[e]
    BY <1>3
  <2>. QED BY <2>1, <1>2, <1>4
<1>. QED BY <1>5

(* What the batch has still to do and has done is of its plan, and the plan has been
   through the collision guard: of two allocations of one Site planned on documents, one
   that is accepted has explicit evidence of its own. *)
OfThePlan ==
  batch.todo \subseteq batch.plan /\ batch.new \subseteq {<<x.a, x.s>> : x \in batch.plan}

PlanIsGuarded ==
  \A x, y \in batch.plan :
    x.a # y.a /\ x.s = y.s /\ x.doc # 0 /\ y.doc # 0 /\ x.status = "auto_applied"
      => x.a \in Explicit[x.doc]

(* The target in the cleanup's hand is a row, and no decided one. *)
CleanupHolds == cleanup.pc = "write" => row[cleanup.pair].status \notin {"none", "confirmed", "rejected"}

RelationInv == RelationTypeOK /\ OfThePlan /\ PlanIsGuarded /\ CleanupHolds /\ InsertsAreApart

(* What the controlled write may plan. *)
LEMMA PlannedTyped ==
  ASSUME RelationTypeOK
  PROVE  Planned \subseteq PlanItem
<1>1. ASSUME NEW a \in Allocations, match[a].site # NoSite
      PROVE  [a |-> a, s |-> match[a].site, status |-> match[a].status, doc |-> 0] \in PlanItem
  BY <1>1 DEF RelationTypeOK, MatchRow, PlanItem
<1>2. ASSUME NEW p \in EvidencedPairs
      PROVE  [a |-> p[1], s |-> p[2], status |-> Guarded(p[1], p[2]), doc |-> BestDoc(p[1], p[2])]
               \in PlanItem
  <2>1. p[1] \in Allocations /\ p[2] \in Sites /\ p[2] \in StrongSites(p[1])
    BY DEF EvidencedPairs, Pairs
  <2>. DEFINE hits == {d \in ready : SiteOf[d] = p[2] /\ Supports(d, p[1])}
  <2>2. hits \in SUBSET Docs /\ hits # {}
    BY <2>1 DEF RelationTypeOK, StrongSites
  <2>3. BestDoc(p[1], p[2]) \in Docs
    <3>1. BestDoc(p[1], p[2]) = CHOOSE d \in hits : \A e \in hits : Weight[d] >= Weight[e]
      BY DEF BestDoc
    <3>. HIDE DEF hits
    <3>. QED BY <2>2, <3>1, Heaviest
  <2>4. Guarded(p[1], p[2]) \in RelationStatuses
    BY DEF Guarded, RelationStatuses
  <2>. QED BY <2>1, <2>3, <2>4 DEF PlanItem
<1>. QED BY <1>1, <1>2 DEF Planned

LEMMA RelationTypesBegin == RelationInit => RelationTypeOK
<1>. SUFFICES ASSUME RelationInit PROVE RelationTypeOK
  OBVIOUS
<1>1. row \in [Pairs -> RelationRow] /\ match \in [Allocations -> MatchRow]
  BY EvidenceAssumption DEF RelationInit, RelationRow, MatchRow, NoRow, RelationStatuses
<1>2. scan \in ScanState
  <2>1. [p \in Pairs |-> "none"] \in [Pairs -> RelationStatuses \cup {"none"}]
    OBVIOUS
  <2>. QED BY <2>1 DEF RelationInit, ScanState, NoScan
<1>3. batch \in BatchState /\ cleanup \in CleanupState
  BY DEF RelationInit, BatchState, NoBatch, CleanupState, NoCleanup
<1>. QED
  BY <1>1, <1>2, <1>3, RunAssumption DEF RelationInit, RelationTypeOK, NoScan, NoBatch, NoCleanup

(* A step of the scan that leaves the rest alone. *)
LEMMA ScanTypes ==
  ASSUME RelationTypeOK, ScanStep
  PROVE  RelationTypeOK'
<1>1. CASE StartScan
  <2>1. [p \in Pairs |-> row[p].status] \in [Pairs -> RelationStatuses \cup {"none"}]
    BY DEF RelationTypeOK, RelationRow
  <2>2. Oldest(Limit, ready \ scanned) \subseteq Docs
    BY DEF Oldest, RelationTypeOK
  <2>3. scan' \in ScanState /\ scan'.pc = "batch"
    BY <1>1, <2>1, <2>2 DEF StartScan, ScanState, NoScan
  <2>. QED BY <1>1, <2>3 DEF StartScan, RelationTypeOK
<1>2. CASE EndScan
  <2>1. [p \in Pairs |-> "none"] \in [Pairs -> RelationStatuses \cup {"none"}]
    OBVIOUS
  <2>2. scan' \in ScanState /\ scan'.pc = "idle"
    BY <1>2, <2>1 DEF EndScan, ScanState, NoScan
  <2>. QED BY <1>2, <2>2 DEF EndScan, RelationTypeOK
<1>3. CASE InsertPair
  <2>1. scan.pair \in Pairs /\ scan.doc \in Docs /\ "auto_applied" \in RelationStatuses
    BY <1>3 DEF InsertPair, RelationTypeOK, RelationStatuses
  <2>2. [scan.seen EXCEPT ![scan.pair] = "auto_applied"] \in [Pairs -> RelationStatuses \cup {"none"}]
    BY <2>1 DEF RelationTypeOK, ScanState
  <2>3. scan.new \cup {<<scan.pair, scan.doc>>} \in SUBSET (Pairs \X Docs)
    BY <2>1 DEF RelationTypeOK, ScanState
  <2>4. scan' = [scan EXCEPT !.pc = "doc", !.left = @ \ {scan.pair},
                   !.new = scan.new \cup {<<scan.pair, scan.doc>>},
                   !.seen = [scan.seen EXCEPT ![scan.pair] = "auto_applied"]]
    BY <1>3 DEF InsertPair
  <2>5. scan' \in ScanState /\ scan'.pc = "doc" /\ scan'.doc = scan.doc
    BY <2>2, <2>3, <2>4 DEF RelationTypeOK, ScanState
  <2>. QED BY <1>3, <2>1, <2>5 DEF InsertPair, RelationTypeOK
<1>4. CASE FailDocument
  <2>1. [p \in Pairs |-> IF scan.seen[p] # "none" /\ Exists(p) THEN row[p].status ELSE scan.seen[p]]
          \in [Pairs -> RelationStatuses \cup {"none"}]
    BY DEF RelationTypeOK, RelationRow, ScanState
  <2>2. scan' \in ScanState /\ scan'.pc = "batch"
    BY <1>4, <2>1 DEF FailDocument, RelationTypeOK, ScanState
  <2>. QED BY <1>4, <2>2 DEF FailDocument, RelationTypeOK
<1>5. CASE CommitDocument
  <2>1. ASSUME NEW p \in Pairs PROVE Scanned(p) \in RelationRow
    <3>1. CASE p \in Inserted
      <4>1. PICK x \in scan.new : x[1] = p
        BY <3>1 DEF Inserted
      <4>2. (CHOOSE y \in scan.new : y[1] = p) \in scan.new
        BY <4>1
      <4>3. \A y \in scan.new : y[2] \in Docs
        BY DEF RelationTypeOK, ScanState
      <4>. QED BY <3>1, <4>2, <4>3 DEF Scanned, RelationRow, RelationStatuses
    <3>2. CASE p \notin Inserted
      BY <3>2 DEF Scanned, RelationTypeOK, RelationRow, RelationStatuses
    <3>. QED BY <3>1, <3>2
  <2>2. row' \in [Pairs -> RelationRow]
    BY <1>5, <2>1 DEF CommitDocument
  <2>3. scan' \in ScanState /\ scan'.pc = "batch" /\ scan.doc \in Docs
    BY <1>5 DEF CommitDocument, RelationTypeOK, ScanState
  <2>. QED BY <1>5, <2>2, <2>3 DEF CommitDocument, RelationTypeOK
<1>6. ASSUME NEW d \in scan.todo, OpenDocument(d) PROVE RelationTypeOK'
  <2>1. d \in Docs
    BY DEF RelationTypeOK, ScanState
  <2>2. \A as \in SUBSET Allocations : PairsOf(d, as) \subseteq Pairs
    <3>1. SiteOf[d] \in Sites
      BY <2>1, EvidenceAssumption
    <3>2. \A a \in Allocations : <<a, SiteOf[d]>> \in Pairs
      BY <3>1 DEF Pairs
    <3>. QED BY <3>2 DEF PairsOf
  <2>3. Flagged(d) \subseteq Pairs /\ {p \in PairsOf(d, Explicit[d]) : scan.seen[p] = "none"} \subseteq Pairs
    BY <2>1, <2>2, EvidenceAssumption DEF Flagged
  <2>4. [p \in Pairs |-> IF p \in Flagged(d) THEN "needs_confirmation" ELSE scan.seen[p]]
          \in [Pairs -> RelationStatuses \cup {"none"}]
    BY DEF RelationTypeOK, ScanState, RelationStatuses
  <2>5. scan' \in ScanState /\ scan'.pc = "doc" /\ scan'.doc = d
    BY <1>6, <2>1, <2>3, <2>4 DEF OpenDocument, RelationTypeOK, ScanState
  <2>. QED BY <1>6, <2>1, <2>5 DEF OpenDocument, RelationTypeOK
<1>7. ASSUME NEW d \in scan.todo, SkipPoison(d) PROVE RelationTypeOK'
  <2>1. scan' \in ScanState /\ scan'.pc = "batch"
    BY <1>7 DEF SkipPoison, RelationTypeOK, ScanState
  <2>. QED BY <1>7, <2>1 DEF SkipPoison, RelationTypeOK
<1>8. ASSUME NEW p \in Pairs, CheckPair(p) PROVE RelationTypeOK'
  <2>1. scan' \in ScanState /\ scan'.pc \in {"doc", "insert"} /\ scan'.doc = scan.doc
        /\ (scan'.pc = "insert" => scan'.pair = p)
    BY <1>8 DEF CheckPair, RelationTypeOK, ScanState
  <2>. QED BY <1>8, <2>1 DEF CheckPair, RelationTypeOK
<1>. QED
  BY <1>1, <1>2, <1>3, <1>4, <1>5, <1>6, <1>7, <1>8 DEF ScanStep

LEMMA BatchTypes ==
  ASSUME RelationTypeOK, OfThePlan, PlanBatch \/ BatchStep
  PROVE  RelationTypeOK'
<1>1. CASE PlanBatch
  <2>1. {x \in Planned : ~Exists(<<x.a, x.s>>)} \in SUBSET PlanItem
    BY PlannedTyped
  <2>2. batch' \in BatchState /\ batch'.pc = "batch"
    BY <1>1, <2>1 DEF PlanBatch, BatchState, NoBatch
  <2>. QED BY <1>1, <2>2 DEF PlanBatch, RelationTypeOK
<1>2. ASSUME NEW x \in batch.todo, CheckItem(x) PROVE RelationTypeOK'
  <2>1. /\ batch' \in BatchState /\ batch'.plan = batch.plan
        /\ (batch'.pc = "insert" => batch'.item = x)
    BY <1>2 DEF CheckItem, OfThePlan, RelationTypeOK, BatchState
  <2>. QED BY <1>2, <2>1 DEF CheckItem, OfThePlan, RelationTypeOK
<1>3. CASE InsertItem
  <2>1. <<batch.item.a, batch.item.s>> \in Pairs
    BY <1>3 DEF InsertItem, RelationTypeOK, BatchState, PlanItem, Pairs
  <2>2. batch' \in BatchState /\ batch'.pc = "batch"
    BY <1>3, <2>1 DEF InsertItem, RelationTypeOK, BatchState
  <2>. QED BY <1>3, <2>2 DEF InsertItem, RelationTypeOK
<1>4. CASE AbortBatch
  <2>1. batch' \in BatchState /\ batch'.pc = "idle"
    BY <1>4 DEF AbortBatch, BatchState, NoBatch
  <2>. QED BY <1>4, <2>1 DEF AbortBatch, RelationTypeOK
<1>5. CASE CommitBatch
  <2>1. ASSUME NEW p \in batch.new
        PROVE  (CHOOSE y \in batch.plan : <<y.a, y.s>> = p) \in batch.plan
    BY DEF OfThePlan
  <2>2. batch.plan \subseteq PlanItem
    BY DEF RelationTypeOK, BatchState
  <2>3. row' \in [Pairs -> RelationRow]
    BY <1>5, <2>1, <2>2 DEF CommitBatch, RelationTypeOK, RelationRow, PlanItem
  <2>4. ASSUME NEW a \in Allocations PROVE Pointed(a) \in MatchRow
    <3>. DEFINE mine == {x \in batch.plan : x.a = a /\ x.doc # 0}
    <3>1. match[a] \in MatchRow
      BY DEF RelationTypeOK
    <3>2. CASE Cardinality(mine) = 1
      <4>1. mine # {}
        BY <3>2, FS_EmptySet
      <4>2. (CHOOSE x \in mine : TRUE) \in PlanItem
        BY <4>1, <2>2
      <4>3. (CHOOSE x \in mine : TRUE).s \in Sites
        BY <4>2 DEF PlanItem
      <4>. HIDE DEF mine
      <4>4. Pointed(a) = match[a] \/ Pointed(a) = [match[a] EXCEPT !.site = (CHOOSE x \in mine : TRUE).s]
        BY DEF Pointed, mine
      <4>. QED BY <3>1, <4>3, <4>4 DEF MatchRow
    <3>3. CASE Cardinality(mine) # 1
      BY <3>1, <3>3 DEF Pointed
    <3>. QED BY <3>2, <3>3
  <2>5. match' \in [Allocations -> MatchRow]
    BY <1>5, <2>4 DEF CommitBatch
  <2>6. batch' \in BatchState /\ batch'.pc = "idle"
    BY <1>5 DEF CommitBatch, BatchState, NoBatch
  <2>. QED BY <1>5, <2>3, <2>5, <2>6 DEF CommitBatch, RelationTypeOK
<1>. QED
  BY <1>1, <1>2, <1>3, <1>4, <1>5 DEF BatchStep

LEMMA OtherTypes ==
  ASSUME RelationTypeOK, RelationNext, ~ScanStep, ~PlanBatch, ~BatchStep
  PROVE  RelationTypeOK'
<1>1. ASSUME NEW d \in Docs, Extract(d) PROVE RelationTypeOK'
  BY <1>1 DEF Extract, RelationTypeOK
<1>2. ASSUME NEW a \in Allocations, NEW verdict \in {"confirmed", "rejected"}, ReviewMatch(a, verdict)
      PROVE  RelationTypeOK'
  <2>1. match[a] \in MatchRow /\ verdict \in RelationStatuses
    BY DEF RelationTypeOK, RelationStatuses
  <2>2. /\ [match[a] EXCEPT !.status = verdict, !.declined = NoSite] \in MatchRow
        /\ [site |-> NoSite, status |-> verdict, declined |-> match[a].site] \in MatchRow
    BY <2>1 DEF MatchRow
  <2>3. match' \in [Allocations -> MatchRow]
    BY <1>2, <2>2 DEF ReviewMatch, RelationTypeOK
  <2>4. reviews' \in 0 .. MaxDecisions
    BY <1>2, RunAssumption DEF ReviewMatch, RelationTypeOK
  <2>. QED BY <1>2, <2>3, <2>4 DEF ReviewMatch, RelationTypeOK
<1>3. ASSUME NEW p \in Pairs, NEW action \in {"reject", "needs_confirmation"}, Revalidate(p, action)
      PROVE  RelationTypeOK'
  BY <1>3 DEF Revalidate, RelationTypeOK, CleanupState
<1>4. CASE WriteTarget
  <2>1. cleanup.pair \in Pairs /\ TargetStatus(cleanup.action) \in RelationStatuses
    BY <1>4 DEF WriteTarget, TargetStatus, RelationTypeOK, CleanupState, RelationStatuses
  <2>2. [status |-> TargetStatus(cleanup.action), doc |-> row[cleanup.pair].doc] \in RelationRow
    BY <2>1 DEF RelationTypeOK, RelationRow
  <2>3. row' \in [Pairs -> RelationRow]
    BY <1>4, <2>1, <2>2 DEF WriteTarget, RelationTypeOK
  <2>. QED BY <1>4, <2>3 DEF WriteTarget, NoCleanup, RelationTypeOK, CleanupState
<1>5. ToReject \subseteq Pairs /\ ToConfirm \subseteq Pairs
  BY TargetAssumption
<1>. QED
  BY <1>1, <1>2, <1>3, <1>4, <1>5 DEF RelationNext

(* The plan is guarded when it is made, and what is inserted is of it. *)
LEMMA BatchPlans ==
  ASSUME RelationInv, RelationNext
  PROVE  OfThePlan' /\ PlanIsGuarded'
<1>1. CASE batch' = batch
  BY <1>1 DEF RelationInv, OfThePlan, PlanIsGuarded
<1>2. CASE PlanBatch
  <2>1. batch'.plan \subseteq Planned /\ batch'.todo = batch'.plan /\ batch'.new = {}
    BY <1>2 DEF PlanBatch, NoBatch
  <2>2. ASSUME NEW x \in Planned, NEW y \in Planned, x.a # y.a, x.s = y.s, x.doc # 0, y.doc # 0,
               x.status = "auto_applied"
        PROVE  x.a \in Explicit[x.doc]
    <3>1. PICK p \in EvidencedPairs :
            x = [a |-> p[1], s |-> p[2], status |-> Guarded(p[1], p[2]), doc |-> BestDoc(p[1], p[2])]
      BY <2>2 DEF Planned
    <3>2. PICK q \in EvidencedPairs :
            y = [a |-> q[1], s |-> q[2], status |-> Guarded(q[1], q[2]), doc |-> BestDoc(q[1], q[2])]
      BY <2>2 DEF Planned
    <3>3. q = <<q[1], q[2]>> /\ q[1] \in Allocations
      BY DEF EvidencedPairs, Pairs
    <3>4. <<q[1], p[2]>> \in EvidencedPairs /\ q[1] \in Allocations \ {p[1]}
      BY <2>2, <3>1, <3>2, <3>3
    <3>5. Guarded(p[1], p[2]) = "auto_applied"
      BY <2>2, <3>1
    <3>6. p[1] \in Explicit[BestDoc(p[1], p[2])]
      BY <3>4, <3>5 DEF Guarded
    <3>. QED BY <3>1, <3>6
  <2>. QED BY <2>1, <2>2 DEF OfThePlan, PlanIsGuarded
<1>3. ASSUME NEW x \in batch.todo, CheckItem(x) PROVE OfThePlan' /\ PlanIsGuarded'
  <2>1. batch'.plan = batch.plan /\ batch'.todo \subseteq batch.todo /\ batch'.new = batch.new
    BY <1>3 DEF CheckItem, RelationInv, RelationTypeOK, BatchState
  <2>. QED BY <2>1 DEF RelationInv, OfThePlan, PlanIsGuarded
<1>4. CASE InsertItem
  <2>1. /\ batch'.plan = batch.plan /\ batch'.todo \subseteq batch.todo
        /\ batch'.new = batch.new \cup {<<batch.item.a, batch.item.s>>}
        /\ batch.item \in batch.plan
    BY <1>4 DEF InsertItem, RelationInv, RelationTypeOK, BatchState
  <2>. QED BY <2>1 DEF RelationInv, OfThePlan, PlanIsGuarded
<1>5. CASE AbortBatch \/ CommitBatch
  BY <1>5 DEF AbortBatch, CommitBatch, NoBatch, OfThePlan, PlanIsGuarded
<1>. QED
  BY <1>1, <1>2, <1>3, <1>4, <1>5
  DEF RelationNext, ScanStep, BatchStep, Extract, ReviewMatch, Revalidate, WriteTarget, StartScan,
      EndScan, InsertPair, FailDocument, CommitDocument, OpenDocument, SkipPoison, CheckPair

(* Neither transaction inserts what the other has, or what is there. *)
LEMMA InsertsStayApart ==
  ASSUME RelationInv, RelationNext
  PROVE  InsertsAreApart'
<1>1. CASE UNCHANGED <<row, batch>> /\ scan'.new \in {scan.new, {}}
  <2>1. Inserted' \subseteq Inserted
    BY <1>1 DEF Inserted
  <2>. QED BY <1>1, <2>1 DEF RelationInv, InsertsAreApart, Exists
<1>2. CASE InsertPair
  <2>1. Inserted' = Inserted \cup {scan.pair}
    <3>1. scan'.new = scan.new \cup {<<scan.pair, scan.doc>>}
      BY <1>2 DEF InsertPair, RelationInv, RelationTypeOK, ScanState
    <3>2. <<scan.pair, scan.doc>>[1] = scan.pair
      OBVIOUS
    <3>3. \A p : p \in Inserted' <=> p \in Inserted \/ p = scan.pair
      BY <3>1, <3>2 DEF Inserted
    <3>. QED BY <3>3
  <2>. QED BY <1>2, <2>1 DEF InsertPair, RelationInv, InsertsAreApart, Exists
<1>3. CASE CommitDocument
  <2>1. Inserted' = {} /\ batch' = batch
    BY <1>3 DEF CommitDocument, Inserted, RelationInv, RelationTypeOK, ScanState
  <2>2. ASSUME NEW p \in batch.new PROVE ~Exists(p)'
    <3>1. p \in Pairs /\ p \notin Inserted /\ ~Exists(p)
      BY DEF RelationInv, RelationTypeOK, BatchState, InsertsAreApart
    <3>2. row'[p] = row[p]
      BY <1>3, <3>1 DEF CommitDocument, Scanned
    <3>. QED BY <3>1, <3>2 DEF Exists
  <2>. QED BY <2>1, <2>2 DEF InsertsAreApart
<1>4. CASE InsertItem
  <2>1. batch'.new = batch.new \cup {<<batch.item.a, batch.item.s>>}
    BY <1>4 DEF InsertItem, RelationInv, RelationTypeOK, BatchState
  <2>2. Inserted' = Inserted /\ row' = row
    BY <1>4 DEF InsertItem, Inserted
  <2>. QED BY <1>4, <2>1, <2>2 DEF InsertItem, RelationInv, InsertsAreApart, Exists
<1>5. CASE PlanBatch \/ AbortBatch
  <2>1. batch'.new = {} /\ Inserted' = Inserted /\ row' = row
    <3>1. batch'.new = {}
      <4>1. NoBatch \in [pc : {"idle"}, plan : {{}}, todo : {{}}, item : {<<>>}, new : {{}}]
        BY DEF NoBatch
      <4>. QED BY <1>5, <4>1 DEF PlanBatch, AbortBatch
    <3>2. scan' = scan /\ row' = row
      BY <1>5 DEF PlanBatch, AbortBatch
    <3>. QED BY <3>1, <3>2 DEF Inserted
  <2>. QED BY <2>1 DEF RelationInv, InsertsAreApart, Exists
<1>6. CASE CommitBatch
  <2>1. batch'.new = {} /\ Inserted' = Inserted
    BY <1>6 DEF CommitBatch, NoBatch, Inserted
  <2>2. ASSUME NEW p \in Inserted PROVE ~Exists(p)'
    <3>1. p \in Pairs /\ p \notin batch.new /\ ~Exists(p)
      BY DEF RelationInv, RelationTypeOK, ScanState, InsertsAreApart, Inserted
    <3>2. row'[p] = row[p]
      BY <1>6, <3>1 DEF CommitBatch
    <3>. QED BY <3>1, <3>2 DEF Exists
  <2>. QED BY <2>1, <2>2 DEF InsertsAreApart
<1>7. CASE WriteTarget
  <2>1. Inserted' = Inserted /\ batch' = batch /\ cleanup.pair \in Pairs /\ Exists(cleanup.pair)
    BY <1>7 DEF WriteTarget, Inserted, RelationInv, RelationTypeOK, CleanupHolds, Exists
  <2>2. ASSUME NEW p \in Inserted \cup batch.new PROVE ~Exists(p)'
    <3>1. p \in Pairs /\ ~Exists(p)
      BY DEF RelationInv, RelationTypeOK, ScanState, BatchState, InsertsAreApart, Inserted
    <3>2. row'[p] = row[p]
      BY <1>7, <2>1, <3>1 DEF WriteTarget, RelationInv, RelationTypeOK
    <3>. QED BY <3>1, <3>2 DEF Exists
  <2>. QED BY <2>1, <2>2 DEF RelationInv, InsertsAreApart
<1>8. ASSUME NEW x \in batch.todo, CheckItem(x) PROVE InsertsAreApart'
  <2>1. batch'.new = batch.new /\ Inserted' = Inserted /\ row' = row
    BY <1>8 DEF CheckItem, Inserted, RelationInv, RelationTypeOK, BatchState
  <2>. QED BY <2>1 DEF RelationInv, InsertsAreApart, Exists
<1>9. ASSUME StartScan \/ EndScan \/ FailDocument
             \/ (\E d \in scan.todo : OpenDocument(d) \/ SkipPoison(d)) \/ (\E p \in Pairs : CheckPair(p))
      PROVE  UNCHANGED <<row, batch>> /\ scan'.new \in {scan.new, {}}
  <2>1. scan \in ScanState
    BY DEF RelationInv, RelationTypeOK
  <2>2. CASE StartScan
    <3>1. NoScan \in [pc : {"idle"}, todo : {{}}, doc : {0}, left : {{}}, pair : {<<>>}, new : {{}},
                      flagged : {{}}, seen : {[p \in Pairs |-> "none"]}]
      BY DEF NoScan
    <3>. QED BY <2>2, <3>1 DEF StartScan
  <2>6. CASE EndScan
    BY <2>6 DEF EndScan, NoScan
  <2>3. CASE FailDocument
    BY <2>1, <2>3 DEF FailDocument, ScanState
  <2>4. ASSUME NEW d \in scan.todo, OpenDocument(d) \/ SkipPoison(d)
        PROVE  UNCHANGED <<row, batch>> /\ scan'.new \in {scan.new, {}}
    BY <2>1, <2>4 DEF OpenDocument, SkipPoison, ScanState
  <2>5. ASSUME NEW p \in Pairs, CheckPair(p)
        PROVE  UNCHANGED <<row, batch>> /\ scan'.new \in {scan.new, {}}
    BY <2>1, <2>5 DEF CheckPair, ScanState
  <2>. QED BY <1>9, <2>2, <2>3, <2>4, <2>5, <2>6
<1>10. ASSUME NEW d \in Docs, Extract(d) PROVE UNCHANGED <<row, batch>> /\ scan'.new \in {scan.new, {}}
  BY <1>10 DEF Extract
<1>11. ASSUME NEW a \in Allocations, NEW verdict, ReviewMatch(a, verdict)
       PROVE  UNCHANGED <<row, batch>> /\ scan'.new \in {scan.new, {}}
  BY <1>11 DEF ReviewMatch
<1>12. ASSUME NEW p, NEW action, Revalidate(p, action)
       PROVE  UNCHANGED <<row, batch>> /\ scan'.new \in {scan.new, {}}
  BY <1>12 DEF Revalidate
<1>. QED
  BY <1>1, <1>2, <1>3, <1>4, <1>5, <1>6, <1>7, <1>8, <1>9, <1>10, <1>11, <1>12
  DEF RelationNext, ScanStep, BatchStep

(* Nobody decides a target while the cleanup has it in hand. *)
LEMMA CleanupKeeps ==
  ASSUME RelationInv, RelationNext
  PROVE  CleanupHolds'
<1>1. CASE UNCHANGED <<row, cleanup>>
  BY <1>1 DEF RelationInv, CleanupHolds
<1>2. CASE CommitDocument
  <2>1. cleanup' = cleanup
    BY <1>2 DEF CommitDocument
  <2>2. ASSUME cleanup.pc = "write"
        PROVE  row'[cleanup.pair].status \notin {"none", "confirmed", "rejected"}
    <3>1. cleanup.pair \in Pairs /\ row[cleanup.pair].status \notin {"none", "confirmed", "rejected"}
      BY <2>2 DEF RelationInv, RelationTypeOK, CleanupHolds
    <3>2. row'[cleanup.pair] = Scanned(cleanup.pair)
      BY <1>2, <3>1 DEF CommitDocument
    <3>3. Scanned(cleanup.pair).status \in {"auto_applied", "needs_confirmation", row[cleanup.pair].status}
      BY DEF Scanned
    <3>. QED BY <3>1, <3>2, <3>3
  <2>. QED BY <2>1, <2>2 DEF CleanupHolds
<1>3. CASE CommitBatch
  <2>1. cleanup' = cleanup
    BY <1>3 DEF CommitBatch
  <2>2. ASSUME cleanup.pc = "write"
        PROVE  row'[cleanup.pair] = row[cleanup.pair]
    <3>1. cleanup.pair \in Pairs /\ Exists(cleanup.pair)
      BY <2>2 DEF RelationInv, RelationTypeOK, CleanupHolds, Exists
    <3>2. cleanup.pair \notin batch.new
      BY <3>1 DEF RelationInv, InsertsAreApart
    <3>. QED BY <1>3, <3>1, <3>2 DEF CommitBatch
  <2>. QED BY <2>1, <2>2 DEF RelationInv, CleanupHolds
<1>4. ASSUME NEW p, NEW action, Revalidate(p, action) PROVE CleanupHolds'
  BY <1>4 DEF Revalidate, MayWrite, Exists, CleanupHolds
<1>5. CASE WriteTarget
  BY <1>5 DEF WriteTarget, NoCleanup, CleanupHolds
<1>. QED
  BY <1>1, <1>2, <1>3, <1>4, <1>5
  DEF RelationNext, ScanStep, BatchStep, Extract, ReviewMatch, StartScan, EndScan, InsertPair,
      FailDocument, OpenDocument, SkipPoison, CheckPair, PlanBatch, CheckItem, InsertItem, AbortBatch

LEMMA RelationInvHolds == RelationSpec => []RelationInv
<1>1. RelationInit => RelationInv
  <2>. SUFFICES ASSUME RelationInit PROVE RelationInv
    OBVIOUS
  <2>1. RelationTypeOK
    BY RelationTypesBegin
  <2>. QED
    BY <2>1 DEF RelationInit, NoScan, NoBatch, NoCleanup, RelationInv, OfThePlan, PlanIsGuarded,
                CleanupHolds, InsertsAreApart, Inserted
<1>2. RelationInv /\ [RelationNext]_relationVars => RelationInv'
  <2>. SUFFICES ASSUME RelationInv, [RelationNext]_relationVars PROVE RelationInv'
    OBVIOUS
  <2>1. CASE RelationNext
    <3>1. RelationTypeOK'
      BY <2>1, ScanTypes, BatchTypes, OtherTypes DEF RelationInv
    <3>. QED BY <2>1, <3>1, BatchPlans, InsertsStayApart, CleanupKeeps DEF RelationInv
  <2>2. CASE UNCHANGED relationVars
    BY <2>2 DEF relationVars, RelationInv, RelationTypeOK, OfThePlan, PlanIsGuarded, CleanupHolds,
                InsertsAreApart, Inserted, Exists
  <2>. QED BY <2>1, <2>2
<1>. QED BY <1>1, <1>2, PTL DEF RelationSpec

(* THEOREM: the rows, the matches and what every writer holds stay in their types; a writer at
   work has a document, a pair, an item or a target in hand. *)
THEOREM RelationTypesHold == RelationSpec => []RelationTypeOK
BY RelationInvHolds, PTL DEF RelationInv

(* THEOREM: the scan and the batch never insert one pair both, nor a pair that is there:
   the unique key is never what keeps a committed row single. *)
THEOREM OneRowEach == RelationSpec => []InsertsAreApart
BY RelationInvHolds, PTL DEF RelationInv

(* THEOREM: the cleanup overwrites no decision, not even one that is made between its
   revalidation and its write. *)
THEOREM CleanupNeverOverwrites == RelationSpec => CleanupRespectsDecisions
<1>. DEFINE A == \A p \in Pairs :
                   cleanup.pc = "write" /\ cleanup.pair = p /\ row'[p] # row[p] /\ cleanup' # cleanup
                     => row[p].status \notin {"confirmed", "rejected"}
<1>1. RelationInv => A
  BY DEF RelationInv, CleanupHolds
<1>2. RelationInv /\ [RelationNext]_relationVars => [A]_relationVars
  BY <1>1
<1>. QED BY <1>2, RelationInvHolds, PTL DEF RelationSpec, CleanupRespectsDecisions

LEMMA PairParts ==
  ASSUME NEW u, NEW v, NEW p, <<u, v>> = p
  PROVE  u = p[1] /\ v = p[2]
OBVIOUS

(* What a batch commits of a pair is an item of its plan. *)
LEMMA CommittedRow ==
  ASSUME OfThePlan, CommitBatch, NEW p \in Pairs, p \in batch.new
  PROVE  \E x \in batch.plan : x.a = p[1] /\ x.s = p[2] /\ row'[p] = [status |-> x.status, doc |-> x.doc]
<1>1. \E y \in batch.plan : <<y.a, y.s>> = p
  BY DEF OfThePlan
<1>2. PICK x : x = CHOOSE y \in batch.plan : <<y.a, y.s>> = p
  OBVIOUS
<1>3. x \in batch.plan /\ <<x.a, x.s>> = p
  BY <1>1, <1>2
<1>4. row'[p] = [status |-> x.status, doc |-> x.doc]
  BY <1>2 DEF CommitBatch
<1>5. x.a = p[1] /\ x.s = p[2]
  BY <1>3, PairParts
<1>. QED BY <1>3, <1>4, <1>5

(* THEOREM: of the relationships one batch accepts on documents for the same Site and
   different allocations, each has explicit evidence of its own, whatever was decided,
   scanned or extracted between the plan and the commit. *)
THEOREM CollisionsNeedEvidence == RelationSpec => CollisionsAreProven
<1>. DEFINE A == \A p, q \in Pairs :
                   /\ p # q /\ p[2] = q[2] /\ {p, q} \subseteq batch.new
                   /\ row'[p] # row[p] /\ row'[q] # row[q]
                   /\ row'[p].status = "auto_applied" /\ row'[p].doc # 0
                   /\ row'[q].doc # 0
                   => p[1] \in Explicit[row'[p].doc]
<1>1. ASSUME RelationInv, RelationNext PROVE A
  <2>. SUFFICES ASSUME NEW p \in Pairs, NEW q \in Pairs, p # q, p[2] = q[2],
                       p \in batch.new, q \in batch.new, row'[p] # row[p], row'[q] # row[q],
                       row'[p].status = "auto_applied", row'[p].doc # 0, row'[q].doc # 0
                PROVE  p[1] \in Explicit[row'[p].doc]
    OBVIOUS
  <2>1. p = <<p[1], p[2]>> /\ q = <<q[1], q[2]>>
    BY DEF Pairs
  <2>2. CASE CommitBatch
    <3>1. PICK x \in batch.plan : x.a = p[1] /\ x.s = p[2] /\ row'[p] = [status |-> x.status, doc |-> x.doc]
      BY <1>1, <2>2, CommittedRow DEF RelationInv
    <3>2. PICK z \in batch.plan : z.a = q[1] /\ z.s = q[2] /\ row'[q] = [status |-> z.status, doc |-> z.doc]
      BY <1>1, <2>2, CommittedRow DEF RelationInv
    <3>4. x.status = "auto_applied" /\ x.doc # 0 /\ z.doc # 0 /\ row'[p].doc = x.doc
      BY <3>1, <3>2
    <3>5. x.a # z.a /\ x.s = z.s
      BY <2>1, <3>1, <3>2
    <3>6. x.a \in Explicit[x.doc]
      BY <1>1, <3>4, <3>5 DEF RelationInv, PlanIsGuarded
    <3>. QED BY <3>1, <3>4, <3>6
  <2>3. CASE CommitDocument
    <3>1. p \notin Inserted /\ ~Exists(p)
      BY <1>1 DEF RelationInv, InsertsAreApart
    <3>2. row'[p] = row[p]
      BY <2>3, <3>1 DEF CommitDocument, Scanned
    <3>. QED BY <3>2
  <2>4. CASE WriteTarget
    <3>1. row'[p] = row[p] \/ row'[q] = row[q]
      BY <1>1, <2>4 DEF WriteTarget, RelationInv, RelationTypeOK
    <3>. QED BY <3>1
  <2>5. ASSUME UNCHANGED row PROVE FALSE
    BY <2>5
  <2>. QED
    BY <1>1, <2>2, <2>3, <2>4, <2>5
    DEF RelationNext, ScanStep, BatchStep, Extract, ReviewMatch, StartScan, EndScan, InsertPair,
        FailDocument, OpenDocument, SkipPoison, CheckPair, PlanBatch, CheckItem, InsertItem,
        AbortBatch, Revalidate
<1>2. RelationInv /\ [RelationNext]_relationVars => [A]_relationVars
  BY <1>1
<1>. QED BY <1>2, RelationInvHolds, PTL DEF RelationSpec, CollisionsAreProven

-----------------------------------------------------------------------------
(* The links of applications to Sites. *)

Homes == Seq(Addresses \cup {Blank, Gone})

(* The ids of the Sites there are; a committed row points to some of them. *)
LEMMA SitesThere ==
  ASSUME sites \in Homes
  PROVE  /\ SiteIds = 1..Len(sites) /\ Len(sites) \in Nat
         /\ Committed \subseteq Here /\ Here \subseteq SiteIds
         /\ None \notin Here /\ Len(sites) + 1 \notin SiteIds
BY DEF Homes, SiteIds, Committed, Here, None

(* More Sites do no harm to a row. *)
LEMMA PlacedWiden ==
  ASSUME NEW S, NEW T, S \subseteq T, NEW r
  PROVE  /\ r \in RowsFor(S) => r \in RowsFor(T)
         /\ Placed(r, S) => Placed(r, T)
BY DEF Placed, RowsFor

(* A Site is added under the next id. *)
LEMMA SiteIsAdded ==
  ASSUME sites \in Homes, NEW h \in Addresses \cup {Blank}, sites' = Append(sites, h)
  PROVE  /\ sites' \in Homes
         /\ SiteIds' = SiteIds \cup {Len(sites) + 1}
         /\ Here' = Here \cup {Len(sites) + 1}
<1>1. /\ sites' \in Homes /\ Len(sites') = Len(sites) + 1 /\ Len(sites) \in Nat
      /\ \A s \in 1..Len(sites) : sites'[s] = sites[s]
      /\ sites'[Len(sites) + 1] = h
  BY DEF Homes
<1>2. /\ SiteIds = 1..Len(sites) /\ SiteIds' = 1..(Len(sites) + 1)
  BY <1>1 DEF Homes, SiteIds
<1>3. SiteIds' = SiteIds \cup {Len(sites) + 1}
  BY <1>1, <1>2
<1>4. h # Gone
  BY GoneAssumption
<1>. QED
  BY <1>1, <1>2, <1>3, <1>4 DEF Here

(* Whatever tier of link_application_to_site answers, the row is placed, at a Site that is
   there or at a new one. *)
LEMMA EveryTierPlaces ==
  ASSUME LinkInv, NEW a \in Apps, NEW link \in Links(a)
  PROVE  link = Created \/ (link.method # "created" /\ Placed(link, Here))
<1>1. sites \in Homes
  BY DEF LinkInv, Homes
<1>2. /\ SiteIds = 1..Len(sites) /\ Committed \subseteq Here /\ None \notin Here
  BY <1>1, SitesThere
<1>3. ASSUME NEW b \in Apps PROVE Row(b).site \in Here \cup {None}
  <2>1. CASE b \in Written
    BY <2>1 DEF LinkInv, WellStaged, Row, Placed, RowsFor
  <2>2. CASE b \notin Written
    BY <1>2, <2>2 DEF LinkInv, WellLinked, Row, RowsFor
  <2>. QED
    BY <2>1, <2>2
<1>4. ASSUME NEW s \in Here, NEW how \in {"exact_address", "parent_reference"}
      PROVE  Linked(how, s).method # "created" /\ Placed(Linked(how, s), Here)
  BY <1>2, <1>4 DEF Linked, Placed, RowsFor, Methods
<1>5. ASSUME NEW s \in Here
      PROVE  LET r == [method |-> "suggested_fuzzy", site |-> None, suggested |-> s]
             IN  r.method # "created" /\ Placed(r, Here)
  BY <1>2, <1>5 DEF Placed, RowsFor, Methods
<1>6. AtAddress(a) \subseteq Here
  <2>1. AddressOf[a] # Gone
    BY SiteAssumption, GoneAssumption
  <2>. QED
    BY <2>1 DEF AtAddress, Here
<1>7. Similar(a) \subseteq Here
  BY SiteAssumption, GoneAssumption DEF Similar, Here
<1>8. CitingSites(a) \subseteq Here /\ FromParent(a) \subseteq Here \cup {None}
  BY <1>3 DEF CitingSites, FromParent, Parents, Present
<1>9. ASSUME NEW r \in Otherwise(a) PROVE r = Created \/ (r.method # "created" /\ Placed(r, Here))
  BY <1>4, <1>5, <1>7, <1>8, <1>9 DEF Otherwise
<1>. QED
  BY <1>4, <1>6, <1>8, <1>9 DEF Links

(* Nobody has written the stage's rows, and nothing links them yet. *)
LEMMA StageParts ==
  ASSUME LinkInv
  PROVE  /\ sites \in Homes
         /\ stage.todo \cup Written \subseteq Apps \ Held
         /\ \A a \in stage.todo \cup Written : app[a].method = "none" /\ app[a].site = None
         /\ app \in [Apps -> RowsFor(Committed)]
BY DEF LinkInv, Homes, WellLinked, WellStaged

(* What an action that adds no Site and takes none away owes to the invariant. *)
Same == UNCHANGED <<sites, stage>>

LEMMA SameKeeps ==
  ASSUME LinkInv, Same
  PROVE  /\ sites' \in Homes /\ Committed' = Committed /\ Here' = Here /\ Written' = Written
         /\ (\A a \in stage.todo \cup Written : app'[a].method = "none") => WellStaged'
         /\ WellLinked' /\ WellStaged' /\ WellClicked' => LinkInv'
BY DEF LinkInv, Same, Homes, Committed, Here, Made, SiteIds, Written, WellStaged, NoStage

LEMMA LinkBegins == ASSUME LinkInit PROVE LinkInv
<1>1. NoClick.app \in Apps
  BY SiteAssumption DEF NoClick
<1>2. sites \in Homes /\ stage = NoStage /\ Written = {}
  BY DEF LinkInit, Homes, NoStage, Written
<1>3. WellLinked
  <2>1. Absent \in RowsFor(Committed) /\ Absent.method = "absent" /\ Absent.site = None
    BY DEF Absent, RowsFor, Methods
  <2>. QED
    BY <2>1 DEF LinkInit, WellLinked
<1>4. WellStaged
  BY <1>2 DEF NoStage, WellStaged
<1>5. WellClicked
  BY <1>1 DEF LinkInit, NoClick, None, WellClicked, Clicks
<1>. QED
  BY <1>2, <1>3, <1>4, <1>5 DEF LinkInv, Homes

(* A new row, found alone or beside an anchor. *)
LEMMA FoundKeeps ==
  ASSUME LinkInv, NEW a \in Apps, Found(a) \/ FoundRelated(a)
  PROVE  LinkInv' /\ \A b \in Apps : app[b].site # None => app'[b].site = app[b].site
<1>1. app[a].method = "absent" /\ stage.pc = "idle" /\ Same /\ click' = click
  BY DEF Found, FoundRelated, Same
<1>2. /\ Committed' = Committed /\ None \notin Committed
      /\ app \in [Apps -> RowsFor(Committed)]
  BY <1>1, SameKeeps, StageParts, SitesThere
<1>3. WellLinked' /\ \A b \in Apps : b # a => app'[b] = app[b]
  <2>1. CASE Found(a)
    <3>1. Unlinked \in RowsFor(Committed) /\ Unlinked.method = "none" /\ Unlinked.site = None
      BY DEF Unlinked, Absent, RowsFor, Methods
    <3>. QED
      BY <1>2, <2>1, <3>1 DEF Found, LinkInv, WellLinked
  <2>2. CASE FoundRelated(a)
    <3>1. PICK s \in Committed : app' = [app EXCEPT ![a] = Linked("related_search", s)]
      BY <1>2, <2>2 DEF FoundRelated, Present, RowsFor
    <3>2. Placed(Linked("related_search", s), Committed)
      BY <1>2, <3>1 DEF Linked, Placed, RowsFor, Methods
    <3>3. a \notin Held /\ Linked("related_search", s).method = "related_search"
      BY <2>2 DEF FoundRelated, Linked
    <3>4. Linked("related_search", s) \in RowsFor(Committed)
      BY <3>2 DEF Placed
    <3>. QED
      BY <1>2, <3>1, <3>2, <3>3, <3>4 DEF LinkInv, WellLinked
  <2>. QED
    BY <2>1, <2>2
<1>4. app[a].site = None
  BY <1>1 DEF LinkInv, WellLinked
<1>5. WellStaged'
  BY <1>1, <1>3, SameKeeps DEF LinkInv, WellStaged
<1>6. WellClicked'
  BY <1>1, <1>2, <1>3 DEF LinkInv, WellClicked, Clicks, Suggested
<1>. QED
  BY <1>1, <1>3, <1>4, <1>5, <1>6, SameKeeps

(* The stage begins with the rows that have no Site. *)
LEMMA BeginKeeps == ASSUME LinkInv, BeginStage PROVE LinkInv' /\ app' = app
<1>1. /\ stage' = [pc |-> "linking", todo |-> {a \in Apps : Pending(a)}, rows |-> <<>>]
      /\ stage = NoStage /\ UNCHANGED <<app, sites, click>>
  BY DEF BeginStage, NoStage, LinkInv, WellStaged
<1>2. Written = {} /\ Written' = {} /\ Made = {} /\ Made' = {}
  BY <1>1 DEF Written, NoStage, Made
<1>3. Committed' = Committed
  BY <1>1, <1>2 DEF Committed, Here, SiteIds
<1>4. WellLinked' /\ WellClicked'
  BY <1>1, <1>3 DEF LinkInv, WellLinked, WellClicked, Clicks, Suggested
<1>5. WellStaged'
  BY <1>1, <1>2 DEF WellStaged, Pending
<1>. QED
  BY <1>1, <1>4, <1>5 DEF LinkInv

(* One row is linked, for the stage alone. *)
LEMMA LinkOneKeeps == ASSUME LinkInv, NEW a \in Apps, LinkOne(a) PROVE LinkInv' /\ app' = app
<1>1. PICK link \in Links(a) :
        /\ sites' = IF link.method = "created" THEN Append(sites, AddressOf[a]) ELSE sites
        /\ stage' = [stage EXCEPT !.todo = stage.todo \ {a},
                 !.rows = [b \in Written \cup {a} |-> IF b = a THEN link ELSE stage.rows[b]]]
  BY Zenon DEF LinkOne
<1>2. a \in stage.todo /\ stage.pc = "linking" /\ UNCHANGED <<app, click>>
  BY DEF LinkOne
<1>3. /\ stage'.pc = "linking" /\ stage'.todo = stage.todo \ {a}
      /\ stage'.rows = [b \in Written \cup {a} |-> IF b = a THEN link ELSE stage.rows[b]]
      /\ stage' = [pc |-> stage'.pc, todo |-> stage'.todo, rows |-> stage'.rows]
  BY <1>1, <1>2 DEF LinkInv, WellStaged
<1>4. /\ Written' = Written \cup {a} /\ stage'.rows[a] = link
      /\ \A b \in Written \ {a} : stage'.rows[b] = stage.rows[b]
  BY <1>3 DEF Written
<1>5. sites \in Homes /\ SiteIds = 1..Len(sites) /\ Here \subseteq SiteIds
      /\ Len(sites) + 1 \notin SiteIds /\ None \notin Here /\ Len(sites) \in Nat
  BY StageParts, SitesThere
<1>6. a \notin Written /\ a \in Apps \ Held
  BY <1>2 DEF LinkInv, WellStaged
<1>7. sites' \in Homes /\ Here \subseteq Here' /\ Placed(link, Here') /\ Committed' = Committed
  <2>1. CASE link = Created
    <3>1. link.method = "created" /\ link.site = Len(sites) + 1
      BY <2>1 DEF Created, Linked
    <3>2. sites' \in Homes /\ Here' = Here \cup {Len(sites) + 1}
      BY <1>1, <1>5, <3>1, SiteAssumption, SiteIsAdded
    <3>3. Placed(link, Here')
      BY <1>5, <2>1, <3>2 DEF Created, Linked, Placed, RowsFor, Methods, None
    <3>4. Made' = Made \cup {Len(sites) + 1}
      BY <1>4, <1>6, <3>1 DEF Made
    <3>5. Committed' = Committed
      BY <1>5, <3>2, <3>4 DEF Committed
    <3>. QED
      BY <3>2, <3>3, <3>5
  <2>2. CASE link # Created
    <3>1. link.method # "created" /\ Placed(link, Here)
      BY <2>2, EveryTierPlaces
    <3>2. sites' = sites /\ SiteIds' = SiteIds /\ Here' = Here
      BY <1>1, <3>1 DEF SiteIds, Here
    <3>3. Made' = Made
      BY <1>4, <1>6, <3>1 DEF Made
    <3>. QED
      BY <1>5, <3>1, <3>2, <3>3 DEF Committed
  <2>. QED
    BY <2>1, <2>2
<1>8. WellStaged'
  <2>1. \A b \in Written' : Placed(stage'.rows[b], Here')
    BY <1>4, <1>7, PlacedWiden DEF LinkInv, WellStaged
  <2>2. \A b \in stage'.todo \cup Written' : app'[b].method = "none"
    BY <1>2, <1>3, <1>4, StageParts
  <2>3. stage'.todo \cup Written' \subseteq Apps \ Held /\ stage'.todo \cap Written' = {}
    BY <1>3, <1>4, <1>6 DEF LinkInv, WellStaged
  <2>. QED
    BY <1>3, <2>1, <2>2, <2>3 DEF WellStaged
<1>9. WellLinked' /\ WellClicked'
  BY <1>2, <1>7 DEF LinkInv, WellLinked, WellClicked, Clicks, Suggested
<1>. QED
  BY <1>2, <1>7, <1>8, <1>9 DEF LinkInv, Homes

(* The end of the stage leaves no row of its own. *)
LEMMA StageEnds ==
  ASSUME stage' = NoStage
  PROVE  Written' = {} /\ Made' = {} /\ WellStaged'
<1>1. Written' = {}
  BY DEF Written, NoStage
<1>. QED
  BY <1>1 DEF Made, WellStaged, NoStage

(* Its commit overwrites no link: nobody else has linked its rows. *)
LEMMA CommitKeeps ==
  ASSUME LinkInv, CommitStage
  PROVE  LinkInv' /\ \A b \in Apps : app[b].site # None => app'[b].site = app[b].site
<1>1. /\ app' = [a \in Apps |-> Row(a)] /\ UNCHANGED <<sites, click>>
      /\ Made' = {} /\ WellStaged'
  BY StageEnds DEF CommitStage
<1>2. Here' = Here /\ Committed' = Here /\ Committed \subseteq Here /\ sites \in Homes
  BY <1>1, StageParts, SitesThere DEF Here, SiteIds, Committed
<1>3. ASSUME NEW a \in Written
      PROVE  /\ a \in Apps \ Held /\ app'[a] = stage.rows[a] /\ Placed(app'[a], Here)
             /\ app[a].method = "none" /\ app[a].site = None
  BY <1>1, <1>3, StageParts DEF LinkInv, WellStaged, Row
<1>4. ASSUME NEW a \in Apps, a \notin Written PROVE app'[a] = app[a]
  BY <1>1, <1>4 DEF Row
<1>5. ASSUME NEW a \in Apps
      PROVE  /\ app'[a] \in RowsFor(Here)
             /\ IF app'[a].method \in {"absent", "none"} THEN app'[a].site = None
                ELSE a \notin Held /\ Placed(app'[a], Here)
  <2>1. CASE a \in Written
    BY <1>3, <2>1 DEF Placed
  <2>2. CASE a \notin Written
    <3>1. app[a] \in RowsFor(Committed)
      BY StageParts
    <3>. QED
      BY <1>2, <1>4, <2>2, <3>1, PlacedWiden DEF LinkInv, WellLinked
  <2>. QED
    BY <2>1, <2>2
<1>6. WellLinked'
  BY <1>1, <1>2, <1>5 DEF WellLinked
<1>7. WellClicked'
  <2>1. ASSUME NEW o \in Reviewers, click[o].pc # "none" PROVE app'[click[o].app] = app[click[o].app]
    BY <1>3, <1>4, <2>1 DEF LinkInv, WellClicked, Clicks
  <2>. QED
    BY <1>1, <1>2, <2>1 DEF LinkInv, WellClicked, Clicks, Suggested
<1>. QED
  BY <1>1, <1>2, <1>3, <1>4, <1>6, <1>7 DEF LinkInv, Homes

(* A rollback takes the stage's own Sites away, to which no committed row points. *)
LEMMA RollbackKeeps ==
  ASSUME LinkInv, Rollback, UNCHANGED <<app, click>> PROVE LinkInv'
<1>1. /\ sites' = [s \in SiteIds |-> IF s \in Made THEN Gone ELSE sites[s]]
      /\ Made' = {} /\ WellStaged'
  BY StageEnds DEF Rollback
<1>2. sites \in Homes /\ SiteIds = 1..Len(sites) /\ Len(sites) \in Nat
  BY StageParts, SitesThere
<1>3. sites' \in Homes
  BY <1>1, <1>2 DEF Homes
<1>4. Committed' = Committed
  <2>1. SiteIds' = SiteIds
    BY <1>1 DEF SiteIds
  <2>. QED
    BY <1>1, <2>1 DEF Committed, Here
<1>. QED
  BY <1>1, <1>3, <1>4 DEF LinkInv, Homes, WellLinked, WellClicked, Clicks, Suggested

(* A click loads a suggestion that waits. *)
LEMMA ClickKeeps ==
  ASSUME LinkInv, NEW o \in Reviewers, NEW a \in Apps, Click(o, a) PROVE LinkInv' /\ app' = app
<1>1. PICK button \in {"confirm", "reject"} :
        click' = [click EXCEPT ![o] = [pc |-> button, app |-> a, suggested |-> app[a].suggested,
                                       overtaken |-> FALSE]]
  BY DEF Click
<1>2. Same /\ app' = app /\ Suggested(a)
  BY DEF Click, Same
<1>3. app[a].suggested \in Committed /\ app[a].suggested \in Nat
  <2>1. Placed(app[a], Committed) /\ Committed \subseteq Nat
    BY <1>2, StageParts, SitesThere DEF LinkInv, WellLinked, Suggested
  <2>. QED
    BY <1>2, <2>1 DEF Suggested, Placed, RowsFor
<1>4. WellClicked'
  BY <1>1, <1>2, <1>3, SameKeeps DEF LinkInv, WellClicked, Clicks, Suggested
<1>5. WellLinked' /\ WellStaged'
  BY <1>2, SameKeeps DEF LinkInv, WellLinked, WellStaged
<1>. QED
  BY <1>2, <1>4, <1>5, SameKeeps

(* What an action that writes no row of the stage owes to WellStaged. *)
LEMMA BesideTheStage ==
  ASSUME LinkInv, UNCHANGED stage, Here \subseteq Here',
         \A a \in Apps : app[a].method = "none" => app'[a] = app[a]
  PROVE  WellStaged' /\ Made' = Made
<1>1. Written' = Written /\ Made' = Made
  BY DEF Written, Made
<1>2. \A a \in Written : Placed(stage.rows[a], Here')
  BY PlacedWiden DEF LinkInv, WellStaged
<1>3. \A a \in stage.todo \cup Written : app'[a].method = "none"
  BY StageParts
<1>. QED
  BY <1>1, <1>2, <1>3 DEF LinkInv, WellStaged, NoStage

(* The row that an operator has answered is placed, at the loaded suggestion or at a new
   Site, and no other is written. *)
LEMMA AnswerPlaces ==
  ASSUME LinkInv, NEW o \in Reviewers, Confirm(o) \/ Reject(o)
  PROVE  /\ sites' \in Homes /\ Here \subseteq Here' /\ Committed \subseteq Committed'
         /\ app' \in [Apps -> RowsFor(Committed')]
         /\ Placed(app'[click[o].app], Committed')
         /\ \A b \in Apps : b # click[o].app => app'[b] = app[b]
<1>. DEFINE a == click[o].app
<1>1. /\ a \in Apps /\ app[a].method \notin {"absent", "none"} /\ UNCHANGED stage
      /\ click[o].suggested \in Committed
  BY DEF Confirm, Reject, LinkInv, WellClicked, Clicks
<1>2. /\ sites \in Homes /\ app \in [Apps -> RowsFor(Committed)] /\ None \notin Committed
      /\ SiteIds = 1..Len(sites) /\ Here \subseteq SiteIds /\ Committed \subseteq Here
      /\ Len(sites) + 1 \notin SiteIds /\ Len(sites) \in Nat
  BY StageParts, SitesThere
<1>3. Placed(app[a], Committed)
  BY <1>1 DEF LinkInv, WellLinked
<1>4. CASE Confirm(o)
  <2>1. UNCHANGED sites /\ app' = [app EXCEPT ![a].site = click[o].suggested]
    BY <1>4 DEF Confirm
  <2>2. Here' = Here /\ Committed' = Committed
    BY <1>1, <2>1 DEF Committed, Here, SiteIds, Made, Written
  <2>3. app'[a] = [method |-> app[a].method, site |-> click[o].suggested,
                   suggested |-> app[a].suggested]
    BY <1>1, <1>2, <2>1 DEF RowsFor
  <2>4. Placed(app'[a], Committed)
    BY <1>1, <1>2, <1>3, <2>3 DEF Placed, RowsFor
  <2>5. \A b \in Apps : b # a => app'[b] = app[b]
    BY <1>2, <2>1
  <2>6. app' \in [Apps -> RowsFor(Committed)]
    BY <1>2, <2>1, <2>4, <2>5 DEF Placed
  <2>. QED
    BY <1>2, <2>1, <2>2, <2>4, <2>5, <2>6
<1>5. CASE Reject(o)
  <2>1. /\ app' = [app EXCEPT ![a] = Created] /\ sites' = Append(sites, AddressOf[a])
    BY <1>5 DEF Reject
  <2>2. sites' \in Homes /\ Here' = Here \cup {Len(sites) + 1}
    BY <1>1, <1>2, <2>1, SiteAssumption, SiteIsAdded
  <2>3. Made' = Made /\ Made \subseteq Here
    BY <1>1 DEF Made, Written, LinkInv, WellStaged, Placed, RowsFor
  <2>4. Committed' = Committed \cup {Len(sites) + 1}
    BY <1>2, <2>2, <2>3 DEF Committed
  <2>5. Placed(Created, Committed')
    BY <1>2, <2>4 DEF Created, Linked, Placed, RowsFor, Methods, None
  <2>6. app' \in [Apps -> RowsFor(Committed')]
    <3>1. app \in [Apps -> RowsFor(Committed')]
      BY <1>2, <2>4, PlacedWiden
    <3>2. Created \in RowsFor(Committed')
      BY <2>5 DEF Placed
    <3>. QED
      BY <2>1, <3>1, <3>2
  <2>. QED
    BY <1>1, <1>2, <2>1, <2>2, <2>4, <2>5, <2>6
<1>. QED
  BY <1>4, <1>5

(* The others who have that suggestion under way are overtaken. *)
LEMMA AnswerKeeps ==
  ASSUME LinkInv, NEW o \in Reviewers, Confirm(o) \/ Reject(o)
  PROVE  /\ LinkInv'
         /\ \A b \in Apps : app[b].site # None /\ app'[b].site # app[b].site =>
              click[o].app = b /\ click[o].overtaken /\ click'[o] = NoClick
<1>. DEFINE a == click[o].app
<1>1. /\ click[o].pc # "none" /\ a \in Apps /\ app[a].method \notin {"absent", "none"}
      /\ UNCHANGED stage /\ Answered(o)
  BY DEF Confirm, Reject, LinkInv, WellClicked, Clicks
<1>2. /\ sites' \in Homes /\ Here \subseteq Here' /\ Committed \subseteq Committed'
      /\ app' \in [Apps -> RowsFor(Committed')] /\ Placed(app'[a], Committed')
      /\ \A b \in Apps : b # a => app'[b] = app[b]
  BY AnswerPlaces
<1>3. WellStaged'
  BY <1>1, <1>2, BesideTheStage
<1>4. WellLinked'
  <2>1. a \notin Held
    BY <1>1 DEF LinkInv, WellLinked
  <2>2. \A b \in Apps : Placed(app[b], Committed) => Placed(app[b], Committed')
    BY <1>2, PlacedWiden
  <2>. QED
    BY <1>2, <2>1, <2>2 DEF LinkInv, WellLinked, Placed
<1>5. /\ click'[o] = NoClick /\ click' = [p \in Reviewers |-> click'[p]]
      /\ \A p \in Reviewers \ {o} :
           click'[p] = IF p \in Overtakes(o) THEN [click[p] EXCEPT !.overtaken = TRUE] ELSE click[p]
  BY <1>1 DEF Answered
<1>6. NoClick \in Clicks /\ NoClick.pc = "none" /\ ~NoClick.overtaken
  BY SiteAssumption DEF NoClick, None, Clicks
<1>7. ASSUME NEW p \in Reviewers \ {o}
      PROVE  /\ click'[p] \in Clicks
             /\ click'[p].pc = click[p].pc /\ click'[p].app = click[p].app
             /\ click'[p].suggested = click[p].suggested
             /\ IF p \in Overtakes(o) THEN click'[p].overtaken ELSE click'[p] = click[p]
  <2>1. click[p] \in Clicks
    BY DEF LinkInv, WellClicked, Clicks
  <2>. QED
    BY <1>5, <2>1 DEF Clicks
<1>8. WellClicked'
  <2>1. ASSUME NEW p \in Reviewers
        PROVE  IF click'[p].pc = "none" THEN ~click'[p].overtaken
               ELSE /\ click'[p].suggested \in Committed'
                    /\ app'[click'[p].app].method \notin {"absent", "none"}
                    /\ ~click'[p].overtaken => Suggested(click[p].app)' /\ click'[p].app = click[p].app
    <3>1. CASE p = o
      BY <1>5, <1>6, <3>1
    <3>2. CASE p # o /\ click[p].pc = "none"
      BY <1>7, <3>2 DEF LinkInv, WellClicked, Overtakes
    <3>3. CASE p \in Overtakes(o)
      <4>1. p # o /\ click[p].app = a /\ click[p].pc # "none"
        BY <3>3 DEF Overtakes
      <4>. QED
        BY <1>2, <1>7, <3>3, <4>1 DEF LinkInv, WellClicked, Placed
    <3>4. CASE p # o /\ click[p].pc # "none" /\ p \notin Overtakes(o)
      <4>1. app'[click[p].app] = app[click[p].app]
        BY <1>2, <3>4 DEF LinkInv, WellClicked, Clicks, Overtakes
      <4>. QED
        BY <1>2, <1>7, <3>4, <4>1 DEF LinkInv, WellClicked, Clicks, Suggested
    <3>. QED
      BY <3>1, <3>2, <3>3, <3>4
  <2>2. click' \in [Reviewers -> Clicks]
    BY <1>5, <1>6, <1>7
  <2>. QED
    BY <1>5, <1>6, <2>1, <2>2 DEF WellClicked, Clicks, Suggested
<1>9. app[a].site # None => click[o].overtaken
  BY <1>1 DEF LinkInv, WellClicked, Clicks, Suggested
<1>. QED
  BY <1>2, <1>3, <1>4, <1>5, <1>8, <1>9 DEF LinkInv, Homes

(* Relinking moves rows that have a Site to another that there is. *)
LEMMA RelinkKeeps ==
  ASSUME LinkInv, NEW s \in SiteIds, NEW t \in Apps, Relink(s, t)
  PROVE  LinkInv'
<1>1. /\ Same /\ click' = click /\ app[t].site # None
      /\ app' = [a \in Apps |-> IF app[a].site = s
                                THEN [app[a] EXCEPT !.site = app[t].site, !.method = "manual"]
                                ELSE app[a]]
  BY DEF Relink, Same
<1>2. /\ app \in [Apps -> RowsFor(Committed)] /\ s # None /\ Committed' = Committed
      /\ app[t].site \in Committed /\ None \notin Committed
  <2>1. app \in [Apps -> RowsFor(Committed)] /\ sites \in Homes
    BY StageParts
  <2>2. s # None /\ None \notin Committed
    BY <2>1, SitesThere DEF None
  <2>3. Committed' = Committed
    BY <1>1, SameKeeps
  <2>. QED
    BY <1>1, <2>1, <2>2, <2>3 DEF RowsFor
<1>3. ASSUME NEW a \in Apps, app[a].site = s
      PROVE  a \notin Held /\ Placed(app'[a], Committed) /\ app'[a].site # None
             /\ app[a].method \notin {"absent", "none"}
  <2>1. app'[a] = [method |-> "manual", site |-> app[t].site, suggested |-> app[a].suggested]
    BY <1>1, <1>2, <1>3 DEF RowsFor
  <2>2. a \notin Held /\ app[a].method \notin {"absent", "none"}
    BY <1>2, <1>3 DEF LinkInv, WellLinked
  <2>3. app'[a].method = "manual" /\ app'[a].site = app[t].site
    BY <2>1
  <2>4. app'[a] \in RowsFor(Committed)
    <3>1. app[a].suggested \in Committed \cup {None} /\ "manual" \in Methods
      BY <1>2 DEF RowsFor, Methods
    <3>. QED
      BY <1>2, <2>1, <3>1 DEF RowsFor
  <2>. QED
    BY <1>2, <2>2, <2>3, <2>4 DEF Placed
<1>4. ASSUME NEW a \in Apps, app[a].site # s PROVE app'[a] = app[a]
  BY <1>1, <1>4
<1>5. WellLinked'
  <2>1. \A a \in Apps : app'[a] \in RowsFor(Committed)
    BY <1>2, <1>3, <1>4 DEF Placed
  <2>2. app' \in [Apps -> RowsFor(Committed)]
    BY <1>1, <2>1
  <2>3. \A a \in Apps : IF app'[a].method \in {"absent", "none"} THEN app'[a].site = None
                        ELSE a \notin Held /\ Placed(app'[a], Committed)
    BY <1>3, <1>4 DEF LinkInv, WellLinked, Placed
  <2>. QED
    BY <1>2, <2>2, <2>3 DEF WellLinked
<1>6. WellStaged'
  BY <1>1, <1>2, <1>4, SameKeeps, StageParts DEF LinkInv, WellStaged
<1>7. WellClicked'
  <2>1. ASSUME NEW o \in Reviewers, click[o].pc # "none"
        PROVE  /\ app'[click[o].app].method \notin {"absent", "none"}
               /\ ~click[o].overtaken => app'[click[o].app] = app[click[o].app]
    BY <1>2, <1>3, <1>4, <2>1 DEF LinkInv, WellClicked, Clicks, Suggested, Placed
  <2>. QED
    BY <1>1, <1>2, <2>1 DEF LinkInv, WellClicked, Clicks, Suggested
<1>. QED
  BY <1>1, <1>5, <1>6, <1>7, SameKeeps

(* The Sites moved away from are counted up. *)
LEMMA RelinkedGrows ==
  ASSUME relinked \in Seq(Nat), [LinkNext]_linkVars, sites \in Homes
  PROVE  /\ relinked' \in Seq(Nat)
         /\ \A s \in SiteIds, t \in Apps : Relink(s, t) => relinked' # relinked
<1>1. ASSUME NEW s \in SiteIds, NEW t \in Apps, Relink(s, t)
      PROVE  relinked' \in Seq(Nat) /\ relinked' # relinked
  <2>1. relinked' = Append(relinked, s)
    BY <1>1 DEF Relink
  <2>2. s \in Nat
    BY SitesThere
  <2>3. Len(relinked') = Len(relinked) + 1 /\ Len(relinked) \in Nat /\ relinked' \in Seq(Nat)
    BY <2>1, <2>2
  <2>. QED
    BY <2>3
<1>2. ASSUME ~\E s \in SiteIds, t \in Apps : Relink(s, t) PROVE relinked' = relinked
  BY <1>2 DEF LinkNext, linkVars, RunStep, Operator, BeginStage, CommitStage, LinkOne, StageRaises,
              StageStops, Found, FoundRelated, Click, Confirm, Reject
<1>. QED
  BY <1>1, <1>2

LinkStandsNow ==
  \A a \in Apps : app[a].site # None /\ app'[a].site # app[a].site =>
    \/ relinked' # relinked
    \/ \E o \in Reviewers : click[o].app = a /\ click[o].overtaken /\ click'[o] = NoClick

(* Every step keeps the rows, the stage and the clicks together, and every link but those
   that an operator may change. *)
LEMMA LinkStep ==
  ASSUME LinkInv, relinked \in Seq(Nat), [LinkNext]_linkVars
  PROVE  LinkInv' /\ relinked' \in Seq(Nat) /\ LinkStandsNow
<1>1. sites \in Homes
  BY StageParts
<1>2. relinked' \in Seq(Nat)
  BY <1>1, RelinkedGrows
<1>. DEFINE Kept == \A b \in Apps : app[b].site # None => app'[b].site = app[b].site
<1>3. ASSUME NEW a \in Apps, LinkOne(a) PROVE LinkInv' /\ Kept
  BY <1>3, LinkOneKeeps
<1>4. CASE BeginStage
  BY <1>2, <1>4, BeginKeeps DEF LinkStandsNow
<1>5. CASE CommitStage
  BY <1>2, <1>5, CommitKeeps DEF LinkStandsNow
<1>7. ASSUME NEW a \in Apps, Found(a) \/ FoundRelated(a) PROVE LinkInv' /\ Kept
  BY <1>7, FoundKeeps
<1>8. ASSUME NEW o \in Reviewers, NEW a \in Apps, Click(o, a) PROVE LinkInv' /\ Kept
  BY <1>8, ClickKeeps
<1>9. ASSUME NEW o \in Reviewers, Confirm(o) \/ Reject(o) PROVE LinkInv' /\ LinkStandsNow
  BY <1>9, AnswerKeeps DEF LinkStandsNow
<1>10. ASSUME NEW s \in SiteIds, NEW t \in Apps, Relink(s, t) PROVE LinkInv' /\ relinked' # relinked
  BY <1>1, <1>10, RelinkKeeps, RelinkedGrows
<1>11. CASE UNCHANGED linkVars
  <2>1. Same /\ app' = app /\ click' = click
    BY <1>11 DEF linkVars, Same
  <2>2. WellLinked' /\ WellStaged' /\ WellClicked'
    BY <2>1, SameKeeps DEF LinkInv, WellLinked, WellStaged, WellClicked, Clicks, Suggested
  <2>. QED
    BY <1>2, <2>1, <2>2, SameKeeps DEF LinkStandsNow
<1>12. Kept => LinkStandsNow
  BY DEF LinkStandsNow
<1>13. CASE StageStops \/ \E a \in Apps : StageRaises(a)
  BY <1>2, <1>13, RollbackKeeps DEF StageRaises, StageStops, LinkStandsNow
<1>. QED
  BY <1>2, <1>3, <1>4, <1>5, <1>7, <1>8, <1>9, <1>10, <1>11, <1>12, <1>13
     DEF LinkNext, RunStep, Operator, LinkStandsNow

(* The invariant of the links, with any number of operators: committed rows point to Sites
   that are there, the rows of the stage are nobody else's to place until it commits, and a
   loaded suggestion waits unless it was overtaken. *)
THEOREM LinksKeepTogether == LinkSpec => []LinkInv
<1>1. LinkInit => LinkInv /\ relinked \in Seq(Nat)
  BY LinkBegins DEF LinkInit
<1>2. LinkInv /\ relinked \in Seq(Nat) /\ [LinkNext]_linkVars => (LinkInv /\ relinked \in Seq(Nat))'
  BY LinkStep
<1>. QED
  BY <1>1, <1>2, PTL DEF LinkSpec

(* A committed link stands, whatever is found, cited and near, whichever runs of
   stage_link_sites die or raise beside the operators, and however many these are: it
   changes only when one relinks the Site or answers what another has answered. *)
THEOREM CommittedLinksStand == LinkSpec => LinkStands
<1>1. LinkInit => LinkInv /\ relinked \in Seq(Nat)
  BY LinkBegins DEF LinkInit
<1>2. LinkInv /\ relinked \in Seq(Nat) /\ [LinkNext]_linkVars =>
        (LinkInv /\ relinked \in Seq(Nat))' /\ [LinkStandsNow]_linkVars
  BY LinkStep
<1>3. (LinkStandsNow <=>
        \A a \in Apps : app[a].site # None /\ app'[a].site # app[a].site =>
          \/ relinked' # relinked
          \/ \E o \in Reviewers : click[o].app = a /\ click[o].overtaken /\ click'[o] = NoClick)
  BY DEF LinkStandsNow
<1>. QED
  BY <1>1, <1>2, <1>3, PTL DEF LinkSpec, LinkStands
=============================================================================
