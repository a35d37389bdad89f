---------------------------- MODULE MCCoordinator ---------------------------
(***************************************************************************)
(* A small instance of the coordinator for TLC.  What there is to do is    *)
(* chosen at the start, among Parts:                                       *)
(*   listing   a scope whose listing yields two applications; its workers  *)
(*             die between any two transactions;                           *)
(*   metadata  a metadata item that reads the receipt of its scope;        *)
(*   source    two scopes whose windows overlap in one application, one of *)
(*             them of an isolated contract, a row cap that is met, no     *)
(*             deaths: here liveness is checked;                           *)
(*   refresh   one factual refresh of the isolated contract.               *)
(***************************************************************************)
EXTENDS CoordinatorProperties

CONSTANTS
  Parts,         \* what may be chosen
  RefreshTries,  \* max_attempts of the refresh
  ScopeClock,    \* the clock that scopes meet
  scope, near, far, meta, app, house, fact, bolton, idox, northgate, o1, test

VARIABLE part

MCIdentity ==
  [k \in Keys |->
     [task     |-> CASE k \in {scope, near, far} -> "DISCOVERY"
                     [] k \in {app, house}  -> "SCREENING"
                     [] k = meta            -> "LISTING_METADATA"
                     [] k = fact            -> "FACTUAL_REFRESH",
      kind     |-> IF k \in {scope, near, far} THEN "DISCOVERY_SCOPE" ELSE "APPLICATION",
      council  |-> bolton,
      contract |-> IF k \in {far, fact} THEN idox ELSE northgate]]

MCChildren ==
  [k \in Keys |-> CASE k \in {scope, far} -> {app, house}
                    [] k \in {near, meta} -> {app}
                    [] OTHER              -> {}]

Root(k, ds, m) ==
  [key |-> k, deps |-> ds, limits |-> "DEFAULT", maxAttempts |-> m, priority |-> 50,
   eligibleAt |-> 0, state |-> "QUEUED"]

\* Roots, and what the coordinator enqueues below them.
MCRequests ==
  {Root(scope, {}, 2), Root(near, {}, 1), Root(far, {}, 2), Root(meta, {near}, 2),
   Root(fact, {}, RefreshTries)}
    \cup UNION {{ChildRequest(k, d, 50) : d \in MCChildren[k]} : k \in Keys}

MCGrants ==
  {[authority |-> test,
    grant |-> [keys |-> Keys, contracts |-> Contracts, expiresAt |-> 9, detailKeys |-> {},
               left |-> [source_calls |-> 2, writes |-> 2]]]}

ASSUME CoordinatorConstants == CoordinatorAssumption

-----------------------------------------------------------------------------
\* What there is to do in a part, and what keeps it small: time, cooldowns and the
\* screening of children only where the part asks for them.
Within ==
  /\ Enqueued \subseteq CASE part = "listing"  -> {scope, app, house}
                          [] part = "metadata" -> {near, meta, app}
                          [] part = "source"   -> {near, far, app, house}
                          [] part = "refresh"  -> {fact}
  /\ part # "refresh" => clock <= ScopeClock
  /\ part # "source" => \A l \in Councils : deferredUntil[l] = 0
  /\ \A w \in Owners : At(w, "idle")
                      \/ KeyOf(w) \notin (IF part = "listing" THEN {house} ELSE {house, app})

\* A step of CoordinatorNext in which no worker dies.
Survives ==
  \/ \E w \in Owners, k \in Keys, a \in Authorities, l \in Leases : Lease(w, k, a, l)
  \/ \E w \in Owners : Step(w)
  \/ RecoverAbandoned
  \/ Operate

InitAll == part \in Parts /\ CoordinatorInit

NextAll ==
  /\ UNCHANGED part
  /\ IF part = "source" THEN Survives ELSE CoordinatorNext
  /\ Within'

all == <<part, coordinatorVars>>

\* What FairCoordinatorSpec assumes of the workers, where its liveness is checked.
SpecAll ==
  /\ InitAll /\ [][NextAll]_all
  /\ \A w \in Owners : WF_all(part = "source" /\ Step(w) /\ UNCHANGED part)

-----------------------------------------------------------------------------
(* A source call that source() made is settled, or everything stops, or its worker
   could not record the stop and says so: however the reader and the ledger behave
   meanwhile, no call ends unnoticed.  The workers are interchangeable: it is checked
   for one. *)
SourceIsAccounted ==
  \A k \in {near, far} :
    (part = "source" /\ At(o1, "reading") /\ KeyOf(o1) = k)
      ~> (rows[k].phase # "SOURCE_INTENT" \/ stopped \/ At(o1, "raising"))
=============================================================================
