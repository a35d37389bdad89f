------------------------------ MODULE MCLedger ------------------------------
(***************************************************************************)
(* Small instances of the ledger for TLC.  What callers ask for is chosen  *)
(* at the start:                                                           *)
(*   chain  a discovery scope that may be retried, and a refresh that      *)
(*          depends on it;                                                 *)
(*   pair   two unrelated refreshes, whose writers compete.                *)
(***************************************************************************)
EXTENDS LedgerRefinement

CONSTANTS scope, fact, other, bolton, idox, test

VARIABLE part

NewRequest(k, d, m) ==
  [key |-> k, deps |-> d, limits |-> "DEFAULT", maxAttempts |-> m, priority |-> 50,
   eligibleAt |-> 0, state |-> "QUEUED"]

MCIdentity ==
  [k \in Keys |->
     IF k = scope
     THEN [task |-> "DISCOVERY", kind |-> "DISCOVERY_SCOPE", council |-> bolton,
           contract |-> idox]
     ELSE [task |-> "FACTUAL_REFRESH", kind |-> "APPLICATION", council |-> bolton,
           contract |-> idox]]

TestGrant(s, w, detail) ==
  [keys |-> Keys, contracts |-> {idox}, expiresAt |-> 3, detailKeys |-> detail,
   left |-> [op \in Operations |-> IF op = "writes" THEN w ELSE s]]

ChainRequests == {NewRequest(scope, {}, 2), NewRequest(fact, {scope}, 2)}
ChainGrants   == {[authority |-> test, grant |-> TestGrant(2, 1, {})]}

Pair == INSTANCE LedgerRefinement WITH
  EnqueueRequests <- {NewRequest(fact, {}, 1), NewRequest(other, {}, 1)},
  GrantRequests   <- {[authority |-> test, grant |-> TestGrant(1, 2, {fact})]},
  Cooldowns       <- {0},
  Evidence        <- {"RECEIPT"}

NextAll ==
  \/ part = "chain" /\ Next /\ UNCHANGED part
  \/ part = "pair" /\ Pair!Next /\ UNCHANGED part

InitAll == part \in {"chain", "pair"} /\ Init

SpecAll == InitAll /\ [][NextAll]_<<part, vars>>
=============================================================================
