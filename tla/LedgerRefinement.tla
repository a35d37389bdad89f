--------------------------- MODULE LedgerRefinement ---------------------------
(* The ledger implements the work authority: every step of a method is one step *)
(* of the abstract promise, or none.                                            *)
EXTENDS LedgerProperties

StandingOf(state) ==
  CASE state = "ABSENT" -> "unknown"
    [] state \in Claimable -> "open"
    [] state = "CLAIMED" -> "held"
    [] OTHER -> "closed"

standingBar == [k \in Keys |-> StandingOf(rows[k].state)]
holderBar   == [k \in Keys |-> rows[k].owner]
writingBar  == {k \in Keys : rows[k].phase = "WRITE_INTENT"}
unreadBar   == [k \in Keys |-> written[k] - known[k]]

Authority == INSTANCE WorkAuthority
  WITH Items <- Keys, Holders <- Owners, Nobody <- None, standing <- standingBar,
       holder <- holderBar, called <- calls, writing <- writingBar,
       unread <- unreadBar, halted <- stopped

\* The ledger's methods, called with any claim ever issued, keep the promise of
\* WorkAuthority: one holder, one source call, one writer, no retry of a write in doubt
\* and no effect after the stop (ledger.py's docstring of recover: "Expiry never grants
\* replay permission").
KeepsWorkAuthority == Authority!ASpec
=============================================================================
