----------------------------- MODULE WorkAuthority -----------------------------
(***************************************************************************)
(* What the work ledger promises, without leases, fences, grants, clocks,  *)
(* receipts or tables: items are handed to one holder at a time, a source  *)
(* is called at most once per item, at most one external write is under    *)
(* way, a write whose outcome nobody read back is never tried again, and   *)
(* after the global stop no new effect starts.                             *)
(***************************************************************************)
EXTENDS Naturals

CONSTANTS Items, Holders, Nobody

VARIABLES
  standing,  \* of each item: not yet known, open, held or closed for good
  holder,
  called,    \* of each item: how often its source was called
  writing,   \* items with an external write under way or left unresolved
  unread,    \* of each item: how many writes happened and were never read back
  halted     \* the global stop

avars == <<standing, holder, called, writing, unread, halted>>

AInit ==
  /\ standing = [k \in Items |-> "unknown"]
  /\ holder = [k \in Items |-> Nobody]
  /\ called = [k \in Items |-> 0] /\ unread = [k \in Items |-> 0]
  /\ writing = {}
  /\ halted = FALSE

Add(k, s) ==
  /\ standing[k] = "unknown"
  /\ s \in {"open", "closed"}
  /\ standing' = [standing EXCEPT ![k] = s]
  /\ UNCHANGED <<holder, called, writing, unread, halted>>

Take(k, o) ==
  /\ ~halted
  /\ standing[k] = "open" /\ holder[k] = Nobody
  /\ standing' = [standing EXCEPT ![k] = "held"]
  /\ holder' = [holder EXCEPT ![k] = o]
  /\ UNCHANGED <<called, writing, unread, halted>>

Effecting(k) == ~halted /\ standing[k] = "held"

CallSource(k) ==
  /\ Effecting(k)
  /\ called[k] = 0
  /\ called' = [called EXCEPT ![k] = 1]
  /\ UNCHANGED <<standing, holder, writing, unread, halted>>

BeginWrite(k) ==
  /\ Effecting(k)
  /\ writing = {} /\ unread[k] = 0
  /\ writing' = {k}
  /\ UNCHANGED <<standing, holder, called, unread, halted>>

\* The write happened and its result was read back.
Confirm(k) ==
  /\ Effecting(k)
  /\ writing = {k} /\ unread[k] = 0
  /\ writing' = {}
  /\ UNCHANGED <<standing, holder, called, unread, halted>>

\* The write happened and the answer is lost: the item keeps the writer.
Doubt(k) ==
  /\ Effecting(k)
  /\ writing = {k} /\ unread[k] = 0
  /\ unread' = [unread EXCEPT ![k] = 1]
  /\ UNCHANGED <<standing, holder, called, writing, halted>>

\* The holder gives the item back, settled, unless everything stops with it.
GiveBack(k, s) ==
  /\ standing[k] = "held" /\ s \in {"open", "closed"}
  /\ standing' = [standing EXCEPT ![k] = s]
  /\ holder' = [holder EXCEPT ![k] = Nobody]
  /\ halted' \in {halted, TRUE}
  /\ \/ k \notin writing /\ UNCHANGED writing
     \/ s = "closed" /\ halted' /\ writing' \in {writing, writing \ {k}}
  /\ UNCHANGED <<called, unread>>

Halt ==
  /\ halted' = TRUE
  /\ UNCHANGED <<standing, holder, called, writing, unread>>

ANext ==
  \/ \E k \in Items, s \in {"open", "closed"} : Add(k, s) \/ GiveBack(k, s)
  \/ \E k \in Items, o \in Holders : Take(k, o)
  \/ \E k \in Items : CallSource(k) \/ BeginWrite(k) \/ Confirm(k) \/ Doubt(k)
  \/ Halt

ASpec == AInit /\ [][ANext]_avars
=============================================================================
