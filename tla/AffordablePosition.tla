---------------------------- MODULE AffordablePosition ----------------------------
(***************************************************************************)
(* The affordable housing position of one application, as refreshes of its *)
(* intelligence rewrite it: which documents a refresh reads, the four      *)
(* guards its answer passes, and what is stored                            *)
(* (app/extraction/intelligence_refresh.py).                               *)
(*                                                                         *)
(* The model's answer is any answer its schema admits.  Of a document the  *)
(* model keeps its type, whether its text itself secures affordable        *)
(* housing, and whether it speaks of homes outside the S106.  A refresh    *)
(* that fails stores nothing and is a stuttering step; refreshes of two    *)
(* processes are in EvidencePipeline.                                      *)
(***************************************************************************)
EXTENDS Naturals, Sequences, FiniteSets, SequencesExt, FiniteSetsExt

CONSTANTS
  Docs,        \* readable documents the family of the application may come to have
  Type,        \* the doc_type of each
  Secures,     \* those that discuss affordable housing and oblige somebody to it
  NonS106,     \* those with a phrase of _MIXED_SECURITY_SIGNAL_PATTERNS
  Reasons,     \* material-change reasons that occur
  Percentages, \* affordable percentages that occur, 0 standing for null
  Budget       \* documents MAX_REFRESH_CONTEXT_CHARS has room for

PRIORITY_ORDER == <<"planning_statement", "decision_notice", "officer_report",
                    "viability_affordable_housing", "s106">>
DocTypes == Range(PRIORITY_ORDER)
Statuses == {"proposed", "conditioned", "legally_secured", "unknown"}
Notes    == {"null", "plain", "denial"}   \* "denial": no affordable housing is proposed

DocAssumption ==
  /\ Docs \subseteq Nat /\ Type \in [Docs -> DocTypes] /\ Secures \cup NonS106 \subseteq Docs
ValueAssumption == 0 \in Percentages /\ Budget \in Nat \ {0}
RefreshReasonAssumption ==
  Reasons \subseteq {"decision_refused", "decision_withdrawn", "recommendation_made", "unit_count_changed"}

VARIABLES
  stored,    \* Document rows with text
  reason,    \* evidence_refresh_reason
  position,  \* the affordable columns of SchemeIntelligence
  said       \* history: the answer the last refresh was given

vars == <<stored, reason, position, said>>

NoAnswer == [status |-> "null", pct |-> 0, full |-> FALSE, notes |-> "null"]
Answers  == [status : Statuses, pct : Percentages, full : BOOLEAN, notes : Notes]

Init ==
  /\ stored = {} /\ reason = "null" /\ said = NoAnswer
  /\ position = [status |-> "null", pct |-> 0, notes |-> "null"]

(***************************************************************************)
(* The evidence of a refresh.                                              *)
(***************************************************************************)
\* _DOC_TYPES_BY_DEPTH of refresh_depth_for_reasons.
DocTypesFor(r) ==
  CASE r = "decision_refused"    -> {"decision_notice", "officer_report", "s106"}
    [] r = "decision_withdrawn"  -> {"decision_notice", "officer_report"}
    [] r = "recommendation_made" -> {"officer_report", "s106"}
    [] r = "unit_count_changed"  -> {"planning_statement", "officer_report"}
    [] OTHER                     -> DocTypes

documents == {d \in stored : Type[d] \in DocTypesFor(reason)}

_EVIDENCE_AUTHORITY_RANK(d) ==
  CASE Type[d] \in {"s106", "decision_notice"} -> 3
    [] Type[d] = "officer_report"              -> 2
    [] OTHER                                   -> 1

\* build_combined_priority_text: sections by PRIORITY_ORDER until the budget is used up.
_priority_rank(d) == SelectInSeq(PRIORITY_ORDER, LAMBDA t : t = Type[d])
Sections ==
  SetToSortSeq(documents, LAMBDA a, b : \/ _priority_rank(a) < _priority_rank(b)
                                        \/ _priority_rank(a) = _priority_rank(b) /\ a < b)
evidence_text == {Sections[i] : i \in 1..(IF Budget < Len(Sections) THEN Budget ELSE Len(Sections))}

LegallyAuthoritative(d) == Type[d] \in {"s106", "decision_notice"}

(***************************************************************************)
(* The four guards, in the order the answer passes them.                   *)
(***************************************************************************)
Secured(p) == p.status = "legally_secured"

guard_legally_secured_position(new) ==
  IF Secured(position) /\ ~Secured(new) /\ ~\E d \in documents : LegallyAuthoritative(d)
  THEN [status |-> "legally_secured", pct |-> position.pct, notes |-> position.notes, full |-> TRUE]
  ELSE new

guard_mixed_legal_security_position(new) ==
  IF Secured(new) /\ (~new.full \/ evidence_text \cap NonS106 # {})
  THEN [new EXCEPT !.status = "conditioned"]
  ELSE new

\* Mutant of guard_legally_secured_requires_authoritative_content: the type of a
\* document is enough, whatever it says.
TypeIsEnough(new) ==
  IF Secured(new) /\ ~Secured(position) /\ ~\E d \in documents : LegallyAuthoritative(d)
  THEN [new EXCEPT !.status = "conditioned"]
  ELSE new

guard_legally_secured_requires_authoritative_content(new) ==
  IF /\ Secured(new) /\ ~Secured(position)
     /\ ~\E d \in documents \cap Secures : LegallyAuthoritative(d)
  THEN [new EXCEPT !.status = "conditioned"]
  ELSE new

guard_conditioned_status_requires_an_actual_condition(new) ==
  IF new.status = "conditioned" /\ new.notes = "denial"
  THEN [new EXCEPT !.status = "unknown"]
  ELSE new

\* Mutant of Guarded: the mixed position is looked at before the downgrade.
MixedFirst(new) ==
  guard_conditioned_status_requires_an_actual_condition(
    guard_legally_secured_requires_authoritative_content(
      guard_mixed_legal_security_position(new)))

Guarded(new) ==
  guard_conditioned_status_requires_an_actual_condition(
    guard_legally_secured_requires_authoritative_content(
      guard_mixed_legal_security_position(
        guard_legally_secured_position(new))))

(***************************************************************************)
(* refresh_intelligence_for_application: a null keeps what was stored,     *)
(* except the status, which is never null.                                 *)
(***************************************************************************)
Stored(new) ==
  [status |-> new.status,
   pct    |-> IF new.pct # 0 THEN new.pct ELSE position.pct,
   notes  |-> IF new.notes # "null" THEN new.notes ELSE position.notes]

Refresh(new) ==
  /\ documents # {}
  /\ said' = new /\ position' = Stored(Guarded(new))
  /\ UNCHANGED <<stored, reason>>

(***************************************************************************)
(* What the daily run does meanwhile.                                      *)
(***************************************************************************)
Acquire(d) ==
  /\ d \notin stored
  /\ stored' = stored \cup {d} /\ UNCHANGED <<reason, position, said>>

MaterialChange(r) ==
  /\ reason' = r /\ UNCHANGED <<stored, position, said>>

Next ==
  \/ \E new \in Answers : Refresh(new)
  \/ \E d \in Docs : Acquire(d)
  \/ \E r \in Reasons : MaterialChange(r)

Spec == Init /\ [][Next]_vars

(***************************************************************************)
(* Properties.                                                             *)
(***************************************************************************)
TypeOK ==
  /\ stored \subseteq Docs /\ reason \in Reasons \cup {"null"} /\ said \in Answers \cup {NoAnswer}
  /\ position \in [status : Statuses \cup {"null"}, pct : Percentages, notes : Notes]

\* Through any number of refreshes, of any depth and with any answers, a position is
\* called legally secured only if a stored S106 or decision notice itself secures
\* affordable housing, whoever mentioned it first and however often it was reasserted
\* (guard_legally_secured_requires_authoritative_content).
SecuredHasAnOrigin ==
  Secured(position) => \E d \in stored \cap Secures : LegallyAuthoritative(d)

\* Without an S106 or a decision notice in the evidence, an answer that does not claim
\* security itself leaves the percentage of a secured position, whatever becomes of
\* its label (guard_legally_secured_position).
LowerAuthorityKeepsThePercentage ==
  [][/\ position' # position /\ Secured(position) /\ ~Secured(said')
     /\ ~\E d \in documents : LegallyAuthoritative(d)
     => position'.pct = position.pct]_vars

\* A document of lower authority can never downgrade or contradict a secured
\* position (docstring of guard_legally_secured_position): here an answer that
\* claims security again.
RestatedPositionStands ==
  [][/\ position' # position /\ Secured(position) /\ Secured(said')
     /\ ~\E d \in documents : LegallyAuthoritative(d)
     => position'.pct = position.pct /\ Secured(position')]_vars

\* A position the first guard reasserted is not undone by the second (the comment on
\* the flag the first guard sets).
ReassertionStands ==
  [][/\ position' # position /\ Secured(position) /\ ~Secured(said')
     /\ ~\E d \in documents : LegallyAuthoritative(d)
     => Secured(position')]_vars

\* No stored position is "conditioned" beside notes that deny any affordable housing
\* (the comment before guard_conditioned_status_requires_an_actual_condition is called).
ConditionedIsNotDenied == ~(position.status = "conditioned" /\ position.notes = "denial")

\* What the prompt's text leaves out never outranks what it holds: the text is ordered
\* from the highest authority to the lowest (build_refresh_prompt, EVIDENCE AUTHORITY).
AuthorityReadFirst ==
  \A kept \in evidence_text, left \in documents \ evidence_text :
    _EVIDENCE_AUTHORITY_RANK(left) <= _EVIDENCE_AUTHORITY_RANK(kept)
=============================================================================
