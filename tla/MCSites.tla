--------------------------------- MODULE MCSites ---------------------------------
(***************************************************************************)
(* The links of applications to Sites and of Sites to allocations.  A      *)
(* behaviour belongs to one part, chosen at the start, and the others keep *)
(* their initial state:                                                    *)
(*   scheme   an outline parent 4, near the Site of 1, and the phase 2     *)
(*            that cites it;                                               *)
(*   twins    filings at one address, near that of 5;                      *)
(*   writers  three documents of one Site and every writer of its          *)
(*            relationships;                                               *)
(*   poison   the scan and the batch, and an older document that always    *)
(*            fails.                                                       *)
(***************************************************************************)
EXTENDS RelationshipProperties, SiteLinking, TLC

VARIABLE part

\* Each part has addresses of its own, and nothing is cited or near across them.
Schemes     == [scheme |-> 1..4, twins |-> 5..8]
HomeOf      == <<"north", "south", "blank", "east", "west", "mill", "mill", "mill">>
Citations   == [a \in 1..8 |-> IF a = 4 THEN {2} ELSE {}]
Neighbours  == {{"north", "east"}, {"west", "mill"}}

\* Document 1 is the one that fails.  Document 2 explicitly places the Site in both
\* allocations, 3 mentions the second one only, 4 speaks against the first.
OneSite    == <<"s1", "s1", "s1", "s1">>
Places     == <<{"a1"}, {"a1", "a2"}, {}, {}>>
Mentions   == <<{}, {}, {"a2"}, {}>>
Denies     == <<{}, {}, {}, {"a1"}>>
Weights    == <<1, 1, 2, 3>>
NoFuzzy    == [a \in Allocations |-> {}]
FirstIsS1  == "a1" :> "s1" @@ "a2" :> NoSite
Rejectable == {<<"a1", "s1">>}
Doubtful   == {<<"a2", "s1">>}

all == <<part, linkVars, relationVars>>

InitAll ==
  /\ part \in {"scheme", "twins", "writers", "poison"}
  /\ LinkInit /\ RelationInit

\* What keeps a part small.
Within ==
  /\ Present \subseteq (IF part \in DOMAIN Schemes THEN Schemes[part] ELSE {})
  /\ IF part = "writers" THEN Poison \cap ready = {}
     ELSE cleanup = NoCleanup /\ reviews = 0 /\ Cardinality(ready) <= Limit

\* Whose behaviour it is.
OfLinks(p) == part = p /\ UNCHANGED <<part, relationVars>>
OfEvidence == part \in {"writers", "poison"} /\ UNCHANGED <<part, linkVars>>

NextAll ==
  \/ (OfLinks("scheme") \/ OfLinks("twins")) /\ LinkNext /\ Within'
  \/ OfEvidence /\ RelationNext /\ Within'

\* What LinkFairSpec assumes.
SpecAll ==
  /\ InitAll /\ [][NextAll]_all
  /\ WF_all(OfLinks("scheme") /\ RunStep)
  /\ \A o \in Reviewers : WF_all(OfLinks("scheme") /\ Operator(o))

-----------------------------------------------------------------------------
(* Every row the scrape finds of the scheme is linked in the end, by the stage or by an
   operator who answers its suggestion, whatever runs die (stage_link_sites, the review
   page). *)
SchemeLinked ==
  \A a \in Schemes.scheme :
    (part = "scheme" /\ app[a].method # "absent") ~> (app[a].site # None)
=============================================================================
