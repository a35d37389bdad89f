------------------------------ MODULE SiteLinking ------------------------------
(***************************************************************************)
(* Applications of one council consolidated into Sites: the tiers of       *)
(* app/pipeline/site_linking.py, the weekly stage_link_sites and the       *)
(* related-applications search (pipeline/run_weekly.py), the operators'    *)
(* review of suggested links (ui/pages/2_Review_Site_Links.py) and their   *)
(* relinking of a whole Site (services/ui_commands.py).                    *)
(*                                                                         *)
(* The stage is one transaction: a step per application, a commit at the   *)
(* end.  Until then its rows and its new Sites are its own: the database   *)
(* (PostgreSQL, READ COMMITTED) shows it the commits of others and not     *)
(* them its writes; a rollback leaves the ids of its Sites unused.  A      *)
(* click reruns the page: it loads the suggestion, then writes the columns *)
(* that it changed.  Relinking is one call and one step.                   *)
(***************************************************************************)
EXTENDS Integers, Sequences, FiniteSets

CONSTANTS
  Apps,
  Held,        \* rows admitted as discovery_pending
  Addresses,   \* normalised addresses
  Blank,       \* no address
  AddressOf,   \* [Apps -> Addresses \cup {Blank}]
  CitedBy,     \* [Apps -> SUBSET Apps]: whose proposals cite its reference
  Near,        \* pairs of addresses in one postcode district that score 70 or more
  Reviewers,   \* operators who review suggested links
  MaxRelinks,  \* model bound: Sites relinked
  MaxStops     \* model bound: runs that die inside the stage

ASSUME SiteAssumption ==
  /\ Apps # {} /\ Held \subseteq Apps /\ Blank \notin Addresses
  /\ AddressOf \in [Apps -> Addresses \cup {Blank}]
  /\ CitedBy \in [Apps -> SUBSET Apps]
  /\ Near \subseteq SUBSET Addresses
  /\ MaxRelinks \in Nat /\ MaxStops \in Nat

None == 0        \* a NULL site_id
Gone == "gone"   \* the id of a Site that a rollback removed

ASSUME GoneAssumption == Gone \notin Addresses \cup {Blank}

VARIABLES
  app,      \* committed application rows: method, site, suggested site
  sites,    \* canonical addresses of the Sites, by id
  stage,    \* stage_link_sites: pc, rows left, rows written and not committed
  click,    \* each operator's click under way; overtaken is history
  relinked, \* Sites whose applications were moved away, in order
  stops

linkVars == <<app, sites, stage, click, relinked, stops>>

Absent   == [method |-> "absent", site |-> None, suggested |-> None]
Unlinked == [Absent EXCEPT !.method = "none"]
Linked(how, s) == [method |-> how, site |-> s, suggested |-> None]
NoStage == [pc |-> "idle", todo |-> {}, rows |-> <<>>]
NoClick == [pc |-> "none", app |-> CHOOSE a \in Apps : TRUE, suggested |-> None, overtaken |-> FALSE]

Present == {a \in Apps : app[a].method # "absent"}
SiteIds == DOMAIN sites
Written == DOMAIN stage.rows

LinkInit ==
  /\ app = [a \in Apps |-> Absent] /\ sites = <<>>
  /\ stage = NoStage /\ click = [o \in Reviewers |-> NoClick]
  /\ relinked = <<>> /\ stops = 0

\* A new row, scraped or fetched as a missing parent.
Found(a) ==
  /\ app[a].method = "absent" /\ stage.pc = "idle"
  /\ app' = [app EXCEPT ![a] = Unlinked]
  /\ UNCHANGED <<sites, stage, click, relinked, stops>>

\* stage_fetch_related_applications: a new row goes to its anchor's Site at once.
FoundRelated(a) ==
  /\ app[a].method = "absent" /\ stage.pc = "idle" /\ a \notin Held
  /\ \E anchor \in Present : /\ app[anchor].site # None /\ a \in CitedBy[anchor]
                          /\ app' = [app EXCEPT ![a] = Linked("related_search", app[anchor].site)]
  /\ UNCHANGED <<sites, stage, click, relinked, stops>>

----------------------------------------------------------------------------
(* link_application_to_site: the rows it may make of one, by what the stage sees *)

Row(a) == IF a \in Written THEN stage.rows[a] ELSE app[a]

Pending(a) == app[a].method = "none" /\ a \notin Held

AtAddress(a) == {s \in SiteIds : sites[s] = AddressOf[a]}

Parents(a) == {p \in Present : a \in CitedBy[p]}

CitingSites(a) == {Row(c).site : c \in {d \in Present \cap CitedBy[a] : Row(d).site # None}}

Similar(a) == {s \in SiteIds : {sites[s], AddressOf[a]} \in Near}

\* Mutant of Created: _create_site without the flush that gives the row its id.
CreatedUnflushed == Linked("created", None)

\* _create_site: the next id.
Created == Linked("created", Len(sites) + 1)

\* first() of the cited rows: its Site, unless that one has none.
FromParent(a) == IF Parents(a) = {} THEN {None} ELSE {Row(p).site : p \in Parents(a)}

\* Tiers 2b, 3 and 4.
Otherwise(a) ==
  IF CitingSites(a) # {} THEN {Linked("parent_reference", s) : s \in CitingSites(a)}
  ELSE IF Similar(a) = {} THEN {Created}
  ELSE {[method |-> "suggested_fuzzy", site |-> None, suggested |-> s] : s \in Similar(a)}

Links(a) ==
  IF AddressOf[a] = Blank THEN {Created}
  ELSE IF AtAddress(a) # {} THEN {Linked("exact_address", s) : s \in AtAddress(a)}
  ELSE {Linked("parent_reference", s) : s \in FromParent(a) \ {None}}
         \cup (IF None \in FromParent(a) THEN Otherwise(a) ELSE {})

----------------------------------------------------------------------------
(* stage_link_sites *)

BeginStage ==
  /\ stage.pc = "idle" /\ \E a \in Apps : Pending(a)
  /\ stage' = [NoStage EXCEPT !.pc = "linking", !.todo = {a \in Apps : Pending(a)}]
  /\ UNCHANGED <<app, sites, click, relinked, stops>>

\* scalar_one_or_none of two Sites at the address.
Ambiguous(a) == AddressOf[a] # Blank /\ Cardinality(AtAddress(a)) > 1

LinkOne(a) ==
  /\ stage.pc = "linking" /\ a \in stage.todo /\ ~Ambiguous(a)
  /\ \E row \in Links(a) :
       /\ sites' = IF row.method = "created" THEN Append(sites, AddressOf[a]) ELSE sites
       /\ stage' = [stage EXCEPT !.todo = @ \ {a},
                !.rows = [b \in Written \cup {a} |-> IF b = a THEN row ELSE stage.rows[b]]]
  /\ UNCHANGED <<app, click, relinked, stops>>

CommitStage ==
  /\ stage.pc = "linking" /\ stage.todo = {}
  /\ app' = [a \in Apps |-> Row(a)]
  /\ stage' = NoStage
  /\ UNCHANGED <<sites, click, relinked, stops>>

\* The Sites that the stage has created and not committed.
Made == {stage.rows[a].site : a \in {b \in Written : stage.rows[b].method = "created"}}

Rollback ==
  /\ sites' = [s \in SiteIds |-> IF s \in Made THEN Gone ELSE sites[s]]
  /\ stage' = NoStage

\* Nothing catches MultipleResultsFound inside the stage: the council's run ends.
StageRaises(a) ==
  /\ stage.pc = "linking" /\ a \in stage.todo /\ Ambiguous(a)
  /\ Rollback
  /\ UNCHANGED <<app, click, relinked, stops>>

StageStops ==
  /\ stage.pc = "linking" /\ stops < MaxStops /\ stops' = stops + 1
  /\ Rollback
  /\ UNCHANGED <<app, click, relinked>>

----------------------------------------------------------------------------
(* Operators *)

\* Mutant of Suggested: answered suggestions stay on the page.
EverSuggested(a) == app[a].suggested # None

Suggested(a) == app[a].method = "suggested_fuzzy" /\ app[a].site = None

\* A button is pressed: the rerun page loads the suggestion.
Click(o, a) ==
  /\ click[o].pc = "none" /\ Suggested(a)
  /\ \E button \in {"confirm", "reject"} :
       click' = [click EXCEPT ![o] = [pc |-> button, app |-> a, suggested |-> app[a].suggested,
                                      overtaken |-> FALSE]]
  /\ UNCHANGED <<app, sites, stage, relinked, stops>>

\* The page is done with its answer, which overtakes those that others have under way.
Overtakes(o) == {p \in Reviewers \ {o} : click[p].pc # "none" /\ click[p].app = click[o].app}

Answered(o) ==
  click' = [p \in Reviewers |-> IF p = o THEN NoClick
                               ELSE IF p \in Overtakes(o) THEN [click[p] EXCEPT !.overtaken = TRUE]
                               ELSE click[p]]

\* confirm_suggested_link: the method is as it was loaded, so site_id alone is written.
Confirm(o) ==
  /\ click[o].pc = "confirm"
  /\ app' = [app EXCEPT ![click[o].app].site = click[o].suggested]
  /\ Answered(o)
  /\ UNCHANGED <<sites, stage, relinked, stops>>

\* reject_suggested_link creates a Site, whatever Sites there are.
Reject(o) ==
  /\ click[o].pc = "reject"
  /\ app' = [app EXCEPT ![click[o].app] = Created]
  /\ sites' = Append(sites, AddressOf[click[o].app])
  /\ Answered(o)
  /\ UNCHANGED <<stage, relinked, stops>>

\* relink_site_applications: all of a Site's applications to a target's Site.
Relink(s, target) ==
  /\ Len(relinked) < MaxRelinks
  /\ app[target].site \notin {None, s} /\ s \in {app[a].site : a \in Apps}
  /\ app' = [a \in Apps |-> IF app[a].site = s
                            THEN [app[a] EXCEPT !.site = app[target].site, !.method = "manual"]
                            ELSE app[a]]
  /\ relinked' = Append(relinked, s)
  /\ UNCHANGED <<sites, stage, click, stops>>

RunStep ==
  \/ BeginStage \/ CommitStage
  \/ \E a \in Apps : LinkOne(a) \/ StageRaises(a)

Operator(o) == (\E a \in Apps : Click(o, a)) \/ Confirm(o) \/ Reject(o)

LinkNext ==
  \/ RunStep \/ StageStops
  \/ \E a \in Apps : Found(a) \/ FoundRelated(a)
  \/ \E o \in Reviewers : Operator(o)
  \/ \E s \in SiteIds, a \in Apps : Relink(s, a)

LinkSpec == LinkInit /\ [][LinkNext]_linkVars

\* The weekly run reaches the stage again and again, and operators answer.
LinkFairSpec ==
  /\ LinkSpec
  /\ WF_linkVars(RunStep) /\ \A o \in Reviewers : WF_linkVars(Operator(o))

(***************************************************************************)
(* Properties.                                                             *)
(***************************************************************************)
\* Sites an uncommitted row may point to, and those a committed one may.
Here      == {s \in SiteIds : sites[s] # Gone}
Committed == Here \ Made

\* Type correctness: links point to Sites that are there for whoever reads them, only a
\* suggestion waits without one, and identity-only rows ("identity capture does not
\* establish a site relationship", site_linking.py:142) stay unlinked under every writer.
SiteTypeOK ==
  /\ sites \in Seq(Addresses \cup {Blank, Gone})
  /\ \A a \in Apps :
       /\ {app[a].site, app[a].suggested} \subseteq Committed \cup {None}
       /\ app[a].method \in {"absent", "none"} => app[a].site = None
       /\ app[a].site = None => app[a].method \in {"absent", "none", "suggested_fuzzy"}
       /\ a \in Held => app[a].method \in {"absent", "none"}
  /\ stage.pc = "idle" => stage = NoStage

\* A parent and the filings that cite it end up in one Site in either order of
\* arrival: it is with one of them at least, unless exact addresses or an
\* operator decided (link_application_to_site, tiers 2 and 2b).
ParentWithItsScheme ==
  \A p \in Present :
    LET citing  == {c \in Present \cap CitedBy[p] : app[c].site # None}
        decided == {c \in citing : app[c].method \in {"exact_address", "manual"}} IN
    (app[p].site # None /\ citing # {}) =>
      \/ app[p].method \in {"exact_address", "manual"} \/ citing = decided
      \/ \E c \in citing : app[c].site = app[p].site

\* Two filings at one address that the stage linked are in one Site
\* (link_application_to_site, tier 1).
SameAddressTogether ==
  \A a, b \in Present :
    (/\ AddressOf[a] = AddressOf[b] /\ AddressOf[a] # Blank
     /\ {app[a].method, app[b].method} \subseteq {"exact_address", "created", "parent_reference"})
      => app[a].site = app[b].site

\* A committed link stands, whatever the stage and its rollbacks, the search and the
\* operators do beside it, unless an operator relinks the Site, or answers a suggestion
\* that another has answered since the page loaded it ("if site_id is not None ...
\* already processed", site_linking.py:143; 2_Review_Site_Links.py:109).
LinkStands ==
  [][\A a \in Apps : app[a].site # None /\ app'[a].site # app[a].site =>
       \/ relinked' # relinked
       \/ \E o \in Reviewers : click[o].app = a /\ click[o].overtaken /\ click'[o] = NoClick]_linkVars

\* A Site merged into another scheme gains no applications afterwards
\* (relink_site_applications).
MergedStaysEmpty ==
  \A i \in DOMAIN relinked : \A a \in Present :
    app[a].method # "manual" => app[a].site # relinked[i]

\* Every row the scrape finds is linked in the end, whatever runs die
\* (stage_link_sites and the review page).
EveryoneLinked ==
  \A a \in Apps \ Held : (app[a].method # "absent") ~> (app[a].site # None)

(***************************************************************************)
(* What holds the links together.                                          *)
(***************************************************************************)
Methods == {"absent", "none", "created", "exact_address", "parent_reference",
            "related_search", "suggested_fuzzy", "manual"}

RowsFor(homes) == [method : Methods, site : homes \cup {None}, suggested : homes \cup {None}]

\* A row that is linked to one of the Sites, or suggested to be.
Placed(row, homes) ==
  /\ row \in RowsFor(homes) /\ row.method \notin {"absent", "none"}
  /\ row.site = None => row.method = "suggested_fuzzy"
  /\ row.method = "suggested_fuzzy" => row.suggested # None

\* The committed rows.
WellLinked ==
  /\ app \in [Apps -> RowsFor(Committed)]
  /\ \A a \in Apps : IF app[a].method \in {"absent", "none"} THEN app[a].site = None
                     ELSE a \notin Held /\ Placed(app[a], Committed)

\* The rows of the stage: nobody has placed any of them since they were selected, so that
\* its commit overwrites nothing.
WellStaged ==
  /\ stage = [pc |-> stage.pc, todo |-> stage.todo, rows |-> stage.rows]
  /\ stage.pc \in {"idle", "linking"} /\ (stage.pc = "idle" => stage = NoStage)
  /\ stage.todo \cup Written \subseteq Apps \ Held /\ stage.todo \cap Written = {}
  /\ \A a \in stage.todo \cup Written : app[a].method = "none"
  /\ \A a \in Written : Placed(stage.rows[a], Here)

Clicks == [pc : {"none", "confirm", "reject"}, app : Apps, suggested : Nat, overtaken : BOOLEAN]

\* A suggestion that an operator has loaded waits, unless it was overtaken.
WellClicked ==
  /\ click \in [Reviewers -> Clicks]
  /\ \A o \in Reviewers :
       IF click[o].pc = "none" THEN ~click[o].overtaken
       ELSE /\ click[o].suggested \in Committed
            /\ app[click[o].app].method \notin {"absent", "none"}
            /\ ~click[o].overtaken => Suggested(click[o].app)

LinkInv ==
  sites \in Seq(Addresses \cup {Blank, Gone}) /\ WellLinked /\ WellStaged /\ WellClicked
=============================================================================
