----------------------------- MODULE CountGauges -----------------------------
(***************************************************************************)
(* The gauges of the metrics app that count apps and service instances     *)
(* (AppCountGauge and ServiceCountGauge, tools/metrics/gauges_cf.go), and  *)
(* what the Prometheus reporter exposes of them.  A poll lists what it     *)
(* counts, then spaces, orgs and quotas, and joins the four lists; tenants *)
(* and operators change all of them between the calls.                     *)
(*                                                                         *)
(* The client asks for a list page by page.  A page begins where the page  *)
(* before it ended by count: what is made is on the last page, and when    *)
(* something is deleted from a page that has been read, the first on the   *)
(* next page moves up and is not read.                                     *)
(*                                                                         *)
(* The two gauges share nothing but the process, so one poll at a time is  *)
(* enough.  How a batch gets from the poll to the reporter is the subject  *)
(* of MetricStream; here it arrives at once.  The catalogue of services    *)
(* and plans, which ServiceCountGauge lists as well, does not change.      *)
(***************************************************************************)
EXTENDS Naturals, FiniteSets

CONSTANTS
  App, ServiceInstance,
  Space, Org,
  Quota,      \* names of org quotas; an org with the quota "default" is on trial
  SpaceOf,    \* of an app or service instance
  OrgOf,      \* of a space
  TypeOf,     \* label of the service that a service instance is of
  PageSize,   \* how much of a list there is on a page
  MaxChanges  \* BOUND: changes in Cloud Foundry

Item == App \cup ServiceInstance

ASSUME CloudFoundryAssumption ==
  /\ IsFiniteSet(Item) /\ App \cap ServiceInstance = {}
  /\ SpaceOf \in [Item -> Space] /\ OrgOf \in [Space -> Org]
  /\ "default" \in Quota /\ "none" \notin Quota
  /\ \A i \in ServiceInstance : TypeOf[i] # "none"
  /\ PageSize \in Nat \ {0}
  /\ MaxChanges \in Nat

VARIABLES
  item,     \* state of every app, type of every service instance, or "none"
  spaces,   \* the spaces there are
  quotaOf,  \* the quota of every org, or "none" if there is no such org
  quotas,   \* the quotas there are
  deleted,  \* what has been deleted: it does not come back, others get other guids
  poll,     \* the poll that runs: its gauge, the list that it is at, what is on that
            \* list's next pages ("ahead"), and what it has read
  changes,  \* how often Cloud Foundry has changed
  exposed,  \* what /metrics shows, per label: 0 if the label is not there
  up,       \* the process
  steady    \* history: while a poll runs, the items that have not changed since
            \* it began, whose org has kept its quota, and which no deletion has
            \* moved to a page read before, with what they are in

cf == <<item, spaces, quotaOf, quotas, deleted, changes>>
exporter == <<exposed, up>>
vars == <<cf, poll, exporter, steady>>

OrgOfItem(i) == OrgOf[SpaceOf[i]]
States == {"STARTED", "STOPPED"}
StatesOf(i) == IF i \in App THEN States ELSE {TypeOf[i]}
Tag == States \cup {TypeOf[i] : i \in ServiceInstance}
Label == Tag \X BOOLEAN

Gauge == {"apps", "services"}
Subject(g) == IF g = "apps" THEN App ELSE ServiceInstance
NotPolling == [gauge |-> "apps", call |-> "none", ahead |-> {}, items |-> [i \in Item |-> "none"],
               spaces |-> {}, orgs |-> [o \in Org |-> "none"], quotas |-> {}]

\* A list, as it is now.
Listed(call) ==
  CASE call = "items"  -> {i \in Subject(poll.gauge) : item[i] # "none"}
    [] call = "spaces" -> spaces
    [] call = "orgs"   -> {o \in Org : quotaOf[o] # "none"}
    [] call = "quotas" -> quotas
    [] OTHER           -> {}

\* The items that are not counted if x is not on the list.
Needing(call, x) ==
  CASE call = "items"  -> {x}
    [] call = "spaces" -> {i \in Item : SpaceOf[i] = x}
    [] call = "orgs"   -> {i \in Item : OrgOfItem(i) = x}
    [] call = "quotas" -> {i \in Item : quotaOf[OrgOfItem(i)] = x}

\* What is counted is in spaces there are, those are in orgs there are, and orgs
\* have quotas there are.
Consistent ==
  /\ \A i \in Item : /\ item[i] \in StatesOf(i) \cup {"none"}
                     /\ item[i] # "none" => SpaceOf[i] \in spaces
  /\ \A s \in spaces : quotaOf[OrgOf[s]] # "none"
  /\ \A o \in Org : quotaOf[o] \in quotas \cup {"none"}
  /\ "default" \in quotas

Init ==
  /\ item \in [Item -> Tag \cup {"none"}]
  /\ spaces \in SUBSET Space
  /\ quotaOf \in [Org -> Quota \cup {"none"}]
  /\ quotas \in SUBSET Quota
  /\ Consistent
  /\ deleted = {} /\ changes = 0
  /\ poll = NotPolling
  /\ exposed = [l \in Label |-> 0]
  /\ up = TRUE
  /\ steady = Item

-----------------------------------------------------------------------------
(* Cloud Foundry, as the calls find it *)

Changed(items) ==
  /\ changes < MaxChanges /\ changes' = changes + 1
  /\ steady' = IF poll.call = "none" THEN steady ELSE steady \ items
  /\ UNCHANGED exporter

\* Whether x is on the list that the poll is reading.
Reading(call, x) == poll.call = call /\ (call = "items" => x \in Subject(poll.gauge))

\* x is made: it comes last in its list.
Made(call, x, items) ==
  /\ x \notin deleted /\ UNCHANGED deleted
  /\ poll' = IF Reading(call, x) THEN [poll EXCEPT !.ahead = @ \cup {x}] ELSE poll
  /\ Changed(items)

\* x is deleted: if it is on a page that has been read, something moves there.
Deleted(call, x, items) ==
  /\ deleted' = deleted \cup {x}
  /\ \/ /\ Reading(call, x) => x \in poll.ahead \/ poll.ahead = {}
        /\ poll' = IF Reading(call, x) THEN [poll EXCEPT !.ahead = @ \ {x}] ELSE poll
        /\ Changed(items)
     \/ /\ Reading(call, x) /\ x \notin poll.ahead
        /\ \E y \in poll.ahead : /\ poll' = [poll EXCEPT !.ahead = @ \ {y}]
                                 /\ Changed(items \cup Needing(call, y))

InOrg(o) == {i \in Item : OrgOfItem(i) = o}

CreateOrg(o, q) ==
  /\ quotaOf[o] = "none" /\ q \in quotas
  /\ quotaOf' = [quotaOf EXCEPT ![o] = q]
  /\ Made("orgs", o, InOrg(o))
  /\ UNCHANGED <<item, spaces, quotas>>

OrgGets(o, q) ==
  /\ quotaOf[o] \notin {"none", q} /\ q \in quotas
  /\ quotaOf' = [quotaOf EXCEPT ![o] = q]
  /\ Changed(InOrg(o))
  /\ UNCHANGED <<item, spaces, quotas, deleted, poll>>

DeleteOrg(o) ==
  /\ quotaOf[o] # "none"
  /\ \A s \in spaces : OrgOf[s] # o
  /\ quotaOf' = [quotaOf EXCEPT ![o] = "none"]
  /\ Deleted("orgs", o, InOrg(o))
  /\ UNCHANGED <<item, spaces, quotas>>

CreateSpace(s) ==
  /\ s \notin spaces /\ quotaOf[OrgOf[s]] # "none"
  /\ spaces' = spaces \cup {s}
  /\ Made("spaces", s, {})
  /\ UNCHANGED <<item, quotaOf, quotas>>

DeleteSpace(s) ==
  /\ s \in spaces
  /\ \A i \in Item : SpaceOf[i] = s => item[i] = "none"
  /\ spaces' = spaces \ {s}
  /\ Deleted("spaces", s, {})
  /\ UNCHANGED <<item, quotaOf, quotas>>

CreateQuota(q) ==
  /\ q \notin quotas
  /\ quotas' = quotas \cup {q}
  /\ Made("quotas", q, {})
  /\ UNCHANGED <<item, spaces, quotaOf>>

\* Only a quota that no org has can be deleted.
DeleteQuota(q) ==
  /\ q \in quotas \ {"default"}
  /\ \A o \in Org : quotaOf[o] # q
  /\ quotas' = quotas \ {q}
  /\ Deleted("quotas", q, {})
  /\ UNCHANGED <<item, spaces, quotaOf>>

\* Pushed or provisioned, started or stopped, deleted.
Create(i, state) ==
  /\ item[i] = "none" /\ SpaceOf[i] \in spaces
  /\ item' = [item EXCEPT ![i] = state]
  /\ Made("items", i, {i})
  /\ UNCHANGED <<spaces, quotaOf, quotas>>

Become(i, state) ==
  /\ item[i] \notin {"none", state}
  /\ item' = [item EXCEPT ![i] = state]
  /\ Changed({i})
  /\ UNCHANGED <<spaces, quotaOf, quotas, deleted, poll>>

Delete(i) ==
  /\ item[i] # "none"
  /\ item' = [item EXCEPT ![i] = "none"]
  /\ Deleted("items", i, {i})
  /\ UNCHANGED <<spaces, quotaOf, quotas>>

Changes ==
  \/ \E o \in Org : DeleteOrg(o) \/ \E q \in Quota : CreateOrg(o, q) \/ OrgGets(o, q)
  \/ \E s \in Space : CreateSpace(s) \/ DeleteSpace(s)
  \/ \E q \in Quota : CreateQuota(q) \/ DeleteQuota(q)
  \/ \E i \in Item : Delete(i) \/ \E state \in StatesOf(i) : Create(i, state) \/ Become(i, state)

-----------------------------------------------------------------------------
(* A poll *)

\* It is time for a gauge to poll.
Begins(g) ==
  /\ up /\ poll.call = "none"
  /\ poll' = [NotPolling EXCEPT !.gauge = g, !.call = "items",
                               !.ahead = {i \in Subject(g) : item[i] # "none"}]
  /\ UNCHANGED <<cf, exporter, steady>>

\* The next page of a list.  A list is complete when a page says that none follows;
\* the poll then goes on to the next call.
Read(call, next, page, read) ==
  /\ up /\ poll.call = call
  /\ page = poll.ahead \/ Cardinality(page) = PageSize
  /\ Cardinality(page) <= PageSize
  /\ poll' = IF page = poll.ahead THEN [read EXCEPT !.call = next, !.ahead = Listed(next)]
                                  ELSE [read EXCEPT !.ahead = @ \ page]
  /\ UNCHANGED <<cf, exporter, steady>>

ListsItems ==
  \E page \in SUBSET poll.ahead :
    Read("items", "spaces", page,
         [poll EXCEPT !.items = [i \in Item |-> IF i \in page THEN item[i] ELSE @[i]]])

ListsSpaces ==
  \E page \in SUBSET poll.ahead :
    Read("spaces", "orgs", page, [poll EXCEPT !.spaces = @ \cup page])

ListsOrgs ==
  \E page \in SUBSET poll.ahead :
    Read("orgs", "quotas", page,
         [poll EXCEPT !.orgs = [o \in Org |-> IF o \in page THEN quotaOf[o] ELSE @[o]]])

\* Deviation: an error is taken for the end of the list.
X_ListsQuotas ==
  \E page \in SUBSET poll.ahead :
    \/ Read("quotas", "join", page, [poll EXCEPT !.quotas = @ \cup page])
    \/ Read("quotas", "join", poll.ahead, poll)

ListsQuotas ==
  \E page \in SUBSET poll.ahead :
    Read("quotas", "join", page, [poll EXCEPT !.quotas = @ \cup page])

Ends == poll' = NotPolling /\ steady' = Item

\* A call fails: the poll returns without metrics.
CallFails ==
  /\ up /\ poll.call \in {"items", "spaces", "orgs", "quotas"}
  /\ Ends
  /\ UNCHANGED <<cf, exporter>>

\* findSpace and findOrg: the items whose space and org have been listed ...
Placed == {i \in Item : /\ poll.items[i] # "none" /\ SpaceOf[i] \in poll.spaces
                       /\ poll.orgs[OrgOfItem(i)] # "none"}

\* ... and findOrgQuota: those whose quota has been listed as well.
Found == {i \in Placed : poll.orgs[OrgOfItem(i)] \in poll.quotas}

LabelOf(i) == <<poll.items[i], poll.orgs[OrgOfItem(i)] = "default">>
Count(l) == Cardinality({i \in Found : LabelOf(i) = l})

\* ServiceCountGauge does not see that a quota was not found (it tests err) and
\* panics when it looks at its name, and the process with it.
Panics == poll.gauge = "services" /\ Placed # Found

\* Deviation: adds to what was counted before.
X_WriteMetrics == exposed' = [l \in Label |-> exposed[l] + Count(l)]

\* Deviation: sets what has not been exposed before.
Y_WriteMetrics ==
  exposed' = [l \in Label |-> IF exposed[l] = 0 THEN Count(l) ELSE exposed[l]]

\* The poll writes a metric for every label that it has come across; the reporter
\* sets those and keeps the others as they are.
WriteMetrics ==
  exposed' = [l \in Label |-> IF Count(l) > 0 THEN Count(l) ELSE exposed[l]]

Joins ==
  /\ up /\ poll.call = "join" /\ ~Panics
  /\ WriteMetrics
  /\ Ends
  /\ UNCHANGED <<cf, up>>

Dies ==
  /\ up /\ poll.call = "join" /\ Panics
  /\ up' = FALSE
  /\ Ends
  /\ exposed' = [l \in Label |-> 0]
  /\ UNCHANGED cf

\* The platform starts the app again, after a panic or at any other time.
Restarts ==
  /\ up' = TRUE
  /\ Ends
  /\ exposed' = [l \in Label |-> 0]
  /\ UNCHANGED cf

Polls == ListsItems \/ ListsSpaces \/ ListsOrgs \/ ListsQuotas \/ Joins \/ Dies

-----------------------------------------------------------------------------
Next ==
  \/ Changes
  \/ \E g \in Gauge : Begins(g)
  \/ Polls \/ CallFails \/ Restarts

Spec == Init /\ [][Next]_vars

\* Every gauge polls again and again, a poll goes on, the app is started again
\* after a panic; and from some time on calls succeed and nobody restarts the app.
Fairness ==
  /\ \A g \in Gauge : SF_vars(Begins(g))
  /\ WF_vars(Polls) /\ WF_vars(~up /\ Restarts)
  /\ <>[][~CallFails /\ ~(up /\ Restarts)]_vars

FairSpec == Spec /\ Fairness

-----------------------------------------------------------------------------
(* Properties *)

Poll == [gauge : Gauge, call : {"none", "items", "spaces", "orgs", "quotas", "join"},
         ahead : SUBSET (Item \cup Space \cup Org \cup Quota),
         items : [Item -> Tag \cup {"none"}], spaces : SUBSET Space,
         orgs : [Org -> Quota \cup {"none"}], quotas : SUBSET Quota]

\* Types, what Cloud Foundry sees to, that what a list has ahead is there, and that
\* nothing is kept between two polls.
TypeOK ==
  /\ item \in [Item -> Tag \cup {"none"}]
  /\ spaces \subseteq Space
  /\ quotaOf \in [Org -> Quota \cup {"none"}]
  /\ quotas \subseteq Quota
  /\ changes \in 0..MaxChanges
  /\ Consistent
  /\ deleted \subseteq Item \cup Space \cup Org \cup Quota
  /\ poll \in Poll /\ poll.ahead \subseteq Listed(poll.call)
  /\ \A i \in Item \ Subject(poll.gauge) : poll.items[i] = "none"
  /\ poll.call = "none" => poll = NotPolling
  /\ exposed \in [Label -> Nat]
  /\ up \in BOOLEAN
  /\ steady \subseteq Item

\* Where an item belongs now.
Belongs(i, l) == item[i] = l[1] /\ (quotaOf[OrgOfItem(i)] = "default") = l[2]
SteadyOf(l) == {i \in steady : i \in Subject(poll.gauge) /\ Belongs(i, l)}
UnsteadyOf(g) == Subject(g) \ steady

\* Although the four lists are read page by page, at as many moments, no change makes
\* a poll miss, or count twice or under a wrong label, anything but what it is a change
\* of and what a deletion has moved, itself or its space, org or quota, to a page that
\* was read before: the exposed number is that of the other items, give or take these;
\* a number that is not set may be old, but then there is none of the others.
CountsSteady ==
  [][Joins => \A l \in Label :
       /\ exposed'[l] >= Cardinality(SteadyOf(l))
       /\ \/ exposed'[l] = exposed[l]
          \/ exposed'[l] <= Cardinality(SteadyOf(l)) + Cardinality(UnsteadyOf(poll.gauge))]_vars

\* The app does not panic unless, while service instances are counted, an org's quota
\* changes or a quota is deleted; in the second case, over an org that had the quota
\* which the deletion has moved to a page that was read before.
DiesOnlyOnChange == [][Dies => \E i \in Placed \ Found : i \notin steady]_vars

\* Once nothing changes any more the app stays up, and the labels in use get, and
\* keep, the right numbers.  (Labels that are no longer in use keep their last.)
Settles ==
  <>[][~Changes]_vars =>
    <>[](up /\ \A l \in Label :
           LET inUse == {i \in Item : Belongs(i, l)}
           IN  inUse # {} => exposed[l] = Cardinality(inUse))
=============================================================================
