-------------------------- MODULE CountGaugesProofs --------------------------
(***************************************************************************)
(* Proofs about CountGauges, for any apps, service instances, spaces, orgs *)
(* and quotas and any number of changes.                                   *)
(***************************************************************************)
EXTENDS CountGauges, FiniteSetTheorems, TLAPS

LEMMA Constants ==
  /\ IsFiniteSet(Item) /\ "none" \notin Tag
  /\ \A i \in Item : StatesOf(i) \subseteq Tag /\ OrgOfItem(i) \in Org
  /\ \A g \in Gauge : Subject(g) \subseteq Item
<1>1. \A i \in Item : StatesOf(i) \subseteq Tag
  BY DEF Item, StatesOf, Tag
<1>2. \A i \in Item : OrgOfItem(i) \in Org
  BY CloudFoundryAssumption DEF OrgOfItem
<1>3. "none" \notin Tag
  BY CloudFoundryAssumption DEF Tag, States
<1> QED
  BY <1>1, <1>2, <1>3, CloudFoundryAssumption DEF Gauge, Subject, Item

\* What the lists say of an item that is steady is still so, list by list; or the list
\* that is being read has it ahead.
Tracked(i) ==
  /\ (poll.call = "items" /\ i \in poll.ahead) \/ poll.items[i] = item[i]
  /\ item[i] # "none" =>
       /\ poll.call = "spaces" => SpaceOf[i] \in poll.ahead \cup poll.spaces
       /\ poll.call \in {"orgs", "quotas", "join"} => SpaceOf[i] \in poll.spaces
       /\ poll.call = "orgs" => \/ OrgOfItem(i) \in poll.ahead
                               \/ poll.orgs[OrgOfItem(i)] = quotaOf[OrgOfItem(i)]
       /\ poll.call \in {"quotas", "join"} =>
            poll.orgs[OrgOfItem(i)] = quotaOf[OrgOfItem(i)]
       /\ poll.call = "quotas" => quotaOf[OrgOfItem(i)] \in poll.ahead \cup poll.quotas
       /\ poll.call = "join" => quotaOf[OrgOfItem(i)] \in poll.quotas

Tracking ==
  poll.call # "none" => \A i \in steady : i \in Subject(poll.gauge) => Tracked(i)

IInv == TypeOK /\ Tracking

Things == Item \cup Space \cup Org \cup Quota
Lists == {"items", "spaces", "orgs", "quotas"}

LEMMA NotPollingType ==
  /\ NotPolling \in Poll /\ NotPolling.call = "none" /\ NotPolling.ahead = {}
  /\ \A i \in Item : NotPolling.items[i] = "none"
BY CloudFoundryAssumption DEF NotPolling, Poll, Gauge

\* A list is of things of its kind.
LEMMA ListedType ==
  ASSUME TypeOK, NEW call
  PROVE  Listed(call) \subseteq Things
<1>1. Subject(poll.gauge) \subseteq Item
  BY Constants DEF TypeOK, Poll
<1> QED
  BY <1>1 DEF Listed, TypeOK, Things

LEMMA CountType == \A l \in Label : Count(l) \in Nat
<1>1. \A l \in Label : {i \in Found : LabelOf(i) = l} \subseteq Item
  BY DEF Found, Placed
<1> QED
  BY <1>1, Constants, FS_Subset, FS_CardinalityType DEF Count

LEMMA InitInv == Init => IInv
<1> SUFFICES ASSUME Init PROVE IInv
  OBVIOUS
<1>1. poll \in Poll /\ poll.ahead = {} /\ poll.call = "none" /\ poll = NotPolling
  BY NotPollingType DEF Init
<1> QED
  BY <1>1, NotPollingType, CloudFoundryAssumption DEF Init, IInv, TypeOK, Tracking

\* What a change leaves alone: Cloud Foundry is consistent after it, and items that are
\* not among those are what they were, with their quotas.
Kept(gone) ==
  /\ item' \in [Item -> Tag \cup {"none"}] /\ spaces' \subseteq Space
  /\ quotaOf' \in [Org -> Quota \cup {"none"}] /\ quotas' \subseteq Quota
  /\ Consistent'
  /\ \A i \in Item \ gone : /\ item'[i] = item[i]
                           /\ quotaOf'[OrgOfItem(i)] = quotaOf[OrgOfItem(i)]

\* A change after which less may be ahead, if what needs it is not steady any more.
LEMMA ChangeInv ==
  ASSUME IInv, NEW gone \in SUBSET Item, Changed(gone), Kept(gone),
         NEW ahead \in SUBSET Things, poll' = [poll EXCEPT !.ahead = ahead],
         ahead \subseteq Listed(poll.call)', deleted' \subseteq Things,
         \A x \in poll.ahead \ ahead : \A i \in Needing(poll.call, x) :
             i \in gone \/ (item[i] = "none" /\ poll.call # "items")
  PROVE  IInv'
<1>1. /\ changes' \in 0..MaxChanges /\ steady' \subseteq Item
      /\ poll.call # "none" => steady' = steady \ gone
      /\ UNCHANGED <<exposed, up>>
  BY CloudFoundryAssumption DEF Changed, exporter, IInv, TypeOK
<1>2. /\ poll' \in Poll /\ poll'.ahead = ahead
      /\ poll'.call = poll.call /\ poll'.gauge = poll.gauge /\ poll'.items = poll.items
      /\ poll'.spaces = poll.spaces /\ poll'.orgs = poll.orgs /\ poll'.quotas = poll.quotas
  BY DEF IInv, TypeOK, Poll, Things
<1>3. poll.call = "none" => poll' = NotPolling
  <2>1. ASSUME poll.call = "none" PROVE ahead = {}
    BY <2>1, <1>2 DEF Listed
  <2>2. ASSUME poll.call = "none" PROVE poll = NotPolling
    BY <2>2 DEF IInv, TypeOK
  <2>3. [NotPolling EXCEPT !.ahead = {}] = NotPolling
    BY NotPollingType DEF Poll
  <2> QED
    BY <2>1, <2>2, <2>3
<1>4. TypeOK'
  BY <1>1, <1>2, <1>3 DEF IInv, TypeOK, Kept, Things
<1>5. ASSUME poll.call # "none", NEW i \in Item, i \in steady', i \in Subject(poll.gauge)
      PROVE  Tracked(i)'
  <2>1. Tracked(i) /\ i \notin gone
    BY <1>1, <1>5 DEF IInv, Tracking
  <2>2. item'[i] = item[i] /\ quotaOf'[OrgOfItem(i)] = quotaOf[OrgOfItem(i)]
    BY <2>1 DEF Kept
  <2>3. /\ poll.call = "items" /\ i \in poll.ahead => i \in ahead
        /\ poll.call = "spaces" /\ item[i] # "none" /\ SpaceOf[i] \in poll.ahead
              => SpaceOf[i] \in ahead
        /\ poll.call = "orgs" /\ item[i] # "none" /\ OrgOfItem(i) \in poll.ahead
              => OrgOfItem(i) \in ahead
        /\ poll.call = "quotas" /\ item[i] # "none" /\ quotaOf[OrgOfItem(i)] \in poll.ahead
              => quotaOf[OrgOfItem(i)] \in ahead
    BY <2>1 DEF Needing
  <2>4. OrgOfItem(i)' = OrgOfItem(i)
    BY DEF OrgOfItem
  <2> QED
    BY <1>2, <2>1, <2>2, <2>3, <2>4 DEF Tracked
<1>6. Tracking'
  BY <1>1, <1>2, <1>5 DEF Tracking, IInv, TypeOK
<1> QED
  BY <1>4, <1>6 DEF IInv

\* Nothing is made or deleted.
LEMMA ChangedInv ==
  ASSUME IInv, NEW gone \in SUBSET Item, Changed(gone), Kept(gone),
         UNCHANGED <<poll, deleted>>, Listed(poll.call) \subseteq Listed(poll.call)'
  PROVE  IInv'
<1>1. /\ poll' = [poll EXCEPT !.ahead = poll.ahead] /\ poll.ahead \in SUBSET Things
      /\ deleted' \subseteq Things /\ poll.ahead \subseteq Listed(poll.call)'
  BY DEF IInv, TypeOK, Poll, Things
<1> QED
  BY <1>1, ChangeInv

LEMMA MadeInv ==
  ASSUME IInv, NEW call \in Lists, NEW x \in Things, NEW gone \in SUBSET Item,
         Made(call, x, gone), Kept(gone),
         Listed(poll.call) \subseteq Listed(poll.call)',
         Reading(call, x) => x \in Listed(poll.call)'
  PROVE  IInv'
<1> DEFINE ahead == IF Reading(call, x) THEN poll.ahead \cup {x} ELSE poll.ahead
<1>1. poll' = [poll EXCEPT !.ahead = ahead]
  BY DEF Made, IInv, TypeOK, Poll
<1>2. /\ ahead \in SUBSET Things /\ ahead \subseteq Listed(poll.call)'
      /\ deleted' \subseteq Things /\ Changed(gone)
  BY DEF Made, IInv, TypeOK, Poll, Things
<1>3. poll.ahead \ ahead = {}
  OBVIOUS
<1> HIDE DEF ahead
<1> QED
  BY <1>1, <1>2, <1>3, ChangeInv

LEMMA DeletedInv ==
  ASSUME IInv, NEW call \in Lists, NEW x \in Things, NEW gone \in SUBSET Item,
         Deleted(call, x, gone), Kept(gone),
         \A y \in Listed(poll.call) : y \in Listed(poll.call)' \/ (Reading(call, x) /\ y = x),
         Reading(call, x) => \A i \in Needing(call, x) :
                               i \in gone \/ (item[i] = "none" /\ call # "items")
  PROVE  IInv'
<1>1. deleted' \subseteq Things
  BY DEF Deleted, IInv, TypeOK, Things
<1>2. CASE /\ Reading(call, x) => x \in poll.ahead \/ poll.ahead = {}
           /\ poll' = IF Reading(call, x) THEN [poll EXCEPT !.ahead = @ \ {x}] ELSE poll
           /\ Changed(gone)
  <2> DEFINE ahead == IF Reading(call, x) THEN poll.ahead \ {x} ELSE poll.ahead
  <2>1. poll' = [poll EXCEPT !.ahead = ahead]
    BY <1>2 DEF IInv, TypeOK, Poll
  <2>2. ahead \in SUBSET Things /\ ahead \subseteq Listed(poll.call)'
    BY DEF IInv, TypeOK, Poll, Things
  <2>3. \A y \in poll.ahead \ ahead : \A i \in Needing(poll.call, y) :
          i \in gone \/ (item[i] = "none" /\ poll.call # "items")
    BY DEF Reading
  <2> HIDE DEF ahead
  <2> QED
    BY <1>1, <1>2, <2>1, <2>2, <2>3, ChangeInv
<1>3. ASSUME Reading(call, x), x \notin poll.ahead, NEW y \in poll.ahead,
             poll' = [poll EXCEPT !.ahead = @ \ {y}], Changed(gone \cup Needing(call, y))
      PROVE  IInv'
  <2> DEFINE ahead == poll.ahead \ {y}
             more == gone \cup Needing(call, y)
  <2>1. Needing(call, y) \subseteq Item
    <3>1. call = "items" => y \in Item
      BY <1>3, Constants DEF Reading, Listed, IInv, TypeOK, Poll
    <3> QED
      BY <3>1 DEF Needing, Lists
  <2>2. poll' = [poll EXCEPT !.ahead = ahead]
    BY <1>3
  <2>3. ahead \in SUBSET Things /\ ahead \subseteq Listed(poll.call)'
    BY <1>3 DEF IInv, TypeOK, Poll, Things
  <2>4. \A z \in poll.ahead \ ahead : \A i \in Needing(poll.call, z) :
          i \in more \/ (item[i] = "none" /\ poll.call # "items")
    BY <1>3 DEF Reading
  <2>5. more \in SUBSET Item /\ Kept(more) /\ Changed(more)
    BY <1>3, <2>1 DEF Kept
  <2> HIDE DEF ahead, more
  <2> QED
    BY <1>1, <2>2, <2>3, <2>4, <2>5, ChangeInv
<1> QED
  BY <1>2, <1>3 DEF Deleted

LEMMA EndsInv ==
  ASSUME IInv, Ends, UNCHANGED cf, exposed' \in [Label -> Nat], up' \in BOOLEAN
  PROVE  IInv'
BY NotPollingType DEF Ends, cf, IInv, TypeOK, Consistent, Tracking

\* The changes of what Cloud Foundry keeps.
LEMMA OrgChanges ==
  ASSUME IInv, NEW o \in Org,
         DeleteOrg(o) \/ \E q \in Quota : CreateOrg(o, q) \/ OrgGets(o, q)
  PROVE  IInv'
<1>1. PICK q \in Quota \cup {"none"} :
        /\ quotaOf' = [quotaOf EXCEPT ![o] = q]
        /\ UNCHANGED <<item, spaces, quotas>>
        /\ \/ q = "none" /\ DeleteOrg(o)
           \/ q \in quotas /\ CreateOrg(o, q)
           \/ q \in quotas /\ OrgGets(o, q)
  BY DEF DeleteOrg, CreateOrg, OrgGets
<1>2. InOrg(o) \in SUBSET Item
  BY DEF InOrg
<1>3. Kept(InOrg(o))
  <2>1. quotaOf' \in [Org -> Quota \cup {"none"}]
    BY <1>1 DEF IInv, TypeOK
  <2>2. q = "none" => \A s \in spaces : OrgOf[s] # o
    BY <1>1, CloudFoundryAssumption DEF DeleteOrg, IInv, TypeOK
  <2>3. Consistent'
    BY <1>1, <2>2, CloudFoundryAssumption DEF IInv, TypeOK, Consistent
  <2>4. \A i \in Item \ InOrg(o) : quotaOf'[OrgOfItem(i)] = quotaOf[OrgOfItem(i)]
    BY <1>1, Constants DEF IInv, TypeOK, InOrg
  <2> QED
    BY <1>1, <2>1, <2>3, <2>4 DEF Kept, IInv, TypeOK
<1>4. poll'.call = poll.call /\ poll'.gauge = poll.gauge
  BY <1>1 DEF DeleteOrg, CreateOrg, OrgGets, Made, Deleted, IInv, TypeOK, Poll
<1>5. CASE q = "none" /\ DeleteOrg(o)
  <2>1. \A y \in Listed(poll.call) :
          y \in Listed(poll.call)' \/ (Reading("orgs", o) /\ y = o)
    BY <1>1, <1>4 DEF Listed, Reading, IInv, TypeOK
  <2>2. \A i \in Needing("orgs", o) : i \in InOrg(o)
    BY DEF Needing, InOrg
  <2> QED
    BY <1>2, <1>3, <1>5, <2>1, <2>2, DeletedInv DEF DeleteOrg, Lists, Things
<1>6. CASE q \in quotas /\ CreateOrg(o, q)
  <2>1. q # "none"
    BY <1>6, CloudFoundryAssumption DEF IInv, TypeOK
  <2>2. /\ Listed(poll.call) \subseteq Listed(poll.call)'
        /\ Reading("orgs", o) => o \in Listed(poll.call)'
    BY <1>1, <1>4, <2>1 DEF Listed, Reading, IInv, TypeOK
  <2> QED
    BY <1>2, <1>3, <1>6, <2>2, MadeInv DEF CreateOrg, Lists, Things
<1>7. CASE q \in quotas /\ OrgGets(o, q)
  <2>1. q # "none"
    BY <1>7, CloudFoundryAssumption DEF IInv, TypeOK
  <2>2. Listed(poll.call) \subseteq Listed(poll.call)'
    BY <1>1, <1>4, <2>1 DEF Listed, IInv, TypeOK
  <2> QED
    BY <1>2, <1>3, <1>7, <2>2, ChangedInv DEF OrgGets
<1> QED
  BY <1>1, <1>5, <1>6, <1>7

LEMMA SpaceChanges ==
  ASSUME IInv, NEW s \in Space, CreateSpace(s) \/ DeleteSpace(s)
  PROVE  IInv'
<1>1. UNCHANGED <<item, quotaOf, quotas>> /\ spaces' \subseteq Space
  BY DEF CreateSpace, DeleteSpace, IInv, TypeOK
<1>2. Consistent'
  BY DEF CreateSpace, DeleteSpace, IInv, TypeOK, Consistent
<1>3. Kept({})
  BY <1>1, <1>2 DEF Kept, IInv, TypeOK
<1>4. poll'.call = poll.call /\ poll'.gauge = poll.gauge
  BY DEF CreateSpace, DeleteSpace, Made, Deleted, IInv, TypeOK, Poll
<1>5. CASE CreateSpace(s)
  <2>1. /\ Listed(poll.call) \subseteq Listed(poll.call)'
        /\ Reading("spaces", s) => s \in Listed(poll.call)'
    BY <1>1, <1>4, <1>5 DEF CreateSpace, Listed, Reading
  <2> QED
    BY <1>3, <1>5, <2>1, MadeInv DEF CreateSpace, Lists, Things
<1>6. CASE DeleteSpace(s)
  <2>1. \A y \in Listed(poll.call) :
          y \in Listed(poll.call)' \/ (Reading("spaces", s) /\ y = s)
    BY <1>1, <1>4, <1>6 DEF DeleteSpace, Listed, Reading
  <2>2. \A i \in Needing("spaces", s) : item[i] = "none"
    BY <1>6 DEF DeleteSpace, Needing
  <2> QED
    BY <1>3, <1>6, <2>1, <2>2, DeletedInv DEF DeleteSpace, Lists, Things
<1> QED
  BY <1>5, <1>6

LEMMA QuotaChanges ==
  ASSUME IInv, NEW q \in Quota, CreateQuota(q) \/ DeleteQuota(q)
  PROVE  IInv'
<1>1. UNCHANGED <<item, quotaOf, spaces>> /\ quotas' \subseteq Quota
  BY DEF CreateQuota, DeleteQuota, IInv, TypeOK
<1>2. Consistent'
  BY DEF CreateQuota, DeleteQuota, IInv, TypeOK, Consistent
<1>3. Kept({})
  BY <1>1, <1>2 DEF Kept, IInv, TypeOK
<1>4. poll'.call = poll.call /\ poll'.gauge = poll.gauge
  BY DEF CreateQuota, DeleteQuota, Made, Deleted, IInv, TypeOK, Poll
<1>5. CASE CreateQuota(q)
  <2>1. /\ Listed(poll.call) \subseteq Listed(poll.call)'
        /\ Reading("quotas", q) => q \in Listed(poll.call)'
    BY <1>1, <1>4, <1>5 DEF CreateQuota, Listed, Reading
  <2> QED
    BY <1>3, <1>5, <2>1, MadeInv DEF CreateQuota, Lists, Things
<1>6. CASE DeleteQuota(q)
  <2>1. \A y \in Listed(poll.call) :
          y \in Listed(poll.call)' \/ (Reading("quotas", q) /\ y = q)
    BY <1>1, <1>4, <1>6 DEF DeleteQuota, Listed, Reading
  <2>2. Needing("quotas", q) = {}
    BY <1>6, Constants DEF DeleteQuota, Needing
  <2> QED
    BY <1>3, <1>6, <2>1, <2>2, DeletedInv DEF DeleteQuota, Lists, Things
<1> QED
  BY <1>5, <1>6

LEMMA ItemChanges ==
  ASSUME IInv, NEW i \in Item,
         Delete(i) \/ \E state \in StatesOf(i) : Create(i, state) \/ Become(i, state)
  PROVE  IInv'
<1>1. PICK state \in StatesOf(i) \cup {"none"} :
        /\ item' = [item EXCEPT ![i] = state]
        /\ UNCHANGED <<spaces, quotaOf, quotas>>
        /\ \/ state = "none" /\ Delete(i)
           \/ state # "none" /\ Create(i, state)
           \/ state # "none" /\ Become(i, state)
  BY Constants DEF Delete, Create, Become
<1>2. item' \in [Item -> Tag \cup {"none"}]
  BY <1>1, Constants DEF IInv, TypeOK
<1>3. Consistent'
  <2>1. item[i] # "none" => SpaceOf[i] \in spaces
    BY DEF IInv, TypeOK, Consistent
  <2>2. state # "none" => SpaceOf[i] \in spaces
    BY <1>1, <2>1 DEF Create, Become
  <2> QED
    BY <1>1, <2>2 DEF IInv, TypeOK, Consistent
<1>4. Kept({i})
  BY <1>1, <1>2, <1>3 DEF Kept, IInv, TypeOK
<1>5. poll'.call = poll.call /\ poll'.gauge = poll.gauge
  BY <1>1 DEF Delete, Create, Become, Made, Deleted, IInv, TypeOK, Poll
<1>6. CASE state = "none" /\ Delete(i)
  <2>1. \A y \in Listed(poll.call) :
          y \in Listed(poll.call)' \/ (Reading("items", i) /\ y = i)
    BY <1>1, <1>5, Constants DEF Listed, Reading, IInv, TypeOK, Poll
  <2>2. \A j \in Needing("items", i) : j \in {i}
    BY DEF Needing
  <2> QED
    BY <1>4, <1>6, <2>1, <2>2, DeletedInv DEF Delete, Lists, Things
<1>7. CASE state # "none" /\ Create(i, state)
  <2>1. /\ Listed(poll.call) \subseteq Listed(poll.call)'
        /\ Reading("items", i) => i \in Listed(poll.call)'
    BY <1>1, <1>5, <1>7, Constants DEF Listed, Reading, IInv, TypeOK, Poll
  <2> QED
    BY <1>4, <1>7, <2>1, MadeInv DEF Create, Lists, Things
<1>8. CASE state # "none" /\ Become(i, state)
  <2>1. Listed(poll.call) \subseteq Listed(poll.call)'
    BY <1>1, <1>5, <1>8, Constants DEF Listed, IInv, TypeOK, Poll
  <2> QED
    BY <1>4, <1>8, <2>1, ChangedInv DEF Become
<1> QED
  BY <1>1, <1>6, <1>7, <1>8

\* A page: what the poll has read of the list it is at grows, and what is ahead of it
\* shrinks, by the same things.
\* A page is read: what the list has ahead shrinks by it, or the poll goes on.
LEMMA PageRead ==
  ASSUME IInv, NEW call \in Lists, NEW next \in {"spaces", "orgs", "quotas", "join"},
         NEW page \in SUBSET poll.ahead, NEW read \in Poll, Read(call, next, page, read),
         read.gauge = poll.gauge, read.ahead = poll.ahead, read.call = call,
         \A i \in Item \ Subject(poll.gauge) : read.items[i] = "none"
  PROVE  /\ TypeOK'
         /\ UNCHANGED <<item, spaces, quotaOf, quotas, steady>>
         /\ poll'.gauge = poll.gauge /\ poll'.items = read.items /\ poll'.spaces = read.spaces
         /\ poll'.orgs = read.orgs /\ poll'.quotas = read.quotas
         /\ \/ page = poll.ahead /\ poll'.call = next /\ poll'.ahead = Listed(next)
            \/ poll'.call = call /\ poll'.ahead = poll.ahead \ page
<1>1. UNCHANGED <<item, spaces, quotaOf, quotas, deleted, changes, exposed, up, steady>>
  BY DEF Read, cf, exporter
<1>2. Listed(next) \in SUBSET Things /\ poll.ahead \ page \in SUBSET Things
  BY ListedType DEF IInv, TypeOK, Poll, Things
<1>3. PICK c \in {call, next}, ahead \in SUBSET Things :
        /\ poll' = [read EXCEPT !.call = c, !.ahead = ahead]
        /\ \/ page = poll.ahead /\ c = next /\ ahead = Listed(next)
           \/ c = call /\ ahead = poll.ahead \ page
  <2>1. CASE page = poll.ahead
    BY <1>2, <2>1 DEF Read
  <2>2. CASE page # poll.ahead
    <3>1. poll' = [read EXCEPT !.ahead = poll.ahead \ page]
      BY <2>2 DEF Read
    <3>2. poll' = [read EXCEPT !.call = call, !.ahead = poll.ahead \ page]
      BY <3>1 DEF Poll
    <3> QED
      BY <1>2, <3>2
  <2> QED
    BY <2>1, <2>2
<1>4. /\ poll' \in Poll /\ poll'.call = c /\ poll'.ahead = ahead /\ c # "none"
      /\ poll'.gauge = poll.gauge /\ poll'.items = read.items /\ poll'.spaces = read.spaces
      /\ poll'.orgs = read.orgs /\ poll'.quotas = read.quotas
  BY <1>3 DEF Poll, Things, Lists
<1>5. ahead \subseteq Listed(c)
  BY <1>3 DEF IInv, TypeOK, Read
<1>6. Listed(poll.call)' = Listed(c)
  BY <1>1, <1>4 DEF Listed
<1>7. Consistent'
  BY <1>1 DEF IInv, TypeOK, Consistent
<1>8. TypeOK'
  BY <1>1, <1>4, <1>5, <1>6, <1>7 DEF IInv, TypeOK
<1> QED
  BY <1>1, <1>3, <1>4, <1>8

LEMMA ItemsInv == ASSUME IInv, ListsItems PROVE IInv'
<1> DEFINE items(page) == [i \in Item |-> IF i \in page THEN item[i] ELSE poll.items[i]]
<1>1. PICK page \in SUBSET poll.ahead :
        Read("items", "spaces", page, [poll EXCEPT !.items = items(page)])
  BY DEF ListsItems
<1>2. poll.call = "items" /\ poll.ahead \subseteq Subject(poll.gauge)
  BY <1>1 DEF Read, Listed, IInv, TypeOK
<1>3. items(page) \in [Item -> Tag \cup {"none"}]
  BY DEF IInv, TypeOK, Poll
<1>4. \A i \in Item : items(page)[i] = IF i \in page THEN item[i] ELSE poll.items[i]
  OBVIOUS
<1>5. \A i \in Item \ Subject(poll.gauge) : items(page)[i] = "none"
  BY <1>2, <1>4 DEF IInv, TypeOK
<1> HIDE DEF items
<1> DEFINE read == [poll EXCEPT !.items = items(page)]
<1>6. /\ read \in Poll /\ read.gauge = poll.gauge /\ read.ahead = poll.ahead
      /\ read.call = "items" /\ read.items = items(page) /\ read.spaces = poll.spaces
      /\ read.orgs = poll.orgs /\ read.quotas = poll.quotas
  BY <1>2, <1>3 DEF IInv, TypeOK, Poll
<1>7. Read("items", "spaces", page, read)
  BY <1>1
<1> HIDE DEF read
<1>8. /\ TypeOK' /\ UNCHANGED <<item, spaces, quotaOf, quotas, steady>>
      /\ poll'.gauge = poll.gauge /\ poll'.items = items(page) /\ poll'.spaces = poll.spaces
      /\ \/ page = poll.ahead /\ poll'.call = "spaces" /\ poll'.ahead = spaces
         \/ poll'.call = "items" /\ poll'.ahead = poll.ahead \ page
  BY <1>5, <1>6, <1>7, PageRead DEF Lists, Listed
<1>9. ASSUME NEW i \in steady, i \in Subject(poll.gauge) PROVE Tracked(i)'
  <2>1. Tracked(i) /\ i \in Item
    BY <1>2, <1>9 DEF IInv, Tracking, TypeOK
  <2>2. item[i] # "none" => SpaceOf[i] \in spaces
    BY <2>1 DEF IInv, TypeOK, Consistent
  <2> QED
    BY <1>2, <1>4, <1>8, <2>1, <2>2 DEF Tracked
<1> QED
  BY <1>8, <1>9 DEF IInv, Tracking

LEMMA SpacesInv == ASSUME IInv, ListsSpaces PROVE IInv'
<1>1. PICK page \in SUBSET poll.ahead :
        Read("spaces", "orgs", page, [poll EXCEPT !.spaces = @ \cup page])
  BY DEF ListsSpaces
<1>2. poll.call = "spaces" /\ poll.ahead \subseteq spaces
  BY <1>1 DEF Read, Listed, IInv, TypeOK
<1> DEFINE read == [poll EXCEPT !.spaces = @ \cup page]
<1>3. /\ read \in Poll /\ read.gauge = poll.gauge /\ read.ahead = poll.ahead
      /\ read.call = "spaces" /\ read.items = poll.items /\ read.spaces = poll.spaces \cup page
      /\ read.orgs = poll.orgs /\ read.quotas = poll.quotas
  BY <1>2 DEF IInv, TypeOK, Poll
<1>4. Read("spaces", "orgs", page, read)
  BY <1>1
<1>5. \A i \in Item \ Subject(poll.gauge) : read.items[i] = "none"
  BY <1>3 DEF IInv, TypeOK
<1> HIDE DEF read
<1>6. Listed("orgs") = {o \in Org : quotaOf[o] # "none"}
  BY DEF Listed
<1>7. /\ TypeOK' /\ UNCHANGED <<item, spaces, quotaOf, quotas, steady>>
      /\ poll'.gauge = poll.gauge /\ poll'.items = poll.items
      /\ poll'.spaces = poll.spaces \cup page
      /\ \/ /\ page = poll.ahead /\ poll'.call = "orgs"
            /\ poll'.ahead = {o \in Org : quotaOf[o] # "none"}
         \/ poll'.call = "spaces" /\ poll'.ahead = poll.ahead \ page
  BY <1>3, <1>4, <1>5, <1>6, PageRead DEF Lists
<1>8. ASSUME NEW i \in steady, i \in Subject(poll.gauge) PROVE Tracked(i)'
  <2>1. Tracked(i) /\ i \in Item
    BY <1>2, <1>8 DEF IInv, Tracking, TypeOK
  <2>2. item[i] # "none" => quotaOf[OrgOfItem(i)] # "none" /\ OrgOfItem(i) \in Org
    BY <2>1, Constants DEF IInv, TypeOK, Consistent, OrgOfItem
  <2>3. OrgOfItem(i)' = OrgOfItem(i)
    BY DEF OrgOfItem
  <2> QED
    BY <1>2, <1>7, <2>1, <2>2, <2>3 DEF Tracked
<1> QED
  BY <1>7, <1>8 DEF IInv, Tracking

LEMMA OrgsInv == ASSUME IInv, ListsOrgs PROVE IInv'
<1> DEFINE orgs(page) == [o \in Org |-> IF o \in page THEN quotaOf[o] ELSE poll.orgs[o]]
<1>1. PICK page \in SUBSET poll.ahead :
        Read("orgs", "quotas", page, [poll EXCEPT !.orgs = orgs(page)])
  BY DEF ListsOrgs
<1>2. poll.call = "orgs"
  BY <1>1 DEF Read
<1>3. orgs(page) \in [Org -> Quota \cup {"none"}]
  BY DEF IInv, TypeOK, Poll
<1>4. \A o \in Org : orgs(page)[o] = IF o \in page THEN quotaOf[o] ELSE poll.orgs[o]
  OBVIOUS
<1> HIDE DEF orgs
<1> DEFINE read == [poll EXCEPT !.orgs = orgs(page)]
<1>5. /\ read \in Poll /\ read.gauge = poll.gauge /\ read.ahead = poll.ahead
      /\ read.call = "orgs" /\ read.items = poll.items /\ read.spaces = poll.spaces
      /\ read.orgs = orgs(page) /\ read.quotas = poll.quotas
  BY <1>2, <1>3 DEF IInv, TypeOK, Poll
<1>6. Read("orgs", "quotas", page, read)
  BY <1>1
<1>7. \A i \in Item \ Subject(poll.gauge) : read.items[i] = "none"
  BY <1>5 DEF IInv, TypeOK
<1> HIDE DEF read
<1>8. /\ TypeOK' /\ UNCHANGED <<item, spaces, quotaOf, quotas, steady>>
      /\ poll'.gauge = poll.gauge /\ poll'.items = poll.items /\ poll'.spaces = poll.spaces
      /\ poll'.orgs = orgs(page)
      /\ \/ page = poll.ahead /\ poll'.call = "quotas" /\ poll'.ahead = quotas
         \/ poll'.call = "orgs" /\ poll'.ahead = poll.ahead \ page
  BY <1>5, <1>6, <1>7, PageRead DEF Lists, Listed
<1>9. ASSUME NEW i \in steady, i \in Subject(poll.gauge) PROVE Tracked(i)'
  <2>1. Tracked(i) /\ i \in Item
    BY <1>2, <1>9 DEF IInv, Tracking, TypeOK
  <2>2. item[i] # "none" => quotaOf[OrgOfItem(i)] \in quotas
    BY <2>1, Constants DEF IInv, TypeOK, Consistent, OrgOfItem
  <2>3. OrgOfItem(i)' = OrgOfItem(i) /\ OrgOfItem(i) \in Org
    BY <2>1, Constants DEF OrgOfItem
  <2> QED
    BY <1>2, <1>4, <1>8, <2>1, <2>2, <2>3 DEF Tracked
<1> QED
  BY <1>8, <1>9 DEF IInv, Tracking

LEMMA QuotasInv == ASSUME IInv, ListsQuotas PROVE IInv'
<1>1. PICK page \in SUBSET poll.ahead :
        Read("quotas", "join", page, [poll EXCEPT !.quotas = @ \cup page])
  BY DEF ListsQuotas
<1>2. poll.call = "quotas" /\ poll.ahead \subseteq quotas
  BY <1>1 DEF Read, Listed, IInv, TypeOK
<1> DEFINE read == [poll EXCEPT !.quotas = @ \cup page]
<1>3. /\ read \in Poll /\ read.gauge = poll.gauge /\ read.ahead = poll.ahead
      /\ read.call = "quotas" /\ read.items = poll.items /\ read.spaces = poll.spaces
      /\ read.orgs = poll.orgs /\ read.quotas = poll.quotas \cup page
  BY <1>2 DEF IInv, TypeOK, Poll
<1>4. Read("quotas", "join", page, read)
  BY <1>1
<1>5. \A i \in Item \ Subject(poll.gauge) : read.items[i] = "none"
  BY <1>3 DEF IInv, TypeOK
<1> HIDE DEF read
<1>6. /\ TypeOK' /\ UNCHANGED <<item, spaces, quotaOf, quotas, steady>>
      /\ poll'.gauge = poll.gauge /\ poll'.items = poll.items /\ poll'.spaces = poll.spaces
      /\ poll'.orgs = poll.orgs /\ poll'.quotas = poll.quotas \cup page
      /\ \/ page = poll.ahead /\ poll'.call = "join"
         \/ poll'.call = "quotas" /\ poll'.ahead = poll.ahead \ page
  BY <1>3, <1>4, <1>5, PageRead DEF Lists
<1>7. ASSUME NEW i \in steady, i \in Subject(poll.gauge) PROVE Tracked(i)'
  <2>1. Tracked(i)
    BY <1>2, <1>7 DEF IInv, Tracking
  <2>2. OrgOfItem(i)' = OrgOfItem(i)
    BY DEF OrgOfItem
  <2> QED
    BY <1>2, <1>6, <2>1, <2>2 DEF Tracked
<1> QED
  BY <1>6, <1>7 DEF IInv, Tracking

LEMMA BeginsInv == ASSUME IInv, NEW g \in Gauge, Begins(g) PROVE IInv'
<1> DEFINE there == {i \in Subject(g) : item[i] # "none"}
<1>1. /\ poll' = [NotPolling EXCEPT !.gauge = g, !.call = "items", !.ahead = there]
      /\ UNCHANGED <<item, spaces, quotaOf, quotas, deleted, changes, exposed, up, steady>>
  BY DEF Begins, cf, exporter
<1>2. there \in SUBSET Item
  BY Constants
<1>3. /\ poll' \in Poll /\ poll'.gauge = g /\ poll'.call = "items" /\ poll'.ahead = there
      /\ poll'.items = NotPolling.items
  <2> HIDE DEF there
  <2> QED
    BY <1>1, <1>2, NotPollingType DEF Poll
<1>4. \A i \in Item : poll'.items[i] = "none"
  BY <1>3, NotPollingType
<1>5. Consistent' /\ poll'.ahead \subseteq Listed(poll.call)'
  BY <1>1, <1>3 DEF IInv, TypeOK, Consistent, Listed
<1>6. TypeOK'
  BY <1>1, <1>3, <1>4, <1>5 DEF IInv, TypeOK
<1>7. ASSUME NEW i \in steady, i \in Subject(g) PROVE Tracked(i)'
  <2>1. i \in Item
    BY DEF IInv, TypeOK
  <2> QED
    BY <1>1, <1>3, <1>4, <1>7, <2>1 DEF Tracked
<1> QED
  BY <1>1, <1>3, <1>6, <1>7 DEF IInv, Tracking

LEMMA NextInv == IInv /\ [Next]_vars => IInv'
<1> SUFFICES ASSUME IInv, [Next]_vars PROVE IInv'
  OBVIOUS
<1>1. CASE Changes
  BY <1>1, OrgChanges, SpaceChanges, QuotaChanges, ItemChanges DEF Changes
<1>2. CASE \E g \in Gauge : Begins(g)
  BY <1>2, BeginsInv
<1>3. CASE ListsItems \/ ListsSpaces \/ ListsOrgs \/ ListsQuotas
  BY <1>3, ItemsInv, SpacesInv, OrgsInv, QuotasInv
<1>4. ASSUME CallFails \/ Joins \/ Dies \/ Restarts PROVE IInv'
  <2>1. CASE CallFails
    BY <2>1, EndsInv DEF CallFails, exporter, IInv, TypeOK
  <2>2. CASE Joins
    <3>1. exposed' \in [Label -> Nat]
      BY <2>2, CountType DEF Joins, WriteMetrics, IInv, TypeOK
    <3> QED
      BY <2>2, <3>1, EndsInv DEF Joins, IInv, TypeOK
  <2>3. CASE Dies \/ Restarts
    <3>1. exposed' = [l \in Label |-> 0] /\ up' \in BOOLEAN
      BY <2>3 DEF Dies, Restarts
    <3>2. exposed' \in [Label -> Nat]
      BY <3>1
    <3> QED
      BY <2>3, <3>1, <3>2, EndsInv DEF Dies, Restarts
  <2> QED
    BY <1>4, <2>1, <2>2, <2>3
<1>5. CASE UNCHANGED vars
  BY <1>5 DEF vars, cf, exporter, IInv, TypeOK, Consistent, Listed, Tracking, Tracked
<1> QED
  BY <1>1, <1>2, <1>3, <1>4, <1>5 DEF Next, Polls

LEMMA Invariance == Spec => []IInv
BY InitInv, NextInv, PTL DEF Spec

\* The types, and that Cloud Foundry stays consistent.
THEOREM TypeCorrect == Spec => []TypeOK
<1>1. IInv => TypeOK
  BY DEF IInv
<1> QED
  BY <1>1, Invariance, PTL

\* When the lists are joined an item that has not changed is under its label.
LEMMA SteadyItems ==
  ASSUME IInv, poll.call = "join", NEW l \in Label
  PROVE  LET counted == {i \in Found : LabelOf(i) = l}
         IN  SteadyOf(l) \subseteq counted /\ counted \subseteq SteadyOf(l) \cup UnsteadyOf(poll.gauge)
<1>0. l[1] \in Tag /\ l[2] \in BOOLEAN /\ l = <<l[1], l[2]>> /\ "none" \notin Tag
  BY Constants DEF Label
<1>1. ASSUME NEW i \in Item, i \in steady, i \in Subject(poll.gauge)
      PROVE  i \in SteadyOf(l) <=> i \in Found /\ LabelOf(i) = l
  <2>1. Tracked(i)
    BY <1>1 DEF IInv, Tracking
  <2>2. item[i] # "none" => quotaOf[OrgOfItem(i)] # "none"
    BY CloudFoundryAssumption DEF IInv, TypeOK, Consistent, OrgOfItem
  <2>3. i \in Found <=> item[i] # "none"
    BY <2>1, <2>2 DEF Tracked, Found, Placed
  <2>4. i \in Found => LabelOf(i) = <<item[i], quotaOf[OrgOfItem(i)] = "default">>
    BY <2>1, <2>3 DEF Tracked, LabelOf
  <2>5. i \in SteadyOf(l) <=> /\ item[i] = l[1]
                              /\ (quotaOf[OrgOfItem(i)] = "default") = l[2]
    BY <1>1 DEF SteadyOf, Belongs
  <2>6. <<item[i], quotaOf[OrgOfItem(i)] = "default">> = l
          <=> /\ item[i] = l[1] /\ (quotaOf[OrgOfItem(i)] = "default") = l[2]
    BY <1>0
  <2> QED
    BY <1>0, <2>3, <2>4, <2>5, <2>6
<1>2. \A i \in Found : i \in Item /\ i \in Subject(poll.gauge)
  BY DEF Found, Placed, IInv, TypeOK
<1>3. SteadyOf(l) \subseteq steady /\ steady \subseteq Item
      /\ \A i \in SteadyOf(l) : i \in Subject(poll.gauge)
  BY DEF SteadyOf, IInv, TypeOK
<1> QED
  BY <1>1, <1>2, <1>3 DEF UnsteadyOf

\* However Cloud Foundry changes while it is being listed page by page, what has not
\* changed, and was not moved to a page read before, is counted once and under its label.
THEOREM CountsCorrect == Spec => CountsSteady
<1>1. ASSUME IInv, Joins, NEW l \in Label
      PROVE  /\ exposed'[l] >= Cardinality(SteadyOf(l))
             /\ \/ exposed'[l] = exposed[l]
                \/ exposed'[l] <= Cardinality(SteadyOf(l)) + Cardinality(UnsteadyOf(poll.gauge))
  <2> DEFINE counted == {i \in Found : LabelOf(i) = l}
             S == SteadyOf(l)
             U == UnsteadyOf(poll.gauge)
  <2>1. S \subseteq counted /\ counted \subseteq S \cup U
    BY <1>1, SteadyItems DEF Joins
  <2>2. S \subseteq Item /\ U \subseteq Item /\ counted \subseteq Item
    BY <1>1, Constants DEF SteadyOf, UnsteadyOf, Found, Placed, IInv, TypeOK, Poll
  <2>3. IsFiniteSet(S) /\ IsFiniteSet(U) /\ IsFiniteSet(counted)
    BY <2>2, Constants, FS_Subset
  <2>4. /\ Cardinality(S) \in Nat /\ Cardinality(U) \in Nat /\ Cardinality(counted) \in Nat
        /\ Cardinality(S \cap U) \in Nat
    <3>1. IsFiniteSet(S \cap U)
      BY <2>3, FS_Subset
    <3> QED
      BY <2>3, <3>1, FS_CardinalityType
  <2>5. Cardinality(S) <= Cardinality(counted)
    BY <2>1, <2>3, FS_Subset
  <2>6. Cardinality(counted) <= Cardinality(S) + Cardinality(U)
    <3>1. /\ IsFiniteSet(S \cup U)
          /\ Cardinality(S \cup U) = Cardinality(S) + Cardinality(U) - Cardinality(S \cap U)
      BY <2>3, FS_Union
    <3>2. Cardinality(counted) <= Cardinality(S \cup U)
      BY <2>1, <3>1, FS_Subset
    <3> QED
      BY <2>4, <3>1, <3>2
  <2>7. exposed'[l] = IF Cardinality(counted) > 0 THEN Cardinality(counted) ELSE exposed[l]
    BY <1>1 DEF Joins, WriteMetrics, Count
  <2>8. exposed[l] \in Nat
    BY <1>1 DEF IInv, TypeOK
  <2> QED
    BY <2>4, <2>5, <2>6, <2>7, <2>8
<1>2. IInv /\ [Next]_vars =>
        [Joins => \A l \in Label :
           /\ exposed'[l] >= Cardinality(SteadyOf(l))
           /\ \/ exposed'[l] = exposed[l]
              \/ exposed'[l] <= Cardinality(SteadyOf(l)) + Cardinality(UnsteadyOf(poll.gauge))]_vars
  BY <1>1
<1> QED
  BY <1>2, Invariance, PTL DEF Spec, CountsSteady

\* The app panics only over a service instance that changed, whose org's quota changed,
\* or with which, or with whose space, org or quota, a deletion moved to a page read before.
THEOREM PanicsOnlyOnChange == Spec => DiesOnlyOnChange
<1>1. ASSUME IInv, Dies PROVE \E i \in Placed \ Found : i \notin steady
  <2>1. PICK i \in Placed : i \notin Found
    BY <1>1 DEF Dies, Panics, Found
  <2>2. i \in Item /\ poll.items[i] # "none" /\ poll.call = "join"
    BY <1>1 DEF Dies, Placed
  <2>3. i \in Subject(poll.gauge)
    BY <1>1, <2>2 DEF IInv, TypeOK
  <2>4. i \in steady => i \in Found
    BY <1>1, <2>1, <2>2, <2>3 DEF IInv, Tracking, Tracked, Found
  <2> QED
    BY <2>1, <2>4
<1>2. IInv /\ [Next]_vars => [Dies => \E i \in Placed \ Found : i \notin steady]_vars
  BY <1>1
<1> QED
  BY <1>2, Invariance, PTL DEF Spec, DiesOnlyOnChange
==============================================================================
