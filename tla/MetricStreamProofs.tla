--------------------------- MODULE MetricStreamProofs ---------------------------
(***************************************************************************)
(* The stream of the metrics app, for any number of pollers, any buffers   *)
(* and whoever closes which of them when: it merges what the pollers write, *)
(* and loses nothing on the way to the main loop.                          *)
(***************************************************************************)
EXTENDS MetricStream, FiniteSetTheorems, TLAPS

Event == Poller \X (1..MaxPolled)

\* The types, with the domains of the functions.
TypeInv ==
    /\ TypeOK
    /\ Events \in [Buffer -> Seq(Event)]
    /\ written \in [Poller -> Nat]
    /\ holds \in [Poller -> Seq(Event)]
    /\ got \in [Poller -> Seq(Nat)]

\* The channel s carries the numbers of p from the one after lo up to hi, each once and
\* in order, and whatever else of other pollers.
Carries(s, p, lo, hi) ==
    /\ lo <= hi
    /\ \A i \in 1..Len(s) : s[i][1] = p => s[i][2] \in (lo + 1)..hi
    /\ \A i, j \in 1..Len(s) : i < j /\ s[i][1] = p /\ s[j][1] = p => s[i][2] < s[j][2]
    /\ \A n \in (lo + 1)..hi : \E i \in 1..Len(s) : s[i] = <<p, n>>

\* The number of the last event that was taken out of p's buffer, and of the last one
\* that was put in the combined buffer.
Taken(p) == written[p] - Len(Events[p])
Copied(p) == Taken(p) - Len(holds[p])

\* The events of p are, from the oldest to the newest, read by the main loop, in the
\* combined buffer, in the hands of the goroutine that copies, and in p's buffer.
InOrder(p) ==
    /\ Carries(Events[Multi], p, Len(got[p]), Copied(p))
    /\ holds[p] # <<>> => holds[p][1] = <<p, Taken(p)>>
    /\ \A i \in 1..Len(Events[p]) : Events[p][i] = <<p, Taken(p) + i>>

\* A write that panics loses what it was about to write.
StreamInv ==
    /\ TypeInv
    /\ ~panicked => \A p \in Poller : InOrder(p)

-------------------------------------------------------------------------------
(* What a channel carries.                                                  *)

\* An empty sequence carries nothing of anybody.
LEMMA CarriesNothing == \A p : Carries(<<>>, p, 0, 0)
  BY DEF Carries

\* The next number of p.
LEMMA CarriesAppend ==
  ASSUME NEW s \in Seq(Event), NEW p \in Poller, NEW lo \in Nat, NEW hi \in Nat,
         hi + 1 \in 1..MaxPolled, Carries(s, p, lo, hi)
  PROVE  Carries(Append(s, <<p, hi + 1>>), p, lo, hi + 1)
  <1> DEFINE t == Append(s, <<p, hi + 1>>)
  <1>1. /\ Len(s) \in Nat /\ Len(t) = Len(s) + 1 /\ t[Len(s) + 1] = <<p, hi + 1>>
        /\ \A i \in 1..Len(s) : t[i] = s[i]
    BY DEF Event
  <1>2. \A i \in 1..Len(t) : i \in 1..Len(s) \/ i = Len(s) + 1
    BY <1>1
  <1> HIDE DEF t
  <1>3. lo <= hi + 1
    BY DEF Carries
  <1>4. \A i \in 1..Len(t) : t[i][1] = p => t[i][2] \in (lo + 1)..(hi + 1)
    BY <1>1, <1>2 DEF Carries
  <1>5. ASSUME NEW i \in 1..Len(t), NEW j \in 1..Len(t), i < j, t[i][1] = p, t[j][1] = p
        PROVE  t[i][2] < t[j][2]
    <2>1. i \in 1..Len(s) /\ t[i] = s[i]
      BY <1>1, <1>2, <1>5
    <2>2. CASE j \in 1..Len(s)
      BY <1>1, <1>5, <2>1, <2>2 DEF Carries
    <2>3. CASE j = Len(s) + 1
      BY <1>1, <1>5, <2>1, <2>3 DEF Carries
    <2> QED BY <1>2, <2>2, <2>3
  <1>6. ASSUME NEW n \in (lo + 1)..(hi + 1)
        PROVE  \E i \in 1..Len(t) : t[i] = <<p, n>>
    <2>1. CASE n = hi + 1
      BY <1>1, <2>1
    <2>2. CASE n # hi + 1
      <3>1. n \in (lo + 1)..hi
        BY <2>2
      <3>2. PICK i \in 1..Len(s) : s[i] = <<p, n>>
        BY <3>1 DEF Carries
      <3> QED BY <1>1, <3>2
    <2> QED BY <2>1, <2>2
  <1> QED BY <1>3, <1>4, <1>5, <1>6 DEF Carries, t

\* An event of somebody else.
LEMMA CarriesAppendOther ==
  ASSUME NEW s \in Seq(Event), NEW e \in Event, NEW p, NEW lo \in Nat, NEW hi \in Nat,
         e[1] # p, Carries(s, p, lo, hi)
  PROVE  Carries(Append(s, e), p, lo, hi)
  <1> DEFINE t == Append(s, e)
  <1>1. /\ Len(s) \in Nat /\ Len(t) = Len(s) + 1 /\ t[Len(s) + 1] = e
        /\ \A i \in 1..Len(s) : t[i] = s[i]
    OBVIOUS
  <1>2. \A i \in 1..Len(t) : t[i][1] = p => i \in 1..Len(s) /\ t[i] = s[i]
    BY <1>1
  <1>3. 1..Len(s) \subseteq 1..Len(t)
    BY <1>1
  <1> HIDE DEF t
  <1> QED BY <1>1, <1>2, <1>3 DEF Carries, t

\* The places of the tail.
LEMMA TailPlaces ==
  ASSUME NEW s \in Seq(Event), s # <<>>
  PROVE  /\ Tail(s) \in Seq(Event) /\ Len(s) \in Nat \ {0} /\ Len(Tail(s)) = Len(s) - 1
         /\ Head(s) = s[1] /\ s[1] \in Event
         /\ \A i \in 1..Len(Tail(s)) : i + 1 \in 1..Len(s) /\ Tail(s)[i] = s[i + 1]
         /\ \A i \in 2..Len(s) : i - 1 \in 1..Len(Tail(s)) /\ Tail(s)[i - 1] = s[i]
  OBVIOUS

\* The first event of p is the next one in order.
LEMMA CarriesTail ==
  ASSUME NEW s \in Seq(Event), NEW p, NEW lo \in Nat, NEW hi \in Nat,
         s # <<>>, Head(s)[1] = p, Carries(s, p, lo, hi)
  PROVE  /\ Head(s)[2] = lo + 1 /\ lo + 1 <= hi
         /\ Carries(Tail(s), p, lo + 1, hi)
  <1> DEFINE t == Tail(s)
  <1>1. /\ t \in Seq(Event) /\ Len(s) \in Nat \ {0} /\ Len(t) = Len(s) - 1
        /\ Head(s) = s[1] /\ s[1] \in Event
        /\ \A i \in 1..Len(t) : i + 1 \in 1..Len(s) /\ t[i] = s[i + 1]
        /\ \A i \in 2..Len(s) : i - 1 \in 1..Len(t) /\ t[i - 1] = s[i]
    BY TailPlaces
  <1>2. \A i \in 1..Len(s) : s[i] \in Event
    OBVIOUS
  <1> HIDE DEF t
  <1>3. s[1][2] \in (lo + 1)..hi /\ s[1][2] \in Nat
    BY <1>1 DEF Carries, Event
  <1>4. PICK k \in 1..Len(s) : s[k] = <<p, lo + 1>>
    <2>1. lo + 1 \in (lo + 1)..hi
      BY <1>3
    <2> QED BY <2>1 DEF Carries
  <1>5. k = 1
    <2>1. ASSUME k # 1 PROVE FALSE
      <3>1. s[1][2] < s[k][2]
        BY <1>1, <1>4, <2>1 DEF Carries
      <3> QED BY <1>3, <1>4, <3>1
    <2> QED BY <2>1
  <1>6. Head(s)[2] = lo + 1 /\ lo + 1 <= hi
    BY <1>1, <1>3, <1>4, <1>5
  <1>7. ASSUME NEW i \in 1..Len(t), t[i][1] = p PROVE t[i][2] \in (lo + 2)..hi
    <2>1. i + 1 \in 1..Len(s) /\ 1 < i + 1 /\ t[i] = s[i + 1] /\ 1 \in 1..Len(s)
      BY <1>1
    <2>2. s[1][2] < t[i][2] /\ t[i][2] \in (lo + 1)..hi
      BY <1>1, <1>7, <2>1 DEF Carries
    <2> QED BY <1>1, <1>6, <2>2
  <1>8. ASSUME NEW i \in 1..Len(t), NEW j \in 1..Len(t), i < j, t[i][1] = p, t[j][1] = p
        PROVE  t[i][2] < t[j][2]
    <2>1. i + 1 \in 1..Len(s) /\ t[i] = s[i + 1]
      BY <1>1
    <2>2. j + 1 \in 1..Len(s) /\ t[j] = s[j + 1]
      BY <1>1
    <2>3. i + 1 < j + 1
      BY <1>1, <1>8
    <2> QED BY <1>8, <2>1, <2>2, <2>3 DEF Carries
  <1>9. ASSUME NEW n \in (lo + 2)..hi PROVE \E i \in 1..Len(t) : t[i] = <<p, n>>
    <2>1. n \in (lo + 1)..hi /\ n # lo + 1
      OBVIOUS
    <2>2. PICK i \in 1..Len(s) : s[i] = <<p, n>>
      BY <2>1 DEF Carries
    <2>3. i # 1
      BY <1>1, <1>6, <2>1, <2>2
    <2>4. i \in 2..Len(s)
      BY <1>1, <2>3
    <2> QED BY <1>1, <2>2, <2>4
  <1>10. (lo + 1) + 1 = lo + 2
    OBVIOUS
  <1> QED BY <1>6, <1>7, <1>8, <1>9, <1>10 DEF Carries, t

\* The first event is somebody else's.
LEMMA CarriesTailOther ==
  ASSUME NEW s \in Seq(Event), NEW p, NEW lo \in Nat, NEW hi \in Nat,
         s # <<>>, Head(s)[1] # p, Carries(s, p, lo, hi)
  PROVE  Carries(Tail(s), p, lo, hi)
  <1> DEFINE t == Tail(s)
  <1>1. /\ t \in Seq(Event) /\ Len(s) \in Nat \ {0} /\ Len(t) = Len(s) - 1
        /\ Head(s) = s[1] /\ s[1] \in Event
        /\ \A i \in 1..Len(t) : i + 1 \in 1..Len(s) /\ t[i] = s[i + 1]
        /\ \A i \in 2..Len(s) : i - 1 \in 1..Len(t) /\ t[i - 1] = s[i]
    BY TailPlaces
  <1> HIDE DEF t
  <1>2. \A i \in 1..Len(t) : t[i][1] = p => t[i][2] \in (lo + 1)..hi
    BY <1>1 DEF Carries
  <1>3. ASSUME NEW i \in 1..Len(t), NEW j \in 1..Len(t), i < j, t[i][1] = p, t[j][1] = p
        PROVE  t[i][2] < t[j][2]
    <2>1. i + 1 \in 1..Len(s) /\ t[i] = s[i + 1]
      BY <1>1
    <2>2. j + 1 \in 1..Len(s) /\ t[j] = s[j + 1]
      BY <1>1
    <2>3. i + 1 < j + 1
      BY <1>1, <1>3
    <2> QED BY <1>3, <2>1, <2>2, <2>3 DEF Carries
  <1>4. ASSUME NEW n \in (lo + 1)..hi PROVE \E i \in 1..Len(t) : t[i] = <<p, n>>
    <2>1. PICK i \in 1..Len(s) : s[i] = <<p, n>>
      BY DEF Carries
    <2>2. i # 1
      BY <1>1, <2>1
    <2>3. i \in 2..Len(s)
      BY <2>2
    <2> QED BY <1>1, <2>1, <2>3
  <1>5. lo <= hi
    BY DEF Carries
  <1> QED BY <1>2, <1>3, <1>4, <1>5 DEF Carries, t

\* A channel has room for what it carries: each number takes a place of its own.
LEMMA CarriesLength ==
  ASSUME NEW s \in Seq(Event), NEW p, NEW lo \in Nat, NEW hi \in Nat, Carries(s, p, lo, hi)
  PROVE  hi - lo <= Len(s)
  <1> DEFINE Place == [n \in (lo + 1)..hi |-> CHOOSE i \in 1..Len(s) : s[i] = <<p, n>>]
  <1>1. \A n \in (lo + 1)..hi : Place[n] \in 1..Len(s) /\ s[Place[n]] = <<p, n>>
    BY DEF Carries
  <1>2. Place \in [(lo + 1)..hi -> 1..Len(s)]
    BY <1>1
  <1>3. \A m, n \in (lo + 1)..hi : Place[m] = Place[n] => m = n
    <2> SUFFICES ASSUME NEW m \in (lo + 1)..hi, NEW n \in (lo + 1)..hi, Place[m] = Place[n]
                 PROVE  m = n
      OBVIOUS
    <2>1. <<p, m>> = <<p, n>>
      BY <1>1
    <2> QED BY <2>1
  <1>4. Place \in Injection((lo + 1)..hi, 1..Len(s))
    BY <1>2, <1>3 DEF Injection, IsInjective
  <1> HIDE DEF Place
  <1>5. Len(s) \in Nat /\ lo <= hi
    BY DEF Carries
  <1>6. Cardinality(1..Len(s)) = Len(s) /\ IsFiniteSet(1..Len(s))
    <2>1. 1 \in Int /\ Len(s) \in Int
      BY <1>5
    <2>2. Cardinality(1..Len(s)) = IF 1 > Len(s) THEN 0 ELSE Len(s) - 1 + 1
      BY <2>1, FS_Interval
    <2>3. IsFiniteSet(1..Len(s))
      BY <2>1, FS_Interval
    <2> QED BY <1>5, <2>2, <2>3
  <1>7. Cardinality((lo + 1)..hi) = hi - lo
    <2>1. lo + 1 \in Int /\ hi \in Int
      OBVIOUS
    <2>2. Cardinality((lo + 1)..hi) = IF lo + 1 > hi THEN 0 ELSE hi - (lo + 1) + 1
      BY <2>1, FS_Interval
    <2> QED BY <1>5, <2>2
  <1>8. Cardinality((lo + 1)..hi) <= Cardinality(1..Len(s))
    BY <1>4, <1>6, FS_Injection
  <1> QED BY <1>6, <1>7, <1>8

-------------------------------------------------------------------------------
(* Types.                                                                   *)

\* The capacities of the buffers are numbers.
LEMMA Sizes ==
  /\ NumPollers \in Nat \ {0} /\ BufferSize \in Nat \ {0}
  /\ MaxBatch \in Nat \ {0} /\ MaxPolled \in Nat \ {0}
  /\ Multi \in Buffer /\ Multi \notin Poller /\ Poller \subseteq Buffer
  /\ \A b \in Buffer : Capacity(b) \in Nat \ {0}
  /\ \A b \in Buffer : b # Multi => b \in Poller
  BY StreamAssumption DEF Multi, Buffer, Poller, Capacity

\* The types, one conjunct for each fact.
LEMMA TypeMeans ==
  TypeInv <=>
    /\ Events \in [Buffer -> Seq(Event)] /\ \A b \in Buffer : Len(Events[b]) <= Capacity(b)
    /\ closed \subseteq cancelled /\ cancelled \subseteq Buffer
    /\ poller \in [Poller -> {"looping", "polling", "gone"}]
    /\ polled \in [Poller -> 0..MaxPolled]
    /\ written \in [Poller -> Nat] /\ \A p \in Poller : written[p] <= polled[p]
    /\ holds \in [Poller -> Seq(Event)] /\ \A p \in Poller : Len(holds[p]) <= 1
    /\ got \in [Poller -> Seq(Nat)]
    /\ eos \in BOOLEAN /\ panicked \in BOOLEAN
  BY Sizes DEF TypeInv, TypeOK, Event

\* The channels start empty.
LEMMA TypeInit == Init => TypeInv
  <1> SUFFICES ASSUME Init PROVE TypeInv
    OBVIOUS
  <1>1. \A b \in Buffer : Len(Events[b]) <= Capacity(b)
    BY Sizes DEF Init
  <1>2. \A p \in Poller : written[p] <= polled[p] /\ Len(holds[p]) <= 1
    BY DEF Init
  <1>3. polled \in [Poller -> 0..MaxPolled]
    BY Sizes DEF Init
  <1>4. /\ Events \in [Buffer -> Seq(Event)] /\ written \in [Poller -> Nat]
        /\ holds \in [Poller -> Seq(Event)] /\ got \in [Poller -> Seq(Nat)]
        /\ poller \in [Poller -> {"looping", "polling", "gone"}]
    BY DEF Init
  <1>5. /\ closed \subseteq cancelled /\ cancelled \subseteq Buffer
        /\ eos \in BOOLEAN /\ panicked \in BOOLEAN
    BY DEF Init
  <1> QED BY <1>1, <1>2, <1>3, <1>4, <1>5, TypeMeans

\* A send puts one more event in the channel, unless it is closed.
LEMMA SendType ==
  ASSUME TypeInv, NEW b \in Buffer, NEW e \in Event, Send(b, e)
  PROVE  /\ Events' \in [Buffer -> Seq(Event)]
         /\ \A c \in Buffer : Len(Events'[c]) <= Capacity(c)
         /\ panicked' \in BOOLEAN
  <1>1. CASE b \in closed
    BY <1>1, TypeMeans DEF Send
  <1>2. CASE b \notin closed
    <2>1. Events' = [Events EXCEPT ![b] = Append(@, e)] /\ Len(Events[b]) < Capacity(b)
          /\ panicked' = panicked
      BY <1>2 DEF Send
    <2>2. Events[b] \in Seq(Event) /\ Capacity(b) \in Nat
      BY Sizes, TypeMeans
    <2>3. Append(Events[b], e) \in Seq(Event) /\ Len(Append(Events[b], e)) <= Capacity(b)
      BY <2>1, <2>2
    <2> QED BY <2>1, <2>3, TypeMeans
  <1> QED BY <1>1, <1>2

\* A channel that is received from keeps its type, whether it is open or drained.
LEMMA ReceiveType ==
  ASSUME TypeInv, NEW b \in Buffer, Receive(b)
  PROVE  /\ Events' \in [Buffer -> Seq(Event)]
         /\ \A c \in Buffer : Len(Events'[c]) <= Capacity(c)
         /\ Head(Events[b]) \in Event
  <1>1. Events[b] \in Seq(Event) /\ Events[b] # <<>> /\ Len(Events[b]) <= Capacity(b)
        /\ Capacity(b) \in Nat
    BY Sizes, TypeMeans DEF Receive
  <1>2. Tail(Events[b]) \in Seq(Event) /\ Len(Tail(Events[b])) <= Capacity(b)
        /\ Head(Events[b]) \in Event
    BY <1>1, TailPlaces
  <1> QED BY <1>1, <1>2, TypeMeans DEF Receive

\* Every action of a poller, a copying goroutine, the main loop or a caller of Close.
LEMMA TypeStep == TypeInv /\ [Next]_vars => TypeInv'
  <1> SUFFICES ASSUME TypeInv, [Next]_vars PROVE TypeInv'
    OBVIOUS
  <1> DEFINE Types ==
               /\ Events \in [Buffer -> Seq(Event)]
               /\ \A b \in Buffer : Len(Events[b]) <= Capacity(b)
               /\ closed \subseteq cancelled /\ cancelled \subseteq Buffer
               /\ poller \in [Poller -> {"looping", "polling", "gone"}]
               /\ polled \in [Poller -> 0..MaxPolled]
               /\ written \in [Poller -> Nat] /\ \A p \in Poller : written[p] <= polled[p]
               /\ holds \in [Poller -> Seq(Event)] /\ \A p \in Poller : Len(holds[p]) <= 1
               /\ got \in [Poller -> Seq(Nat)]
               /\ eos \in BOOLEAN /\ panicked \in BOOLEAN
  <1>a. Types
    BY TypeMeans
  <1> SUFFICES Types'
    <2>1. TypeInv' <=> Types'
      BY TypeMeans, PTL
    <2> QED BY <2>1
  <1> USE DEF channels, pollers, main
  <1>1. ASSUME NEW p \in Poller, PollerStops(p) PROVE Types'
    BY <1>a, <1>1 DEF PollerStops
  <1>2. ASSUME NEW p \in Poller, Polls(p) PROVE Types'
    <2>1. PICK n \in 0..MaxBatch : polled[p] + n <= MaxPolled
                                   /\ polled' = [polled EXCEPT ![p] = @ + n]
      BY <1>2 DEF Polls
    <2>2. n \in Nat
      BY Sizes
    <2>3. polled' \in [Poller -> 0..MaxPolled] /\ \A q \in Poller : polled[q] <= polled'[q]
      BY <1>a, <2>1, <2>2, Sizes
    <2>4. \A q \in Poller : written[q] <= polled'[q]
      BY <1>a, <2>3, Sizes
    <2> QED BY <1>a, <1>2, <2>3, <2>4 DEF Polls
  <1>3. ASSUME NEW p \in Poller, PollerWrites(p) PROVE Types'
    <2>1. written[p] < polled[p] /\ Send(p, <<p, written[p] + 1>>)
          /\ written' = [written EXCEPT ![p] = @ + (IF p \in closed THEN 0 ELSE 1)]
          /\ UNCHANGED <<cancelled, closed, poller, polled, holds, got, eos>>
      BY <1>3 DEF PollerWrites
    <2>2. <<p, written[p] + 1>> \in Event
      BY <1>a, <2>1, Sizes DEF Event
    <2>3. written' \in [Poller -> Nat] /\ \A q \in Poller : written'[q] <= polled[q]
      BY <1>a, <2>1, Sizes
    <2>4. p \in Buffer
      BY Sizes
    <2> QED BY <1>a, <2>1, <2>2, <2>3, <2>4, SendType
  <1>4. ASSUME NEW p \in Poller, PollerSleeps(p) PROVE Types'
    BY <1>a, <1>4 DEF PollerSleeps
  <1>5. ASSUME NEW b \in Buffer, Close(b) PROVE Types'
    BY <1>a, <1>5 DEF Close
  <1>6. ASSUME NEW b \in Buffer, ClosesChannel(b) PROVE Types'
    BY <1>a, <1>6 DEF ClosesChannel
  <1>7. ASSUME NEW p \in Poller, CopierReads(p) PROVE Types'
    <2>1. Receive(p) /\ holds' = [holds EXCEPT ![p] = <<Head(Events[p])>>]
          /\ UNCHANGED <<cancelled, closed, poller, polled, written, got, eos, panicked>>
      BY <1>7 DEF CopierReads
    <2>2. p \in Buffer
      BY Sizes
    <2>3. <<Head(Events[p])>> \in Seq(Event) /\ Len(<<Head(Events[p])>>) <= 1
      BY <2>1, <2>2, ReceiveType
    <2>4. holds' \in [Poller -> Seq(Event)] /\ \A q \in Poller : Len(holds'[q]) <= 1
      BY <1>a, <2>1, <2>3
    <2> QED BY <1>a, <2>1, <2>2, <2>4, ReceiveType
  <1>8. ASSUME NEW p \in Poller, CopierWrites(p) PROVE Types'
    <2>1. Send(Multi, holds[p][1]) /\ holds[p] # <<>> /\ holds' = [holds EXCEPT ![p] = <<>>]
          /\ UNCHANGED <<cancelled, closed, poller, polled, written, got, eos>>
      BY <1>8 DEF CopierWrites
    <2>2. holds[p][1] \in Event
      BY <1>a, <2>1
    <2>3. holds' \in [Poller -> Seq(Event)] /\ \A q \in Poller : Len(holds'[q]) <= 1
      BY <1>a, <2>1
    <2> QED BY <1>a, <2>1, <2>2, <2>3, Sizes, SendType
  <1>9. ASSUME NEW p \in Poller, CopierEnds(p) PROVE Types'
    BY <1>a, <1>9, Sizes DEF CopierEnds
  <1>10. CASE MainReads
    <2>1. Receive(Multi) /\ UNCHANGED <<cancelled, closed, poller, polled, written, holds, eos, panicked>>
      BY <1>10 DEF MainReads
    <2>2. Head(Events[Multi]) \in Event
      BY <2>1, Sizes, ReceiveType
    <2>3. got' \in [Poller -> Seq(Nat)]
      BY <1>a, <1>10, <2>2 DEF MainReads, Event
    <2> QED BY <1>a, <2>1, <2>3, Sizes, ReceiveType
  <1>11. CASE MainEnds
    BY <1>a, <1>11 DEF MainEnds
  <1>12. CASE UNCHANGED vars
    BY <1>a, <1>12 DEF vars
  <1>13. ASSUME NEW p \in Poller, ClosesReader(p) PROVE Types'
    BY <1>5, <1>13, Sizes DEF ClosesReader
  <1> HIDE DEF Types
  <1> QED BY <1>1, <1>2, <1>3, <1>4, <1>5, <1>6, <1>7, <1>8, <1>9, <1>10, <1>11, <1>12, <1>13
          DEF Next, Copier, Main

\* Every reachable state is well typed: no channel holds more than its capacity
\* and only a buffer that was told to close has its channel closed.
THEOREM TypeCorrect == Spec => []TypeOK
  <1>1. TypeInv => TypeOK
    BY DEF TypeInv
  <1> QED BY <1>1, TypeInit, TypeStep, PTL DEF Spec

-------------------------------------------------------------------------------
(* Nothing is lost on the way.                                              *)

\* The numbers that InOrder compares.
LEMMA CountsType ==
  ASSUME TypeInv, NEW p \in Poller
  PROVE  /\ Events[p] \in Seq(Event) /\ Len(Events[p]) \in Nat /\ Len(Events[p]) <= BufferSize
         /\ Events[Multi] \in Seq(Event) /\ Len(Events[Multi]) \in Nat
         /\ Len(Events[Multi]) <= NumPollers
         /\ holds[p] \in Seq(Event) /\ Len(holds[p]) \in {0, 1}
         /\ holds[p] # <<>> => Len(holds[p]) = 1
         /\ got[p] \in Seq(Nat) /\ Len(got[p]) \in Nat /\ written[p] \in Nat
         /\ Taken(p) \in Int /\ Copied(p) \in Int
  <1>1. Events[p] \in Seq(Event) /\ Len(Events[p]) <= Capacity(p) /\ Capacity(p) = BufferSize
    BY Sizes, TypeMeans DEF Capacity
  <1>2. Events[Multi] \in Seq(Event) /\ Len(Events[Multi]) <= Capacity(Multi)
        /\ Capacity(Multi) = NumPollers
    BY Sizes, TypeMeans DEF Capacity
  <1>3. holds[p] \in Seq(Event) /\ Len(holds[p]) <= 1 /\ got[p] \in Seq(Nat) /\ written[p] \in Nat
    BY TypeMeans
  <1>4. Len(holds[p]) \in {0, 1} /\ (holds[p] # <<>> => Len(holds[p]) = 1)
    <2>1. ASSUME NEW h \in Seq(Event), Len(h) <= 1
          PROVE  Len(h) \in {0, 1} /\ (h # <<>> => Len(h) = 1)
      <3>1. Len(h) \in Nat
        OBVIOUS
      <3>2. Len(h) = 0 \/ Len(h) = 1
        BY <2>1, <3>1
      <3>3. h # <<>> => Len(h) # 0
        OBVIOUS
      <3> QED BY <3>2, <3>3
    <2> QED BY <1>3, <2>1
  <1>5. Len(Events[p]) \in Nat /\ Len(Events[Multi]) \in Nat /\ Len(got[p]) \in Nat
    BY <1>1, <1>2, <1>3
  <1>6. Taken(p) \in Int /\ Copied(p) \in Int
    BY <1>3, <1>4, <1>5 DEF Taken, Copied
  <1> QED BY <1>1, <1>2, <1>3, <1>4, <1>5, <1>6

\* A stream that carries something carries it up to a number.
LEMMA CopiedIsNat ==
  ASSUME TypeInv, NEW p \in Poller, InOrder(p)
  PROVE  /\ Len(got[p]) <= Copied(p) /\ Copied(p) \in Nat /\ Taken(p) \in Nat
         /\ Copied(p) <= written[p]
         /\ Copied(p) - Len(got[p]) <= Len(Events[Multi])
  <1>1. Len(got[p]) <= Copied(p)
    BY DEF InOrder, Carries
  <1>2. Copied(p) \in Nat /\ Taken(p) \in Nat /\ Copied(p) <= written[p]
    BY <1>1, CountsType DEF Copied, Taken
  <1>3. Copied(p) - Len(got[p]) <= Len(Events[Multi])
    BY <1>2, CountsType, CarriesLength DEF InOrder
  <1> QED BY <1>1, <1>2, <1>3

\* What concerns p concerns its own part of the state only.
LEMMA OrderKept ==
  ASSUME NEW p \in Poller, InOrder(p),
         Events'[p] = Events[p], Events'[Multi] = Events[Multi],
         written'[p] = written[p], holds'[p] = holds[p], got'[p] = got[p]
  PROVE  InOrder(p)'
  BY DEF InOrder, Taken, Copied

\* An event moves from one place to the next, and is first in it in turn.
LEMMA StreamStep == StreamInv /\ [Next]_vars => StreamInv'
  <1> SUFFICES ASSUME StreamInv, [Next]_vars, ~panicked', NEW q \in Poller
               PROVE  InOrder(q)'
    BY TypeStep DEF StreamInv
  <1>a. TypeInv /\ TypeInv'
    BY TypeStep DEF StreamInv
  <1>b. ~panicked
    <2>1. CASE UNCHANGED vars
      BY <2>1 DEF vars
    <2>2. CASE Next
      BY <2>2 DEF Next
    <2> QED BY <2>1, <2>2
  <1>c. InOrder(q)
    BY <1>b DEF StreamInv
  <1> USE DEF channels, pollers, main
  <1>d. ASSUME UNCHANGED <<Events, written, holds, got>> PROVE InOrder(q)'
    BY <1>c, <1>d, OrderKept
  <1>e. Events \in [Buffer -> Seq(Event)] /\ written \in [Poller -> Nat]
        /\ holds \in [Poller -> Seq(Event)] /\ got \in [Poller -> Seq(Nat)]
    BY <1>a, TypeMeans
  <1>1. ASSUME NEW p \in Poller, PollerStops(p) \/ Polls(p) \/ PollerSleeps(p)
        PROVE  InOrder(q)'
    BY <1>1, <1>d DEF PollerStops, Polls, PollerSleeps
  <1>2. ASSUME NEW p \in Poller, PollerWrites(p) PROVE InOrder(q)'
    <2>1. p \notin closed
      BY <1>2 DEF PollerWrites, Send
    <2>2. Events' = [Events EXCEPT ![p] = Append(@, <<p, written[p] + 1>>)]
          /\ written' = [written EXCEPT ![p] = @ + 1] /\ UNCHANGED <<holds, got>>
      BY <1>2, <2>1 DEF PollerWrites, Send
    <2>3. CASE p # q
      BY <1>c, <1>e, <2>2, <2>3, Sizes, OrderKept
    <2>4. CASE p = q
      <3>1. Events'[q] = Append(Events[q], <<q, written[q] + 1>>) /\ written'[q] = written[q] + 1
            /\ Events'[Multi] = Events[Multi]
        BY <1>e, <2>2, <2>4, Sizes
      <3>2. Len(Events'[q]) = Len(Events[q]) + 1
            /\ Events'[q][Len(Events[q]) + 1] = <<q, written[q] + 1>>
            /\ \A i \in 1..Len(Events[q]) : Events'[q][i] = Events[q][i]
        <4>1. <<q, written[q] + 1>> \in Poller \X Nat /\ Events[q] \in Seq(Event)
          BY <1>a, CountsType
        <4> QED BY <3>1, <4>1
      <3>3. Taken(q)' = Taken(q) /\ Copied(q)' = Copied(q)
        BY <1>a, <2>2, <3>1, <3>2, CountsType DEF Taken, Copied
      <3>4. Taken(q) + (Len(Events[q]) + 1) = written[q] + 1
        BY <1>a, CountsType DEF Taken
      <3>5. ASSUME NEW i \in 1..Len(Events'[q]) PROVE Events'[q][i] = <<q, Taken(q) + i>>
        <4>1. i \in 1..Len(Events[q]) \/ i = Len(Events[q]) + 1
          BY <1>a, <3>2, CountsType
        <4> QED BY <1>c, <3>2, <3>4, <4>1 DEF InOrder
      <3> QED BY <1>c, <2>2, <3>1, <3>3, <3>5 DEF InOrder
    <2> QED BY <2>3, <2>4
  <1>3. ASSUME NEW b \in Buffer, Close(b) \/ ClosesChannel(b) PROVE InOrder(q)'
    BY <1>3, <1>d DEF Close, ClosesChannel
  <1>4. ASSUME NEW p \in Poller, ClosesReader(p) PROVE InOrder(q)'
    BY <1>3, <1>4, Sizes DEF ClosesReader
  <1>5. ASSUME NEW p \in Poller, CopierReads(p) PROVE InOrder(q)'
    <2>1. Events[p] # <<>> /\ Events' = [Events EXCEPT ![p] = Tail(@)] /\ holds[p] = <<>>
          /\ holds' = [holds EXCEPT ![p] = <<Head(Events[p])>>] /\ UNCHANGED <<written, got>>
      BY <1>5 DEF CopierReads, Receive
    <2>2. CASE p # q
      BY <1>c, <1>e, <2>1, <2>2, Sizes, OrderKept
    <2>3. CASE p = q
      <3>1. Events'[q] = Tail(Events[q]) /\ holds'[q] = <<Head(Events[q])>>
            /\ Events'[Multi] = Events[Multi] /\ holds[q] = <<>> /\ Events[q] # <<>>
        BY <1>e, <2>1, <2>3, Sizes
      <3>2. Len(Events[q]) \in Nat \ {0} /\ Len(Events'[q]) = Len(Events[q]) - 1
            /\ Head(Events[q]) = Events[q][1]
            /\ \A i \in 1..Len(Events'[q]) : i + 1 \in 1..Len(Events[q])
                                             /\ Events'[q][i] = Events[q][i + 1]
        BY <1>a, <3>1, CountsType, TailPlaces
      <3>3. Taken(q)' = Taken(q) + 1
        <4>1. written'[q] = written[q] /\ written[q] \in Nat
          BY <1>a, <2>1, CountsType
        <4> QED BY <3>2, <4>1 DEF Taken
      <3>4. Copied(q)' = Copied(q)
        BY <1>a, <3>1, <3>3, CountsType DEF Copied
      <3>5. holds'[q][1] = <<q, Taken(q) + 1>>
        BY <1>c, <3>1, <3>2 DEF InOrder
      <3>6. ASSUME NEW i \in 1..Len(Events'[q]) PROVE Events'[q][i] = <<q, (Taken(q) + 1) + i>>
        <4>1. Events'[q][i] = <<q, Taken(q) + (i + 1)>>
          BY <1>c, <3>2 DEF InOrder
        <4>2. Taken(q) + (i + 1) = (Taken(q) + 1) + i
          BY <1>a, <3>2, CountsType
        <4> QED BY <4>1, <4>2
      <3> QED BY <1>c, <2>1, <3>1, <3>3, <3>4, <3>5, <3>6 DEF InOrder
    <2> QED BY <2>2, <2>3
  <1>6. ASSUME NEW p \in Poller, CopierWrites(p) PROVE InOrder(q)'
    <2>1. Multi \notin closed
      BY <1>6 DEF CopierWrites, Send
    <2>2. holds[p] # <<>> /\ Events' = [Events EXCEPT ![Multi] = Append(@, holds[p][1])]
          /\ holds' = [holds EXCEPT ![p] = <<>>] /\ UNCHANGED <<written, got>>
      BY <1>6, <2>1 DEF CopierWrites, Send
    <2>3. Events'[Multi] = Append(Events[Multi], holds[p][1]) /\ Events'[q] = Events[q]
      BY <1>e, <2>2, Sizes
    <2>4. InOrder(p) /\ holds[p][1] = <<p, Taken(p)>> /\ holds[p][1] \in Event
      <3>1. InOrder(p)
        BY <1>b DEF StreamInv
      <3> QED BY <1>a, <2>2, <3>1, CountsType DEF InOrder
    <2>5. Taken(q)' = Taken(q)
      BY <2>2, <2>3 DEF Taken
    <2>6. CASE p # q
      <3>1. holds'[q] = holds[q] /\ Copied(q)' = Copied(q)
        BY <1>e, <2>2, <2>5, <2>6 DEF Copied
      <3>2. Carries(Events'[Multi], q, Len(got[q]), Copied(q))
        <4>1. holds[p][1][1] # q
          BY <2>4, <2>6
        <4>2. Copied(q) \in Nat
          BY <1>a, <1>c, CopiedIsNat
        <4> QED BY <1>a, <1>c, <2>3, <2>4, <4>1, <4>2, CountsType, CarriesAppendOther DEF InOrder
      <3> QED BY <1>c, <2>2, <2>3, <2>5, <3>1, <3>2 DEF InOrder
    <2>7. CASE p = q
      <3>1. holds'[q] = <<>> /\ Copied(q)' = Copied(q) + 1 /\ Copied(q) + 1 = Taken(q)
        <4>1. holds'[q] = <<>> /\ Len(holds[q]) = 1
          BY <1>a, <1>e, <2>2, <2>7, CountsType
        <4> QED BY <1>a, <2>5, <4>1, CountsType DEF Copied
      <3>2. Copied(q) \in Nat /\ Copied(q) + 1 \in 1..MaxPolled
        <4>1. Taken(q) \in 1..MaxPolled
          BY <2>4, <2>7 DEF Event
        <4> QED BY <1>a, <1>c, <3>1, <4>1, CopiedIsNat
      <3>3. Carries(Append(Events[Multi], <<q, Copied(q) + 1>>), q, Len(got[q]), Copied(q) + 1)
        BY <1>a, <1>c, <3>2, CountsType, CarriesAppend DEF InOrder
      <3>4. Carries(Events'[Multi], q, Len(got[q]), Copied(q)')
        BY <2>3, <2>4, <2>7, <3>1, <3>3
      <3> QED BY <1>c, <2>2, <2>3, <2>5, <3>1, <3>4 DEF InOrder
    <2> QED BY <2>6, <2>7
  <1>7. ASSUME NEW p \in Poller, CopierEnds(p) PROVE InOrder(q)'
    BY <1>7, <1>d DEF CopierEnds
  <1>8. CASE MainReads
    <2> DEFINE e == Head(Events[Multi])
    <2>1. Events[Multi] # <<>> /\ Events' = [Events EXCEPT ![Multi] = Tail(@)]
          /\ got' = [got EXCEPT ![e[1]] = Append(@, e[2])] /\ UNCHANGED <<written, holds>>
      BY <1>8 DEF MainReads, Receive
    <2>2. Events'[Multi] = Tail(Events[Multi]) /\ Events'[q] = Events[q]
      BY <1>e, <2>1, Sizes
    <2>3. Taken(q)' = Taken(q) /\ Copied(q)' = Copied(q) /\ Copied(q) \in Nat
      BY <1>a, <1>c, <2>1, <2>2, CopiedIsNat DEF Taken, Copied
    <2>4. e \in Event
      BY <1>a, <2>1, CountsType, TailPlaces
    <2>5. CASE e[1] = q
      <3>1. Carries(Tail(Events[Multi]), q, Len(got[q]) + 1, Copied(q))
        BY <1>a, <1>c, <2>1, <2>3, <2>5, CountsType, CarriesTail DEF InOrder
      <3>2. Len(got'[q]) = Len(got[q]) + 1
        <4>1. got'[q] = Append(got[q], e[2])
          BY <1>e, <2>1, <2>5
        <4>2. e[2] \in Nat
          BY <2>4 DEF Event
        <4> HIDE DEF e
        <4> QED BY <1>e, <4>1, <4>2
      <3> QED BY <1>c, <2>1, <2>2, <2>3, <3>1, <3>2 DEF InOrder
    <2>6. CASE e[1] # q
      <3>1. Carries(Tail(Events[Multi]), q, Len(got[q]), Copied(q))
        BY <1>a, <1>c, <2>1, <2>3, <2>6, CountsType, CarriesTailOther DEF InOrder
      <3>2. got'[q] = got[q]
        BY <1>e, <2>1, <2>6
      <3> QED BY <1>c, <2>1, <2>2, <2>3, <3>1, <3>2 DEF InOrder
    <2> QED BY <2>5, <2>6
  <1>9. CASE MainEnds
    BY <1>9, <1>d DEF MainEnds
  <1>10. CASE UNCHANGED vars
    BY <1>10, <1>d DEF vars
  <1> QED BY <1>1, <1>2, <1>3, <1>4, <1>5, <1>6, <1>7, <1>8, <1>9, <1>10 DEF Next, Copier, Main

\* Nothing has been written.
LEMMA StreamInit == Init => StreamInv
  <1> SUFFICES ASSUME Init, NEW p \in Poller PROVE InOrder(p)
    BY TypeInit DEF StreamInv
  <1>1. /\ Events[Multi] = <<>> /\ Events[p] = <<>> /\ holds[p] = <<>> /\ got[p] = <<>>
        /\ written[p] = 0
    BY Sizes DEF Init
  <1>2. Len(got[p]) = 0 /\ Len(Events[p]) = 0 /\ Len(holds[p]) = 0
    BY <1>1
  <1>3. Taken(p) = 0
    <2>1. written[p] = 0
      BY <1>1
    <2> QED BY <1>2, <2>1 DEF Taken
  <1>4. Copied(p) = 0
    BY <1>2, <1>3 DEF Copied
  <1> QED BY <1>1, <1>2, <1>3, <1>4, CarriesNothing DEF InOrder

\* Every step writes one event, reads the next one, or is no step of the stream.
LEMMA StepOfStream == StreamInv /\ [Next]_vars => [Merged!Next]_<<written, got>>
  <1> SUFFICES ASSUME StreamInv, [Next]_vars PROVE [Merged!Next]_<<written, got>>
    OBVIOUS
  <1> USE DEF channels, pollers, main
  <1>a. TypeInv
    BY DEF StreamInv
  <1>b. ASSUME ~panicked, NEW p \in Poller PROVE InOrder(p)
    BY <1>b DEF StreamInv
  <1>1. ASSUME NEW p \in Poller,
               PollerStops(p) \/ Polls(p) \/ PollerSleeps(p) \/ ClosesReader(p) \/ Copier(p)
        PROVE  UNCHANGED <<written, got>>
    BY <1>1 DEF PollerStops, Polls, PollerSleeps, ClosesReader, Close, Copier, CopierReads,
                CopierWrites, CopierEnds
  <1>2. ASSUME NEW b \in Buffer, Close(b) \/ ClosesChannel(b)
        PROVE  UNCHANGED <<written, got>>
    BY <1>2 DEF Close, ClosesChannel
  <1>3. CASE MainEnds \/ UNCHANGED vars
    BY <1>3 DEF MainEnds, vars
  <1>4. ASSUME NEW p \in Poller, ~panicked, PollerWrites(p)
        PROVE  [Merged!Next]_<<written, got>>
    <2>1. CASE p \in closed
      <3>1. written' = [written EXCEPT ![p] = @ + 0] /\ got' = got
        BY <1>4, <2>1 DEF PollerWrites
      <3>2. written' = written
        BY <1>a, <3>1, TypeMeans
      <3> QED BY <3>1, <3>2
    <2>2. CASE p \notin closed
      <3>1. written' = [written EXCEPT ![p] = @ + 1] /\ got' = got
            /\ Len(Events[p]) < Capacity(p)
        BY <1>4, <2>2 DEF PollerWrites, Send
      <3>2. Capacity(p) = BufferSize
        BY Sizes DEF Capacity
      <3>3. /\ Copied(p) - Len(got[p]) <= Len(Events[Multi])
            /\ Len(Events[Multi]) \in Nat /\ Len(Events[Multi]) <= NumPollers
        <4>1. InOrder(p)
          BY <1>b, <1>4
        <4> QED BY <1>a, <4>1, CountsType, CopiedIsNat
      <3>4. /\ Len(Events[p]) \in Nat /\ Len(got[p]) \in Nat /\ written[p] \in Nat
            /\ Len(holds[p]) = 0 \/ Len(holds[p]) = 1
        BY <1>a, CountsType
      <3>5. Copied(p) = written[p] - Len(Events[p]) - Len(holds[p])
        BY DEF Copied, Taken
      <3>6. written[p] - Len(got[p]) < BufferSize + 1 + NumPollers
        <4>1. NumPollers \in Nat /\ BufferSize \in Nat
          BY Sizes
        <4>2. Len(Events[p]) < BufferSize
          BY <3>1, <3>2
        <4>3. ASSUME NEW w \in Nat, NEW g \in Nat, NEW b \in Nat, NEW h \in Nat, NEW c \in Int,
                     NEW m \in Nat, c = w - b - h, c - g <= m, m <= NumPollers,
                     b < BufferSize, h <= 1
              PROVE  w - g < BufferSize + 1 + NumPollers
          BY <4>1, <4>3
        <4>4. Len(holds[p]) \in Nat /\ Len(holds[p]) <= 1 /\ Copied(p) \in Int
          <5>1. Copied(p) \in Int
            BY <1>a, CountsType
          <5>2. ASSUME NEW n, n = 0 \/ n = 1 PROVE n \in Nat /\ n <= 1
            BY <5>2
          <5> QED BY <3>4, <5>1, <5>2
        <4> QED BY <3>3, <3>4, <3>5, <4>2, <4>3, <4>4
      <3> QED BY <3>1, <3>6 DEF Merged!Next, Merged!Write
    <2> QED BY <2>1, <2>2
  <1>5. ASSUME ~panicked, MainReads PROVE [Merged!Next]_<<written, got>>
    <2> DEFINE e == Head(Events[Multi])
               q == e[1]
    <2>1. Events[Multi] # <<>> /\ got' = [got EXCEPT ![q] = Append(@, e[2])] /\ written' = written
      BY <1>5 DEF MainReads, Receive
    <2>2. Events[Multi] \in Seq(Event) /\ e \in Event
      <3>1. Events[Multi] \in Seq(Event)
        BY <1>a, Sizes, TypeMeans
      <3> QED BY <2>1, <3>1, TailPlaces
    <2>3. q \in Poller
      BY <2>2 DEF Event
    <2>4. e[2] = Len(got[q]) + 1 /\ Len(got[q]) + 1 <= Copied(q)
      <3>1. InOrder(q) /\ Copied(q) \in Nat /\ Len(got[q]) \in Nat
        BY <1>a, <1>b, <1>5, <2>3, CountsType, CopiedIsNat
      <3>2. Carries(Events[Multi], q, Len(got[q]), Copied(q))
        BY <3>1 DEF InOrder
      <3> QED BY <2>1, <2>2, <3>1, <3>2, CarriesTail
    <2>5. Len(got[q]) < written[q]
      BY <1>a, <1>b, <1>5, <2>3, <2>4, CountsType, CopiedIsNat
    <2> HIDE DEF e, q
    <2> QED BY <2>1, <2>3, <2>4, <2>5 DEF Merged!Next, Merged!Read
  <1> QED BY <1>1, <1>2, <1>3, <1>4, <1>5 DEF Next, Main

\* The combined reader gives the main loop what every poller wrote, in order, nothing
\* lost, repeated or made up, and at most the buffers and a goroutine's hand behind
\* (MergedStream), for any number of pollers and sizes of the buffers.
THEOREM StreamIsKept == Spec => KeepsStream
  <1>1. Init => Merged!Init
    BY DEF Init, Merged!Init
  <1> QED BY <1>1, StreamInit, StreamStep, StepOfStream, PTL DEF Spec, KeepsStream, Merged!Spec

=================================================================================
