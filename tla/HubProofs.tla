----------------------------- MODULE HubProofs -----------------------------
(***************************************************************************)
(* Both hubs, for any numbers of everything.                               *)
(*                                                                         *)
(* TopicHub: what a stream yields is in order, what it misses was          *)
(* overwritten, what a full queue gives up is its oldest, and nothing      *)
(* waits for a stream that is there.                                       *)
(*                                                                         *)
(* MessagingHub: nobody connected has a queue, no message disappears, and  *)
(* a stream yields in the order of sending but for the replay race.  The   *)
(* inductive invariant is HubTypes, NobodyConnectedWaits, Lines and        *)
(* Accounted.                                                              *)
(***************************************************************************)
EXTENDS MessagingHub, TopicHub, FiniteSetTheorems, WellFoundedInduction, TLAPS

-----------------------------------------------------------------------------
(* Sequences.                                                              *)

(* Adding a larger number at the end, taking the first away.               *)
LEMMA AppendIncreasing ==
    ASSUME NEW seq \in Seq(Nat), Increasing(seq), NEW m \in Nat,
           \A i \in DOMAIN seq : seq[i] < m
    PROVE  Increasing(Append(seq, m))
BY DEF Increasing

LEMMA TailIncreasing ==
    ASSUME NEW seq \in Seq(Nat), seq # <<>>, Increasing(seq)
    PROVE  /\ Increasing(Tail(seq))
           /\ \A i \in DOMAIN Tail(seq) : Head(seq) < Tail(seq)[i]
BY DEF Increasing

LEMMA AppendFacts ==
    ASSUME NEW S, NEW seq \in Seq(S), NEW m \in S
    PROVE  /\ Append(seq, m) \in Seq(S) /\ Len(Append(seq, m)) = Len(seq) + 1
           /\ \A i \in 1..Len(seq) : Append(seq, m)[i] = seq[i]
           /\ Append(seq, m)[Len(seq) + 1] = m
           /\ DOMAIN Append(seq, m) = 1..Len(seq) + 1
OBVIOUS

LEMMA TailFacts ==
    ASSUME NEW S, NEW seq \in Seq(S), seq # <<>>
    PROVE  /\ Tail(seq) \in Seq(S) /\ Len(Tail(seq)) = Len(seq) - 1 /\ Len(seq) > 0
           /\ DOMAIN Tail(seq) = 1..Len(seq) - 1
           /\ \A i \in 1..Len(seq) - 1 : Tail(seq)[i] = seq[i + 1]
           /\ Head(seq) = seq[1] /\ Head(seq) \in S
OBVIOUS

LEMMA ElementsIn ==
    ASSUME NEW S, NEW seq \in Seq(S)
    PROVE  Range(seq) \subseteq S /\ \A i \in DOMAIN seq : seq[i] \in S
BY DEF Range

LEMMA SeqWider ==
    ASSUME NEW S, NEW T, S \subseteq T, NEW seq \in Seq(S)
    PROVE  seq \in Seq(T)
OBVIOUS

(* What one more at the end of a stream's output means.                    *)
LEMMA OneMore ==
    ASSUME NEW k \in Nat, NEW seq \in Seq(1..k), NEW m \in 1..k
    PROVE  /\ Append(seq, m) \in Seq(1..k) /\ Append(seq, m) \in Seq(Nat)
           /\ Range(seq) \cup {m} \subseteq Range(Append(seq, m))
           /\ \A i \in DOMAIN Append(seq, m) :
                 (i \in DOMAIN seq /\ Append(seq, m)[i] = seq[i]) \/ Append(seq, m)[i] = m
<1> DEFINE more == Append(seq, m)
<1>1. /\ more \in Seq(1..k) /\ \A i \in 1..Len(seq) : more[i] = seq[i]
      /\ more[Len(seq) + 1] = m /\ DOMAIN more = 1..Len(seq) + 1
      /\ DOMAIN seq = 1..Len(seq) /\ Len(seq) \in Nat
  BY AppendFacts
<1>2. more \in Seq(Nat)
  <2>1. 1..k \subseteq Nat
    OBVIOUS
  <2> QED BY <1>1, <2>1, SeqWider
<1> HIDE DEF more
<1>3. Range(seq) \cup {m} \subseteq Range(more)
  BY <1>1 DEF Range
<1>4. \A i \in DOMAIN more : (i \in DOMAIN seq /\ more[i] = seq[i]) \/ more[i] = m
  BY <1>1
<1> QED BY <1>1, <1>2, <1>3, <1>4 DEF more

-----------------------------------------------------------------------------
(* One topic.                                                              *)

(* The messages the hub has passed on: all that were published, but for    *)
(* the one a publisher is about to send.                                   *)
Known == IF sending = 0 THEN published ELSE published - 1

(* Why a stream's output is in order: what it still has to yield comes     *)
(* after what it has yielded, and of that the backlog before the channel.  *)
StreamOrder(s) ==
    /\ Increasing(yielded[s]) /\ Increasing(backlog[s])
    /\ \A i \in DOMAIN yielded[s], j \in DOMAIN backlog[s] : yielded[s][i] < backlog[s][j]
    /\ \A i \in DOMAIN yielded[s], j \in next[s] + 1..Len(ring) : yielded[s][i] < ring[j]
    /\ \A i \in DOMAIN backlog[s], j \in next[s] + 1..Len(ring) : backlog[s][i] < ring[j]
    /\ state[s] = "new" => yielded[s] = <<>>

StreamType(s) ==
    /\ first[s] \in 0..Len(ring) /\ next[s] \in first[s]..Len(ring)
    /\ backlog[s] \in Seq(1..Known) /\ yielded[s] \in Seq(1..Known)

Types ==
    /\ published \in 0..MaxPublished
    /\ sending \in {0, published}
    /\ queued \in Seq(1..Known) /\ Len(queued) <= QueueCapacity
    /\ ring \in Seq(1..Known)
    /\ state \in [Streams -> {"new", "open", "closed"}]
    /\ first \in [Streams -> Nat] /\ next \in [Streams -> Nat]
    /\ backlog \in [Streams -> Seq(Nat)] /\ yielded \in [Streams -> Seq(Nat)]
    /\ displaced \cup vanished \subseteq 1..published
    /\ \A s \in Streams : StreamType(s)

Order ==
    /\ Increasing(queued) /\ Increasing(ring)
    /\ \A s \in Streams : StreamOrder(s)

IInv ==
    /\ Types
    /\ Order
    /\ NobodySubscribedWaits
    /\ MissesOnlyOverwritten
    /\ DisplacesOldest

LEMMA InitIInv == TopicInit => IInv
<1> SUFFICES ASSUME TopicInit PROVE IInv
  OBVIOUS
<1>1. Types
  BY TopicAssumption DEF TopicInit, Types, StreamType, Known
<1>2. Order
  BY DEF TopicInit, Order, StreamOrder, Increasing
<1>3. NobodySubscribedWaits /\ DisplacesOldest
  BY DEF TopicInit, NobodySubscribedWaits, DisplacesOldest
<1>4. MissesOnlyOverwritten
  BY DEF TopicInit, MissesOnlyOverwritten
<1> QED BY <1>1, <1>2, <1>3, <1>4 DEF IInv

-----------------------------------------------------------------------------
(* The publisher.                                                          *)

(* Nobody is subscribed: the message joins the queue, and if the queue is  *)
(* full its first one, which is smaller than the others, leaves.           *)
LEMMA PublishToQueueStep ==
    ASSUME IInv, PublishToQueue
    PROVE  IInv'
<1> USE DEF PublishToQueue, topicStreamVars
<1>1. /\ published \in Nat /\ published' = published + 1 /\ published' <= MaxPublished
      /\ sending = 0 /\ sending' = 0 /\ Known = published /\ Known' = published + 1
  BY TopicAssumption DEF IInv, Types, Known
<1>2. /\ queued \in Seq(1..published) /\ queued \in Seq(Nat) /\ Increasing(queued)
      /\ Len(queued) <= QueueCapacity /\ QueueCapacity \in Nat \ {0}
  BY <1>1, TopicAssumption DEF IInv, Types, Order
<1>3. /\ Kept \in Seq(1..published) /\ Kept \in Seq(Nat) /\ Increasing(Kept)
      /\ Len(Kept) < QueueCapacity
      /\ \A i \in DOMAIN Kept : \E j \in DOMAIN queued : Kept[i] = queued[j]
  <2>1. CASE Len(queued) >= QueueCapacity
    <3>1. queued # <<>> /\ Kept = Tail(queued)
      BY <1>2, <2>1 DEF Kept
    <3>2. Tail(queued) \in Seq(1..published) /\ Tail(queued) \in Seq(Nat)
      BY <1>2, <3>1, TailFacts
    <3>3. Increasing(Tail(queued))
      BY <1>2, <3>1, TailIncreasing
    <3>4. \A i \in DOMAIN Tail(queued) :
             i + 1 \in DOMAIN queued /\ Tail(queued)[i] = queued[i + 1]
      <4>1. DOMAIN queued = 1..Len(queued) /\ Len(queued) \in Nat
        BY <1>2
      <4> QED BY <1>2, <3>1, <4>1, TailFacts
    <3>5. Len(Tail(queued)) = Len(queued) - 1
      BY <1>2, <3>1, TailFacts
    <3> QED BY <1>2, <3>1, <3>2, <3>3, <3>4, <3>5
  <2>2. CASE Len(queued) < QueueCapacity
    <3>1. Kept = queued
      BY <1>2, <2>2 DEF Kept
    <3> QED BY <1>2, <2>2, <3>1
  <2> QED BY <1>2, <2>1, <2>2
<1>4. /\ queued' \in Seq(1..Known') /\ Len(queued') <= QueueCapacity /\ Increasing(queued')
  <2>1. \A i \in DOMAIN Kept : Kept[i] < published'
    BY <1>1, <1>3
  <2> QED BY <1>1, <1>2, <1>3, <2>1, AppendIncreasing
<1>5. ring' = ring /\ ring' \in Seq(1..Known')
  BY <1>1 DEF IInv, Types
<1>6. displaced' \cup vanished' \subseteq 1..published'
  <2>1. Range(queued) \subseteq 1..published
    BY <1>2, ElementsIn
  <2> QED BY <1>1, <2>1 DEF IInv, Types
<1>7. \A s \in Streams : StreamType(s)'
  BY <1>1 DEF IInv, Types, StreamType
<1>8. Types'
  BY <1>1, <1>4, <1>5, <1>6, <1>7 DEF IInv, Types
<1>9. Order'
  BY <1>4 DEF IInv, Order, StreamOrder
<1>10. NobodySubscribedWaits'
  BY DEF NobodySubscribedWaits, Receivers
<1>11. MissesOnlyOverwritten'
  BY DEF IInv, MissesOnlyOverwritten, Overwritten
<1>12. DisplacesOldest'
  <2> SUFFICES ASSUME NEW m \in displaced', NEW i \in DOMAIN queued' PROVE m < queued'[i]
    BY DEF DisplacesOldest
  <2>1. m \in 1..published
    BY <1>2 DEF IInv, Types, Range
  <2>2. CASE i = Len(Kept) + 1
    BY <1>1, <1>3, <2>1, <2>2
  <2>3. CASE i # Len(Kept) + 1
    <3>1. i \in DOMAIN Kept /\ queued'[i] = Kept[i]
      BY <1>3, <1>1, <2>3
    <3>2. CASE m \in displaced
      BY <1>3, <3>1, <3>2 DEF IInv, DisplacesOldest
    <3>3. CASE m \in Range(queued) \ Range(Kept)
      <4>1. Len(queued) >= QueueCapacity /\ queued # <<>> /\ Kept = Tail(queued)
        BY <1>2, <3>3 DEF Kept
      <4>2. PICK j \in DOMAIN queued : m = queued[j]
        BY <3>3 DEF Range
      <4>3. j = 1
        <5> SUFFICES ASSUME j # 1 PROVE FALSE
          OBVIOUS
        <5>1. j - 1 \in DOMAIN Tail(queued) /\ Tail(queued)[j - 1] = queued[j]
          BY <1>2, <4>1
        <5> QED BY <3>3, <4>1, <4>2, <5>1 DEF Range
      <4>4. i + 1 \in DOMAIN queued /\ queued'[i] = queued[i + 1]
        BY <1>2, <3>1, <4>1
      <4> QED BY <1>2, <4>2, <4>3, <4>4 DEF Increasing
    <3> QED BY <3>2, <3>3
  <2> QED BY <2>2, <2>3
<1> QED BY <1>8, <1>9, <1>10, <1>11, <1>12 DEF IInv

LEMMA PublishCountsStep ==
    ASSUME IInv, PublishCounts
    PROVE  IInv'
<1> USE DEF PublishCounts, topicStreamVars
<1>1. /\ published \in Nat /\ published' = published + 1 /\ published' <= MaxPublished
      /\ sending' = published' /\ Known = published /\ Known' = Known
  BY TopicAssumption DEF IInv, Types, Known
<1>2. Types'
  BY <1>1 DEF IInv, Types, StreamType
<1>3. Order'
  BY DEF IInv, Order, StreamOrder
<1>4. NobodySubscribedWaits' /\ MissesOnlyOverwritten' /\ DisplacesOldest'
  BY DEF IInv, NobodySubscribedWaits, Receivers, MissesOnlyOverwritten, Overwritten, DisplacesOldest
<1> QED BY <1>2, <1>3, <1>4 DEF IInv

(* The number sent is larger than every one known so far.                  *)
LEMMA PublishSendsStep ==
    ASSUME IInv, PublishSends
    PROVE  IInv'
<1> USE DEF PublishSends, topicStreamVars
<1>1. /\ sending = published /\ published \in Nat \ {0} /\ published' = published
      /\ Known = published - 1 /\ Known' = published /\ sending' = 0
  BY TopicAssumption DEF IInv, Types, Known
<1>2. ring \in Seq(1..Known) /\ ring \in Seq(Nat) /\ Increasing(ring)
  BY <1>1 DEF IInv, Types, Order
<1>3. ring' = ring \/ ring' = Append(ring, published)
  BY <1>1
<1>4. /\ ring' \in Seq(1..Known') /\ Increasing(ring')
      /\ Len(ring) <= Len(ring') /\ Len(ring') \in Nat
      /\ \A i \in 1..Len(ring) : ring'[i] = ring[i]
      /\ \A i \in DOMAIN ring' : i > Len(ring) => ring'[i] = published
  <2>1. \A i \in DOMAIN ring : ring[i] < published
    BY <1>1, <1>2
  <2>2. ring \in Seq(1..published)
    BY <1>1, <1>2, SeqWider
  <2>3. CASE ring' = ring
    BY <1>1, <1>2, <2>2, <2>3
  <2>4. CASE ring' = Append(ring, published)
    <3>1. Increasing(ring')
      BY <1>1, <1>2, <2>1, <2>4, AppendIncreasing
    <3>2. /\ ring' \in Seq(1..published) /\ Len(ring') = Len(ring) + 1
          /\ \A i \in 1..Len(ring) : ring'[i] = ring[i]
          /\ ring'[Len(ring) + 1] = published
          /\ DOMAIN ring' = 1..Len(ring) + 1
      BY <1>1, <2>2, <2>4, AppendFacts
    <3> QED BY <1>1, <1>2, <3>1, <3>2
  <2> QED BY <1>3, <2>3, <2>4
<1>5. \A s \in Streams : StreamType(s)'
  <2> TAKE s \in Streams
  <2>1. StreamType(s)
    BY DEF IInv, Types
  <2> QED BY <1>1, <1>2, <1>4, <2>1 DEF StreamType
<1>6. Types'
  BY <1>1, <1>4, <1>5 DEF IInv, Types
<1>7. \A s \in Streams : StreamOrder(s)'
  <2> TAKE s \in Streams
  <2>1. StreamType(s) /\ StreamOrder(s)
    BY DEF IInv, Types, Order
  <2>2. /\ \A i \in DOMAIN yielded[s] : yielded[s][i] < published
        /\ \A i \in DOMAIN backlog[s] : backlog[s][i] < published
    BY <1>1, <2>1 DEF StreamType
  <2>3. \A j \in next[s] + 1..Len(ring') :
          \/ j \in next[s] + 1..Len(ring) /\ ring'[j] = ring[j]
          \/ ring'[j] = published
    BY <1>2, <1>4, <2>1 DEF StreamType
  <2> QED BY <2>1, <2>2, <2>3 DEF StreamOrder
<1>8. Order'
  BY <1>4, <1>7 DEF IInv, Order
<1>9. NobodySubscribedWaits' /\ DisplacesOldest'
  BY DEF IInv, NobodySubscribedWaits, Receivers, DisplacesOldest
<1>10. MissesOnlyOverwritten'
  <2> SUFFICES ASSUME NEW s \in Streams, NEW i \in first[s] + 1..next[s]
               PROVE  ring'[i] \in Range(yielded[s]) \/ i <= Overwritten'
    BY DEF MissesOnlyOverwritten
  <2>1. i \in 1..Len(ring) /\ ring'[i] = ring[i]
    BY <1>2, <1>4 DEF IInv, Types, StreamType
  <2>2. ring[i] \in Range(yielded[s]) \/ i <= Overwritten
    BY DEF IInv, MissesOnlyOverwritten
  <2>3. Overwritten <= Overwritten' /\ Overwritten \in Nat /\ Overwritten' \in Nat
    BY <1>2, <1>4, TopicAssumption DEF Overwritten
  <2> QED BY <2>1, <2>2, <2>3
<1> QED BY <1>6, <1>8, <1>9, <1>10 DEF IInv

-----------------------------------------------------------------------------
(* The streams.  A step of one stream leaves the others as they are.       *)

OtherStreams(s) ==
    \A t \in Streams \ {s} :
        /\ state'[t] = state[t] /\ first'[t] = first[t] /\ next'[t] = next[t]
        /\ backlog'[t] = backlog[t] /\ yielded'[t] = yielded[t]

(* What a step of stream s has to show of s alone.                         *)
LEMMA StreamStep ==
    ASSUME IInv, NEW s \in Streams, OtherStreams(s),
           UNCHANGED <<published, ring, sending, displaced, vanished>>,
           queued' = queued \/ queued' = <<>>,
           state' \in [Streams -> {"new", "open", "closed"}],
           first' \in [Streams -> Nat], next' \in [Streams -> Nat],
           backlog' \in [Streams -> Seq(Nat)], yielded' \in [Streams -> Seq(Nat)],
           StreamType(s)', StreamOrder(s)',
           queued' # <<>> => state'[s] # "open",
           \A i \in first'[s] + 1..next'[s] :
               ring[i] \in Range(yielded'[s]) \/ i <= Overwritten
    PROVE  IInv'
<1>1. Known' = Known /\ Overwritten' = Overwritten
  BY DEF Known, Overwritten
<1>2. \A t \in Streams : StreamType(t)'
  <2> SUFFICES ASSUME NEW t \in Streams \ {s} PROVE StreamType(t)'
    OBVIOUS
  <2> QED BY <1>1 DEF IInv, Types, StreamType, OtherStreams
<1>3. queued' \in Seq(1..Known') /\ Len(queued') <= QueueCapacity /\ Increasing(queued')
  <2>1. CASE queued' = queued
    BY <1>1, <2>1 DEF IInv, Types, Order
  <2>2. CASE queued' = <<>>
    BY <2>2, TopicAssumption DEF Increasing
  <2> QED BY <2>1, <2>2
<1>4. Types'
  BY <1>1, <1>2, <1>3 DEF IInv, Types
<1>5. \A t \in Streams : StreamOrder(t)'
  <2> SUFFICES ASSUME NEW t \in Streams \ {s} PROVE StreamOrder(t)'
    OBVIOUS
  <2> QED BY DEF IInv, Order, StreamOrder, OtherStreams
<1>6. Order'
  BY <1>3, <1>5 DEF IInv, Order
<1>7. NobodySubscribedWaits'
  BY DEF IInv, NobodySubscribedWaits, Receivers, OtherStreams
<1>8. MissesOnlyOverwritten'
  BY <1>1 DEF IInv, MissesOnlyOverwritten, OtherStreams
<1>9. DisplacesOldest'
  BY DEF IInv, DisplacesOldest
<1> QED BY <1>4, <1>6, <1>7, <1>8, <1>9 DEF IInv

(* The facts about stream s that its steps start from.                     *)
StreamFacts(s) ==
    /\ StreamType(s) /\ StreamOrder(s)
    /\ ring \in Seq(1..Known) /\ ring \in Seq(Nat) /\ Increasing(ring)
    /\ Known \in Nat /\ Overwritten \in 0..Len(ring)
    /\ first[s] \in Nat /\ next[s] \in Nat /\ Len(ring) \in Nat
    /\ backlog[s] \in Seq(Nat) /\ yielded[s] \in Seq(Nat)

LEMMA Facts == ASSUME IInv, NEW s \in Streams PROVE StreamFacts(s)
<1>1. Known \in Nat
  BY TopicAssumption DEF IInv, Types, Known
<1>2. ring \in Seq(1..Known) /\ ring \in Seq(Nat) /\ Increasing(ring)
  BY <1>1 DEF IInv, Types, Order
<1>3. Overwritten \in 0..Len(ring) /\ Len(ring) \in Nat
  BY <1>2, TopicAssumption DEF Overwritten
<1> QED BY <1>1, <1>2, <1>3 DEF IInv, Types, Order, StreamFacts

(* A new stream takes the whole queue and starts where the ring ends.      *)
LEMMA SubscribeStep ==
    ASSUME IInv, NEW s \in Streams, Subscribe(s)
    PROVE  IInv'
<1> USE DEF Subscribe
<1>1. StreamFacts(s)
  BY Facts
<1>2. queued \in Seq(1..Known) /\ queued \in Seq(Nat) /\ Increasing(queued)
  BY <1>1, SeqWider DEF IInv, Types, Order, StreamFacts
<1>3. /\ state' \in [Streams -> {"new", "open", "closed"}]
      /\ first' \in [Streams -> Nat] /\ next' \in [Streams -> Nat]
      /\ backlog' \in [Streams -> Seq(Nat)] /\ yielded' \in [Streams -> Seq(Nat)]
      /\ OtherStreams(s)
      /\ first'[s] = Len(ring) /\ next'[s] = Len(ring) /\ backlog'[s] = queued
      /\ yielded'[s] = yielded[s] /\ state'[s] = "open" /\ queued' = <<>>
  BY <1>1, <1>2 DEF IInv, Types, StreamFacts, OtherStreams
<1>4. UNCHANGED <<published, ring, sending, displaced, vanished>> /\ Known' = Known
  BY DEF Known
<1>5. StreamType(s)'
  BY <1>1, <1>2, <1>3, <1>4 DEF StreamFacts, StreamType
<1>6. StreamOrder(s)'
  BY <1>1, <1>2, <1>3, <1>4 DEF StreamFacts, StreamOrder
<1>7. \A i \in first'[s] + 1..next'[s] : FALSE
  BY <1>1, <1>3 DEF StreamFacts
<1> QED BY <1>3, <1>4, <1>5, <1>6, <1>7, StreamStep

LEMMA YieldQueuedStep ==
    ASSUME IInv, NEW s \in Streams, YieldQueued(s)
    PROVE  IInv'
<1> USE DEF YieldQueued, topicHubVars
<1>1. StreamFacts(s)
  BY Facts
<1> DEFINE m == Head(backlog[s])
<1>2. /\ backlog[s] \in Seq(1..Known) /\ yielded[s] \in Seq(1..Known) /\ backlog[s] # <<>>
      /\ Known \in Nat
  BY <1>1 DEF StreamFacts, StreamType
<1>3. /\ m \in 1..Known /\ m = backlog[s][1]
      /\ Tail(backlog[s]) \in Seq(1..Known) /\ Tail(backlog[s]) \in Seq(Nat)
      /\ Append(yielded[s], m) \in Seq(1..Known) /\ Append(yielded[s], m) \in Seq(Nat)
  <2>1. /\ m \in 1..Known /\ m = backlog[s][1] /\ Tail(backlog[s]) \in Seq(1..Known)
        /\ 1..Known \subseteq Nat
    <3> DEFINE S == 1..Known
    <3>1. backlog[s] \in Seq(S) /\ backlog[s] # <<>> /\ S \subseteq Nat
      BY <1>2
    <3> HIDE DEF S
    <3>2. m \in S /\ m = backlog[s][1] /\ Tail(backlog[s]) \in Seq(S)
      BY <3>1, TailFacts
    <3> QED BY <3>1, <3>2 DEF S
  <2>2. Tail(backlog[s]) \in Seq(Nat)
    BY <2>1, SeqWider
  <2> QED BY <1>2, <2>1, <2>2, OneMore
<1>4. /\ state' \in [Streams -> {"new", "open", "closed"}]
      /\ first' \in [Streams -> Nat] /\ next' \in [Streams -> Nat]
      /\ backlog' \in [Streams -> Seq(Nat)] /\ yielded' \in [Streams -> Seq(Nat)]
      /\ OtherStreams(s)
      /\ first'[s] = first[s] /\ next'[s] = next[s] /\ backlog'[s] = Tail(backlog[s])
      /\ yielded'[s] = Append(yielded[s], m) /\ state'[s] = "open"
  BY <1>3 DEF IInv, Types, OtherStreams
<1>5. UNCHANGED <<published, queued, ring, sending, displaced, vanished>> /\ Known' = Known
  BY DEF Known
<1>6. StreamType(s)'
  BY <1>1, <1>3, <1>4, <1>5 DEF StreamFacts, StreamType
<1>7. /\ \A i \in DOMAIN yielded[s] : yielded[s][i] < m
      /\ Increasing(Tail(backlog[s]))
      /\ \A j \in DOMAIN Tail(backlog[s]) :
            m < Tail(backlog[s])[j] /\ j + 1 \in DOMAIN backlog[s]
            /\ Tail(backlog[s])[j] = backlog[s][j + 1]
      /\ \A j \in next[s] + 1..Len(ring) : m < ring[j]
  <2>1. 1 \in DOMAIN backlog[s]
    BY <1>2
  <2>2. Increasing(backlog[s]) /\ backlog[s] \in Seq(Nat)
    BY <1>1 DEF StreamFacts, StreamOrder
  <2>3. /\ Increasing(Tail(backlog[s]))
        /\ \A j \in DOMAIN Tail(backlog[s]) : m < Tail(backlog[s])[j]
    BY <1>2, <2>2, TailIncreasing
  <2>4. \A j \in DOMAIN Tail(backlog[s]) :
           j + 1 \in DOMAIN backlog[s] /\ Tail(backlog[s])[j] = backlog[s][j + 1]
    BY <1>2, TailFacts
  <2> QED BY <1>1, <1>3, <2>1, <2>3, <2>4 DEF StreamFacts, StreamOrder
<1>8. Increasing(yielded'[s])
  <2>1. yielded[s] \in Seq(Nat) /\ Increasing(yielded[s]) /\ m \in Nat
    BY <1>1, <1>2, <1>3 DEF StreamFacts, StreamOrder
  <2> HIDE DEF m
  <2> QED BY <1>4, <1>7, <2>1, AppendIncreasing
<1>9. \A i \in DOMAIN yielded'[s] :
        \/ i \in DOMAIN yielded[s] /\ yielded'[s][i] = yielded[s][i]
        \/ yielded'[s][i] = m
  BY <1>2, <1>3, <1>4, OneMore
<1>10. StreamOrder(s)'
  <2>1. StreamOrder(s)
    BY <1>1 DEF StreamFacts
  <2> HIDE DEF m
  <2>2. ASSUME NEW i \in DOMAIN yielded'[s], NEW j \in DOMAIN backlog'[s]
        PROVE  yielded'[s][i] < backlog'[s][j]
    <3>1. /\ j \in DOMAIN Tail(backlog[s]) /\ backlog'[s][j] = Tail(backlog[s])[j]
          /\ j + 1 \in DOMAIN backlog[s] /\ backlog'[s][j] = backlog[s][j + 1]
      BY <1>4, <1>7
    <3>2. m < backlog'[s][j]
      BY <1>7, <3>1
    <3>3. i \in DOMAIN yielded[s] => yielded[s][i] < backlog'[s][j]
      BY <2>1, <3>1 DEF StreamOrder
    <3> QED BY <1>9, <3>2, <3>3
  <2>3. ASSUME NEW i \in DOMAIN yielded'[s], NEW j \in next[s] + 1..Len(ring)
        PROVE  yielded'[s][i] < ring[j]
    <3>1. m < ring[j]
      BY <1>7
    <3>2. i \in DOMAIN yielded[s] => yielded[s][i] < ring[j]
      BY <2>1 DEF StreamOrder
    <3> QED BY <1>9, <3>1, <3>2
  <2>4. ASSUME NEW i \in DOMAIN backlog'[s], NEW j \in next[s] + 1..Len(ring)
        PROVE  backlog'[s][i] < ring[j]
    <3>1. i + 1 \in DOMAIN backlog[s] /\ backlog'[s][i] = backlog[s][i + 1]
      BY <1>4, <1>7
    <3> QED BY <2>1, <3>1 DEF StreamOrder
  <2>5. Increasing(backlog'[s])
    BY <1>4, <1>7
  <2> QED BY <1>4, <1>5, <1>8, <2>2, <2>3, <2>4, <2>5 DEF StreamOrder
<1>11. Range(yielded[s]) \subseteq Range(yielded'[s])
  BY <1>2, <1>3, <1>4, OneMore
<1>12. \A i \in first'[s] + 1..next'[s] :
          ring[i] \in Range(yielded'[s]) \/ i <= Overwritten
  BY <1>4, <1>11 DEF IInv, MissesOnlyOverwritten
<1>13. queued' # <<>> => FALSE
  BY <1>5 DEF IInv, NobodySubscribedWaits, Receivers
<1> QED BY <1>4, <1>5, <1>6, <1>10, <1>12, <1>13, StreamStep

(* The backlog is done with, so the next of the ring follows what was      *)
(* yielded, and the ring increases.                                        *)
LEMMA ReceiveStep ==
    ASSUME IInv, NEW s \in Streams, Receive(s)
    PROVE  IInv'
<1> USE DEF Receive, Listens, topicHubVars
<1>1. StreamFacts(s)
  BY Facts
<1> DEFINE n == next[s] + 1
           m == ring[n]
<1>2. /\ yielded[s] \in Seq(1..Known) /\ Known \in Nat /\ next[s] \in Nat /\ Len(ring) \in Nat
      /\ n \in 1..Len(ring) /\ m \in 1..Known /\ n \in next[s] + 1..Len(ring)
  BY <1>1 DEF StreamFacts, StreamType
<1>3. Append(yielded[s], m) \in Seq(1..Known) /\ Append(yielded[s], m) \in Seq(Nat)
  BY <1>2, OneMore
<1>4. /\ state' \in [Streams -> {"new", "open", "closed"}]
      /\ first' \in [Streams -> Nat] /\ next' \in [Streams -> Nat]
      /\ backlog' \in [Streams -> Seq(Nat)] /\ yielded' \in [Streams -> Seq(Nat)]
      /\ OtherStreams(s)
      /\ first'[s] = first[s] /\ next'[s] = n /\ backlog'[s] = backlog[s] /\ backlog[s] = <<>>
      /\ yielded'[s] = Append(yielded[s], m) /\ state'[s] = "open"
  <2>1. n \in Nat
    BY <1>2
  <2>2. /\ next' = [next EXCEPT ![s] = n]
        /\ yielded' = [yielded EXCEPT ![s] = Append(yielded[s], m)]
    OBVIOUS
  <2> HIDE DEF m, n
  <2> QED BY <1>3, <2>1, <2>2 DEF IInv, Types, OtherStreams
<1>5. UNCHANGED <<published, queued, ring, sending, displaced, vanished>> /\ Known' = Known
  BY DEF Known
<1>6. StreamType(s)'
  BY <1>1, <1>2, <1>3, <1>4, <1>5 DEF StreamFacts, StreamType
<1>7. /\ \A i \in DOMAIN yielded[s] : yielded[s][i] < m
      /\ \A j \in n + 1..Len(ring) : j \in next[s] + 1..Len(ring) /\ m < ring[j]
  <2>1. \A i \in DOMAIN yielded[s] : yielded[s][i] < m
    BY <1>1, <1>2 DEF StreamFacts, StreamOrder
  <2>2. Increasing(ring) /\ DOMAIN ring = 1..Len(ring)
    BY <1>1 DEF StreamFacts, IInv, Types, Order
  <2>3. ASSUME NEW j \in n + 1..Len(ring)
        PROVE  j \in next[s] + 1..Len(ring) /\ m < ring[j]
    <3>1. j \in 1..Len(ring) /\ n < j /\ j \in next[s] + 1..Len(ring)
      BY <1>2
    <3> QED BY <1>2, <2>2, <3>1 DEF Increasing
  <2> QED BY <2>1, <2>3
<1>8. Increasing(yielded'[s])
  <2>1. yielded[s] \in Seq(Nat) /\ Increasing(yielded[s]) /\ m \in Nat
    BY <1>1, <1>2 DEF StreamFacts, StreamOrder
  <2> HIDE DEF m
  <2> QED BY <1>4, <1>7, <2>1, AppendIncreasing
<1>9. \A i \in DOMAIN yielded'[s] :
        \/ i \in DOMAIN yielded[s] /\ yielded'[s][i] = yielded[s][i]
        \/ yielded'[s][i] = m
  BY <1>2, <1>4, OneMore
<1>10. StreamOrder(s)'
  <2>1. StreamOrder(s)
    BY <1>1 DEF StreamFacts
  <2> HIDE DEF m, n
  <2>2. backlog'[s] = <<>> /\ DOMAIN backlog'[s] = {} /\ Increasing(backlog'[s])
    BY <1>4 DEF Increasing
  <2>3. ASSUME NEW i \in DOMAIN yielded'[s], NEW j \in n + 1..Len(ring)
        PROVE  yielded'[s][i] < ring[j]
    <3>1. j \in next[s] + 1..Len(ring) /\ m < ring[j]
      BY <1>7
    <3>2. i \in DOMAIN yielded[s] => yielded[s][i] < ring[j]
      BY <2>1, <3>1 DEF StreamOrder
    <3> QED BY <1>9, <3>1, <3>2
  <2> QED BY <1>4, <1>5, <1>8, <2>2, <2>3 DEF StreamOrder
<1>11. Range(yielded[s]) \cup {m} \subseteq Range(yielded'[s])
  BY <1>2, <1>4, OneMore
<1>12. \A i \in first'[s] + 1..next'[s] :
          ring[i] \in Range(yielded'[s]) \/ i <= Overwritten
  <2> TAKE i \in first'[s] + 1..next'[s]
  <2>1. i = n \/ i \in first[s] + 1..next[s]
    BY <1>1, <1>2, <1>4 DEF StreamFacts
  <2> QED BY <1>11, <2>1 DEF IInv, MissesOnlyOverwritten
<1>13. queued' # <<>> => FALSE
  BY <1>5 DEF IInv, NobodySubscribedWaits, Receivers
<1> QED BY <1>4, <1>5, <1>6, <1>10, <1>12, <1>13, StreamStep

(* The receiver skips what is overwritten and nothing else.                *)
LEMMA LaggedStep ==
    ASSUME IInv, NEW s \in Streams, Lagged(s)
    PROVE  IInv'
<1> USE DEF Lagged, Listens, topicHubVars
<1>1. StreamFacts(s)
  BY Facts
<1>2. /\ state' \in [Streams -> {"new", "open", "closed"}]
      /\ first' \in [Streams -> Nat] /\ next' \in [Streams -> Nat]
      /\ backlog' \in [Streams -> Seq(Nat)] /\ yielded' \in [Streams -> Seq(Nat)]
      /\ OtherStreams(s)
      /\ first'[s] = first[s] /\ next'[s] = Overwritten /\ backlog'[s] = backlog[s]
      /\ yielded'[s] = yielded[s] /\ state'[s] = "open"
  BY <1>1 DEF IInv, Types, StreamFacts, OtherStreams
<1>3. UNCHANGED <<published, queued, ring, sending, displaced, vanished>> /\ Known' = Known
  BY DEF Known
<1>4. StreamType(s)'
  BY <1>1, <1>2, <1>3 DEF StreamFacts, StreamType
<1>5. \A j \in Overwritten + 1..Len(ring) : j \in next[s] + 1..Len(ring)
  BY <1>1 DEF StreamFacts
<1>6. StreamOrder(s)'
  BY <1>1, <1>2, <1>3, <1>5 DEF StreamFacts, StreamOrder
<1>7. \A i \in first'[s] + 1..next'[s] : i <= Overwritten
  BY <1>1, <1>2 DEF StreamFacts
<1>8. queued' # <<>> => FALSE
  BY <1>3 DEF IInv, NobodySubscribedWaits, Receivers
<1> QED BY <1>2, <1>3, <1>4, <1>6, <1>7, <1>8, StreamStep

LEMMA HangUpStep ==
    ASSUME IInv, NEW s \in Streams, DropStream(s)
    PROVE  IInv'
<1> USE DEF DropStream, topicHubVars
<1>1. StreamFacts(s)
  BY Facts
<1>2. /\ state' \in [Streams -> {"new", "open", "closed"}]
      /\ first' \in [Streams -> Nat] /\ next' \in [Streams -> Nat]
      /\ backlog' \in [Streams -> Seq(Nat)] /\ yielded' \in [Streams -> Seq(Nat)]
      /\ OtherStreams(s)
      /\ first'[s] = first[s] /\ next'[s] = next[s] /\ backlog'[s] = <<>>
      /\ yielded'[s] = yielded[s] /\ state'[s] = "closed"
  BY <1>1 DEF IInv, Types, StreamFacts, OtherStreams
<1>3. UNCHANGED <<published, queued, ring, sending, displaced, vanished>> /\ Known' = Known
  BY DEF Known
<1>4. StreamType(s)'
  BY <1>1, <1>2, <1>3 DEF StreamFacts, StreamType
<1>5. StreamOrder(s)'
  BY <1>1, <1>2, <1>3 DEF StreamFacts, StreamOrder, Increasing
<1>6. \A i \in first'[s] + 1..next'[s] :
         ring[i] \in Range(yielded'[s]) \/ i <= Overwritten
  BY <1>2 DEF IInv, MissesOnlyOverwritten
<1> QED BY <1>2, <1>3, <1>4, <1>5, <1>6, StreamStep

LEMMA StutterStep == ASSUME IInv, UNCHANGED topicVars PROVE IInv'
<1> USE DEF topicVars, topicHubVars, topicStreamVars
<1>1. Known' = Known /\ Overwritten' = Overwritten
  BY DEF Known, Overwritten
<1>2. Types'
  BY <1>1 DEF IInv, Types, StreamType
<1>3. Order'
  BY DEF IInv, Order, StreamOrder
<1>4. NobodySubscribedWaits' /\ MissesOnlyOverwritten' /\ DisplacesOldest'
  BY <1>1 DEF IInv, NobodySubscribedWaits, Receivers, MissesOnlyOverwritten, DisplacesOldest
<1> QED BY <1>2, <1>3, <1>4 DEF IInv

LEMMA NextIInv == IInv /\ [TopicNext]_topicVars => IInv'
<1> SUFFICES ASSUME IInv, [TopicNext]_topicVars PROVE IInv'
  OBVIOUS
<1>1. CASE PublishToQueue
  BY <1>1, PublishToQueueStep
<1>2. CASE PublishCounts
  BY <1>2, PublishCountsStep
<1>3. CASE PublishSends
  BY <1>3, PublishSendsStep
<1>4. ASSUME NEW s \in Streams, Subscribe(s) PROVE IInv'
  BY <1>4, SubscribeStep
<1>5. ASSUME NEW s \in Streams, PollStream(s) PROVE IInv'
  BY <1>5, YieldQueuedStep, ReceiveStep, LaggedStep DEF PollStream
<1>6. ASSUME NEW s \in Streams, DropStream(s) PROVE IInv'
  BY <1>6, HangUpStep
<1>7. CASE UNCHANGED topicVars
  BY <1>7, StutterStep
<1> QED BY <1>1, <1>2, <1>3, <1>4, <1>5, <1>6, <1>7 DEF TopicNext

LEMMA InvariantHolds == TopicSpec => []IInv
BY InitIInv, NextIInv, PTL DEF TopicSpec

-----------------------------------------------------------------------------
(* The results.                                                            *)

(* Every variable keeps its type: cursors within the ring, the queue within *)
(* its capacity, and only what was published is queued, sent or yielded.   *)
THEOREM TypesAreKept == TopicSpec => []TypeOK
<1>1. ASSUME IInv PROVE TypeOK
  <2>1. Known \in Nat /\ published \in Nat /\ 1..Known \subseteq 1..published
    BY <1>1, TopicAssumption DEF IInv, Types, Known
  <2>2. queued \in Seq(1..published) /\ ring \in Seq(1..published)
    BY <1>1, <2>1, SeqWider DEF IInv, Types
  <2>3. ASSUME NEW s \in Streams
        PROVE  /\ first[s] \in 0..Len(ring) /\ next[s] \in first[s]..Len(ring)
               /\ backlog[s] \in Seq(1..published) /\ yielded[s] \in Seq(1..published)
    <3>1. StreamType(s)
      BY <1>1 DEF IInv, Types
    <3> QED BY <2>1, <3>1, SeqWider DEF StreamType
  <2>4. sending \in 0..published
    BY <1>1, <2>1 DEF IInv, Types
  <2> QED BY <1>1, <2>2, <2>3, <2>4 DEF IInv, Types, TypeOK
<1> QED BY <1>1, InvariantHolds, PTL

(* The queue is empty as long as a stream is open: subscribe drains it and *)
(* publish does not fill it then.                                          *)
THEOREM NothingWaitsForSubscribers == TopicSpec => []NobodySubscribedWaits
<1>1. IInv => NobodySubscribedWaits
  BY DEF IInv
<1> QED BY <1>1, InvariantHolds, PTL

(* A stream's output, from the queue it drained and then from the channel, *)
(* lags included, is in the order of publishing and without repetition.    *)
THEOREM StreamsYieldInOrder == TopicSpec => []InOrder
<1>1. IInv => InOrder
  BY DEF IInv, Order, StreamOrder, InOrder
<1> QED BY <1>1, InvariantHolds, PTL

(* What a stream has passed over was overwritten in the broadcast ring.    *)
THEOREM LagLosesOnlyOverwritten == TopicSpec => []MissesOnlyOverwritten
<1>1. IInv => MissesOnlyOverwritten
  BY DEF IInv
<1> QED BY <1>1, InvariantHolds, PTL

(* What a full queue has given up is older than all that is in it.         *)
THEOREM FullQueueGivesUpOldest == TopicSpec => []DisplacesOldest
<1>1. IInv => DisplacesOldest
  BY DEF IInv
<1> QED BY <1>1, InvariantHolds, PTL

-----------------------------------------------------------------------------
(* The messaging hub.                                                      *)
(*                                                                         *)
(* First what `retain' leaves of a queue, for every queue: its definition  *)
(* is recursive, and a least counterexample stands for the induction.      *)

LEMMA LeastNumber ==
    ASSUME NEW S \in SUBSET Nat, S # {}
    PROVE  \E n \in S : \A m \in S : ~(m < n)
<1> DEFINE Less == {pair \in Nat \X Nat : pair[1] < pair[2]}
<1>1. OpToRel(<, Nat) = Less
  BY Zenon DEF OpToRel
<1>2. IsWellFoundedOn(Less, Nat)
  BY <1>1, NatLessThanWellFounded, Zenon
<1>3. PICK n \in S : \A m \in S : <<m, n>> \notin Less
  <2> HIDE DEF Less
  <2> QED BY <1>2, WFMin
<1> QED BY <1>3

LEMMA Upward ==
    ASSUME NEW S, 0 \in S, NEW N \in Nat, \A n \in 0..N : n \in S /\ n # N => n + 1 \in S
    PROVE  \A n \in 0..N : n \in S
<1> DEFINE T == {n \in 0..N : n \notin S}
<1> SUFFICES ASSUME T # {} PROVE FALSE
  OBVIOUS
<1>1. T \in SUBSET Nat
  OBVIOUS
<1>2. PICK n \in T : \A m \in T : ~(m < n)
  BY <1>1, LeastNumber
<1>3. n # 0 /\ n - 1 \in 0..N /\ n - 1 < n /\ n - 1 + 1 = n
  BY <1>1
<1>4. n - 1 \in S
  BY <1>2, <1>3
<1> QED BY <1>3, <1>4

(* The recursion has a solution, so Retained is it.                        *)
KeptUpto(entries, f, N) ==
    f = [n \in 0..N |->
            IF n = 0 THEN <<>>
            ELSE IF Fresh(entries[n]) THEN Append(f[n - 1], entries[n])
            ELSE f[n - 1]]

LEMMA KeptExists ==
    ASSUME NEW entries, NEW L \in Nat
    PROVE  \E f : KeptUpto(entries, f, L)
<1> DEFINE S == {N \in Nat : \E f : KeptUpto(entries, f, N)}
<1>1. 0 \in S
  <2>1. KeptUpto(entries, [n \in 0..0 |-> <<>>], 0)
    BY DEF KeptUpto
  <2> QED BY <2>1
<1>2. ASSUME NEW n \in 0..L, n \in S, n # L PROVE n + 1 \in S
  <2>1. PICK f : KeptUpto(entries, f, n)
    BY <1>2
  <2> DEFINE g == [i \in 0..n + 1 |->
                      IF i <= n THEN f[i]
                      ELSE IF Fresh(entries[n + 1]) THEN Append(f[n], entries[n + 1])
                      ELSE f[n]]
  <2>2. \A i \in 0..n : g[i] = f[i]
    OBVIOUS
  <2>3. \A i \in 0..n + 1 : g[i] = IF i = 0 THEN <<>>
                                   ELSE IF Fresh(entries[i]) THEN Append(g[i - 1], entries[i])
                                   ELSE g[i - 1]
    <3> TAKE i \in 0..n + 1
    <3>0. \A k \in 0..n : f[k] = IF k = 0 THEN <<>>
                                ELSE IF Fresh(entries[k]) THEN Append(f[k - 1], entries[k])
                                ELSE f[k - 1]
      BY <2>1 DEF KeptUpto
    <3>1. CASE i <= n
      <4>1. f[i] = IF i = 0 THEN <<>>
                   ELSE IF Fresh(entries[i]) THEN Append(f[i - 1], entries[i])
                   ELSE f[i - 1]
        BY <3>0, <3>1
      <4>2. i # 0 => i - 1 \in 0..n /\ g[i - 1] = f[i - 1]
        BY <3>1
      <4>3. g[i] = f[i]
        BY <3>1
      <4> HIDE DEF g
      <4> QED BY <4>1, <4>2, <4>3
    <3>2. CASE i = n + 1
      <4>1. g[i - 1] = f[n] /\ i # 0 /\ ~(i <= n)
        BY <3>2
      <4> QED BY <3>2, <4>1
    <3> QED BY <3>1, <3>2
  <2>4. g = [i \in 0..n + 1 |-> g[i]]
    OBVIOUS
  <2> HIDE DEF g
  <2>5. KeptUpto(entries, g, n + 1)
    BY <2>3, <2>4 DEF KeptUpto
  <2> QED BY <2>5
<1> HIDE DEF S
<1>3. L \in S
  BY <1>1, <1>2, Upward
<1> QED BY <1>3 DEF S

LEMMA RetainedIsKept ==
    ASSUME NEW entries, Len(entries) \in Nat
    PROVE  \E f : KeptUpto(entries, f, Len(entries)) /\ Retained(entries) = f[Len(entries)]
<1>1. \E f : KeptUpto(entries, f, Len(entries))
  BY KeptExists
<1> DEFINE k == CHOOSE f : KeptUpto(entries, f, Len(entries))
<1>2. KeptUpto(entries, k, Len(entries))
  BY <1>1
<1>3. Retained(entries) = k[Len(entries)]
  BY DEF Retained, KeptUpto
<1> QED BY <1>2, <1>3

(* The first n entries' fresh ones, in order.                              *)
FreshOf(entries, rest, n) ==
    /\ \A x : (\E i \in DOMAIN rest : rest[i] = x) <=> \E p \in 1..n : entries[p] = x /\ Fresh(x)
    /\ \A i, j \in DOMAIN rest : i < j =>
          \E p, q \in 1..n : p < q /\ rest[i] = entries[p] /\ rest[j] = entries[q]

LEMMA RetainedFacts ==
    ASSUME NEW S, NEW entries \in Seq(S)
    PROVE  Retained(entries) \in Seq(S) /\ FreshOf(entries, Retained(entries), Len(entries))
<1> DEFINE L == Len(entries)
<1>1. L \in Nat /\ \A n \in 1..L : entries[n] \in S
  OBVIOUS
<1>2. PICK f : KeptUpto(entries, f, L) /\ Retained(entries) = f[L]
  BY <1>1, RetainedIsKept
<1> HIDE DEF L
<1>3. \A n \in 0..L : f[n] = IF n = 0 THEN <<>>
                             ELSE IF Fresh(entries[n]) THEN Append(f[n - 1], entries[n])
                             ELSE f[n - 1]
  BY <1>1, <1>2 DEF KeptUpto
<1> DEFINE Good(n) == f[n] \in Seq(S) /\ FreshOf(entries, f[n], n)
           T == {n \in 0..L : Good(n)}
<1>4. 0 \in T
  <2>1. f[0] = <<>>
    BY <1>1, <1>3
  <2>2. FreshOf(entries, <<>>, 0) /\ <<>> \in Seq(S) /\ 0 \in 0..L
    BY <1>1 DEF FreshOf
  <2> QED BY <2>1, <2>2
<1>5. ASSUME NEW n \in 0..L, n \in T, n # L PROVE n + 1 \in T
  <2>1. n + 1 \in 1..L /\ entries[n + 1] \in S /\ n + 1 - 1 = n
    BY <1>1, <1>5
  <2>2. f[n + 1] = IF Fresh(entries[n + 1]) THEN Append(f[n], entries[n + 1]) ELSE f[n]
    BY <1>3, <2>1
  <2> DEFINE rest == f[n]
             x == entries[n + 1]
  <2>3. rest \in Seq(S) /\ x \in S
    BY <1>5, <2>1
  <2>4. \A y : (\E i \in DOMAIN rest : rest[i] = y) <=> \E p \in 1..n : entries[p] = y /\ Fresh(y)
    BY <1>5 DEF FreshOf
  <2>5. \A i, j \in DOMAIN rest : i < j =>
           \E p, q \in 1..n : p < q /\ rest[i] = entries[p] /\ rest[j] = entries[q]
    BY <1>5 DEF FreshOf
  <2>6. \A p \in 1..n : p \in 1..n + 1 /\ p < n + 1
    BY <1>1
  <2>7. \A p \in 1..n + 1 : p \in 1..n \/ p = n + 1
    BY <1>1
  <2>8. n + 1 \in 1..n + 1 /\ n + 1 \in 0..L
    BY <1>1, <2>1
  <2> HIDE DEF rest, Good
  <2>9. CASE ~Fresh(x)
    <3>1. f[n + 1] = rest
      BY <2>2, <2>9 DEF rest
    <3>2. FreshOf(entries, rest, n + 1)
      <4>1. ASSUME NEW y
            PROVE  (\E i \in DOMAIN rest : rest[i] = y) <=> \E p \in 1..n + 1 : entries[p] = y /\ Fresh(y)
        BY <2>4, <2>6, <2>7, <2>9
      <4>2. \A i, j \in DOMAIN rest : i < j =>
               \E p, q \in 1..n + 1 : p < q /\ rest[i] = entries[p] /\ rest[j] = entries[q]
        BY <2>5, <2>6
      <4> QED BY <4>1, <4>2 DEF FreshOf
    <3> QED BY <2>3, <2>8, <3>1, <3>2 DEF Good
  <2>10. CASE Fresh(x)
    <3> DEFINE more == Append(rest, x)
    <3>1. f[n + 1] = more
      BY <2>2, <2>10 DEF rest
    <3>2. /\ more \in Seq(S) /\ DOMAIN rest = 1..Len(rest) /\ Len(rest) \in Nat
          /\ DOMAIN more = 1..Len(rest) + 1
          /\ \A i \in 1..Len(rest) : more[i] = rest[i]
          /\ more[Len(rest) + 1] = x
      BY <2>3, AppendFacts
    <3> HIDE DEF more
    <3>3. FreshOf(entries, more, n + 1)
      <4>1. ASSUME NEW y, NEW i \in DOMAIN more, more[i] = y
            PROVE  \E p \in 1..n + 1 : entries[p] = y /\ Fresh(y)
        <5>1. CASE i \in DOMAIN rest
          BY <2>4, <2>6, <3>2, <4>1, <5>1
        <5>2. CASE i = Len(rest) + 1
          BY <2>8, <2>10, <3>2, <4>1, <5>2
        <5> QED BY <3>2, <5>1, <5>2
      <4>2. ASSUME NEW y, NEW p \in 1..n + 1, entries[p] = y, Fresh(y)
            PROVE  \E i \in DOMAIN more : more[i] = y
        <5>1. CASE p \in 1..n
          <6>1. PICK i \in DOMAIN rest : rest[i] = y
            BY <2>4, <4>2, <5>1
          <6>2. i \in DOMAIN more /\ more[i] = y
            BY <3>2, <6>1
          <6> QED BY <6>2
        <5>2. CASE p = n + 1
          <6>1. Len(rest) + 1 \in DOMAIN more /\ more[Len(rest) + 1] = y
            BY <3>2, <4>2, <5>2
          <6> QED BY <6>1
        <5> QED BY <2>7, <5>1, <5>2
      <4>3. ASSUME NEW i \in DOMAIN more, NEW j \in DOMAIN more, i < j
            PROVE  \E p, q \in 1..n + 1 : p < q /\ more[i] = entries[p] /\ more[j] = entries[q]
        <5>1. i \in DOMAIN rest /\ more[i] = rest[i]
          BY <3>2, <4>3
        <5>2. CASE j \in DOMAIN rest
          BY <2>5, <2>6, <3>2, <4>3, <5>1, <5>2
        <5>3. CASE j = Len(rest) + 1
          <6>1. PICK p \in 1..n : entries[p] = rest[i]
            BY <2>4, <5>1
          <6>2. p \in 1..n + 1 /\ p < n + 1 /\ more[j] = entries[n + 1]
            BY <2>6, <3>2, <5>3
          <6> QED BY <2>8, <5>1, <6>1, <6>2
        <5> QED BY <3>2, <5>2, <5>3
      <4> QED BY <4>1, <4>2, <4>3 DEF FreshOf
    <3> QED BY <2>8, <3>1, <3>2, <3>3 DEF Good
  <2> QED BY <2>9, <2>10
<1> HIDE DEF T, Good
<1>6. L \in T
  <2>1. \A n \in 0..L : n \in T /\ n # L => n + 1 \in T
    BY <1>5
  <2>2. L \in Nat /\ L \in 0..L
    BY <1>1
  <2>3. \A n \in 0..L : n \in T
    BY <1>4, <2>1, <2>2, Upward
  <2> QED BY <2>2, <2>3
<1> QED BY <1>2, <1>6 DEF T, Good, L

-----------------------------------------------------------------------------
(* Types, and who waits.                                                   *)

Statuses == {"new", "connecting", "connected", "streaming", "closed"} \cup Leaving

QueueEntries == [msg : Messages, expires : Nat]

HubTypes ==
    /\ now \in Nat
    /\ connections \in [Users -> SUBSET Connections]
    /\ queue \in [Users -> Seq(QueueEntries)]
    /\ status \in [Connections -> Statuses]
    /\ replaying \in [Connections -> Seq(Messages)]
    /\ channel \in [Connections -> Seq(Messages)]
    /\ received \in [Connections -> Seq(Messages)]
    /\ sent \in Seq(Messages)

LEMMA PrunedFacts ==
    ASSUME HubTypes, NEW u \in Users
    PROVE  Pruned(u) \in Seq(QueueEntries) /\ FreshOf(queue[u], Pruned(u), Len(queue[u]))
<1>1. queue[u] \in Seq(QueueEntries)
  BY DEF HubTypes
<1> QED BY <1>1, RetainedFacts DEF Pruned

LEMMA PrunedEmpty ==
    ASSUME HubTypes, NEW u \in Users, queue[u] = <<>>
    PROVE  Pruned(u) = <<>>
<1>1. Pruned(u) \in Seq(QueueEntries) /\ FreshOf(queue[u], Pruned(u), Len(queue[u]))
  BY PrunedFacts
<1>2. \A i \in DOMAIN Pruned(u) : FALSE
  BY <1>1 DEF FreshOf
<1> HIDE DEF Pruned
<1> QED BY <1>1, <1>2

LEMMA PayloadFacts ==
    ASSUME NEW entries \in Seq(QueueEntries)
    PROVE  /\ Payloads(entries) \in Seq(Messages) /\ DOMAIN Payloads(entries) = DOMAIN entries
           /\ \A i \in DOMAIN entries : Payloads(entries)[i] = entries[i].msg
<1>1. DOMAIN entries = 1..Len(entries) /\ Len(entries) \in Nat
  OBVIOUS
<1>2. \A i \in DOMAIN entries : entries[i] \in QueueEntries
  OBVIOUS
<1>3. \A i \in DOMAIN entries : entries[i].msg \in Messages
  BY <1>2 DEF QueueEntries
<1>4. Payloads(entries) \in [1..Len(entries) -> Messages]
  BY <1>1, <1>3 DEF Payloads
<1> QED BY <1>1, <1>4 DEF Payloads

LEMMA InitHubTypes == Init => HubTypes /\ NobodyConnectedWaits
BY DEF Init, HubTypes, Statuses, NobodyConnectedWaits

LEMMA PruneTypes ==
    ASSUME HubTypes, NEW u \in Users, NEW rest \in Seq(QueueEntries), PruneAndSet(u, rest)
    PROVE  queue' \in [Users -> Seq(QueueEntries)]
BY PrunedFacts DEF PruneAndSet

(* Pruning makes nobody wait who did not.                                  *)
LEMMA PruneWaits ==
    ASSUME HubTypes, NobodyConnectedWaits, NEW u \in Users, NEW rest, PruneAndSet(u, rest),
           \A v \in Users : connections'[v] = {} \/ (v # u /\ connections'[v] \subseteq connections[v])
                            \/ (v = u /\ rest = <<>>)
                            \/ (v = u /\ rest = Pruned(u) /\ connections'[v] \subseteq connections[v])
    PROVE  NobodyConnectedWaits'
<1>1. \A v \in Users : queue'[v] = IF v = u THEN rest ELSE Pruned(v)
  BY DEF PruneAndSet
<1>2. ASSUME NEW v \in Users, queue'[v] # <<>> PROVE connections'[v] = {}
  <2>1. CASE Pruned(v) # <<>>
    <3>1. queue[v] # <<>>
      BY <2>1, PrunedEmpty
    <3>2. connections[v] = {}
      BY <3>1 DEF NobodyConnectedWaits
    <3> QED BY <1>1, <1>2, <3>2
  <2>2. CASE Pruned(v) = <<>>
    BY <1>1, <1>2, <2>2
  <2> QED BY <2>1, <2>2
<1> QED BY <1>2 DEF NobodyConnectedWaits

LEMMA ConnectTypes ==
    ASSUME HubTypes, NobodyConnectedWaits, NEW u \in Users, NEW c \in Connections, Connect(u, c)
    PROVE  HubTypes' /\ NobodyConnectedWaits'
<1>1. Pruned(u) \in Seq(QueueEntries) /\ Payloads(Pruned(u)) \in Seq(Messages)
  BY PrunedFacts, PayloadFacts
<1>2. queue' \in [Users -> Seq(QueueEntries)]
  <2>1. <<>> \in Seq(QueueEntries) /\ PruneAndSet(u, <<>>)
    BY DEF Connect
  <2> QED BY <2>1, PruneTypes
<1>3. connections' \in [Users -> SUBSET Connections] /\ \A v \in Users : v # u => connections'[v] = connections[v]
  BY DEF Connect, HubTypes
<1>4. NobodyConnectedWaits'
  BY <1>3, PruneWaits DEF Connect
<1>5. /\ replaying' \in [Connections -> Seq(Messages)] /\ status' \in [Connections -> Statuses]
      /\ UNCHANGED <<now, channel, received, sent>>
  BY <1>1 DEF Connect, HubTypes, Statuses
<1> QED BY <1>2, <1>3, <1>4, <1>5 DEF HubTypes

(* A message joins the queue in the step that finds nobody listening.      *)
LEMMA SendTypes ==
    ASSUME HubTypes, NobodyConnectedWaits, NEW u \in Users, NEW m \in Messages, Send(u, m)
    PROVE  HubTypes' /\ NobodyConnectedWaits'
<1> DEFINE entry == [msg |-> m, expires |-> now + Ttl]
<1>1. Pruned(u) \in Seq(QueueEntries) /\ entry \in QueueEntries
  <2>1. now + Ttl \in Nat
    BY HubAssumption DEF HubTypes
  <2>2. entry \in QueueEntries
    BY <2>1 DEF QueueEntries
  <2> QED BY <2>2, PrunedFacts
<1>2. Append(Pruned(u), entry) \in Seq(QueueEntries)
  BY <1>1
<1>3. /\ connections' \in [Users -> SUBSET Connections]
      /\ connections'[u] = Listening(u) /\ Listening(u) \subseteq connections[u]
      /\ \A v \in Users : v # u => connections'[v] = connections[v]
  BY DEF Send, HubTypes, Listening
<1>4. /\ channel' \in [Connections -> Seq(Messages)] /\ sent' \in Seq(Messages)
      /\ UNCHANGED <<now, status, replaying, received>>
  BY DEF Send, HubTypes
<1>5. queue' \in [Users -> Seq(QueueEntries)] /\ NobodyConnectedWaits'
  <2>1. CASE Listening(u) = {}
    <3>1. PruneAndSet(u, Append(Pruned(u), entry))
      BY <2>1 DEF Send
    <3> HIDE DEF entry
    <3> QED BY <1>2, <1>3, <2>1, <3>1, PruneTypes, PruneWaits
  <2>2. CASE Listening(u) # {}
    <3>1. PICK w \in Users : PruneAndSet(w, Pruned(w))
      BY <2>2 DEF Send, Prune
    <3>2. Pruned(w) \in Seq(QueueEntries)
      BY PrunedFacts
    <3>3. \A v \in Users : connections'[v] \subseteq connections[v]
      BY <1>3
    <3> QED BY <3>1, <3>2, <3>3, PruneTypes, PruneWaits
  <2> QED BY <2>1, <2>2
<1> QED BY <1>3, <1>4, <1>5 DEF HubTypes

LEMMA PruneStepTypes ==
    ASSUME HubTypes, NobodyConnectedWaits, Prune,
           connections' \in [Users -> SUBSET Connections],
           \A v \in Users : connections'[v] \subseteq connections[v]
    PROVE  queue' \in [Users -> Seq(QueueEntries)] /\ NobodyConnectedWaits'
<1>1. PICK w \in Users : PruneAndSet(w, Pruned(w))
  BY DEF Prune
<1>2. Pruned(w) \in Seq(QueueEntries)
  BY PrunedFacts
<1> QED BY <1>1, <1>2, PruneTypes, PruneWaits

LEMMA LeaveTypes ==
    ASSUME HubTypes, NobodyConnectedWaits,
           Cleanup \/ \E c \in Connections : Disconnect(c)
    PROVE  HubTypes' /\ NobodyConnectedWaits'
<1>1. CASE Cleanup
  <2>1. UNCHANGED <<now, connections, status, replaying, channel, received, sent>> /\ Prune
    BY <1>1 DEF Cleanup, streamVars
  <2>2. queue' \in [Users -> Seq(QueueEntries)] /\ NobodyConnectedWaits'
    <3>1. connections' \in [Users -> SUBSET Connections]
      BY <2>1 DEF HubTypes
    <3> QED BY <2>1, <3>1, PruneStepTypes
  <2> QED BY <2>1, <2>2 DEF HubTypes
<1>2. ASSUME NEW c \in Connections, Disconnect(c) PROVE HubTypes' /\ NobodyConnectedWaits'
  <2>1. /\ UNCHANGED <<now, replaying, received, sent>> /\ Prune
        /\ connections' = [connections EXCEPT ![owner[c]] = @ \ {c}]
        /\ status' = [status EXCEPT ![c] = "closed"]
        /\ channel' = [channel EXCEPT ![c] = <<>>]
    BY <1>2 DEF Disconnect, CloseChannel
  <2>2. /\ connections' \in [Users -> SUBSET Connections]
        /\ \A v \in Users : connections'[v] \subseteq connections[v]
    <3>1. \A v \in Users : connections'[v] = IF v = owner[c] THEN connections[v] \ {c} ELSE connections[v]
      BY <2>1 DEF HubTypes
    <3>2. DOMAIN connections' = Users /\ connections' = [v \in Users |-> connections'[v]]
      BY <2>1 DEF HubTypes
    <3>3. \A v \in Users : connections[v] \subseteq Connections
      BY DEF HubTypes
    <3>4. \A v \in Users : connections'[v] \in SUBSET Connections
      BY <3>1, <3>3
    <3> QED BY <3>1, <3>2, <3>4
  <2>4. status' \in [Connections -> Statuses]
    BY <2>1 DEF HubTypes, Statuses
  <2>5. channel' \in [Connections -> Seq(Messages)]
    <3>1. <<>> \in Seq(Messages)
      OBVIOUS
    <3> QED BY <2>1, <3>1 DEF HubTypes
  <2>3. queue' \in [Users -> Seq(QueueEntries)] /\ NobodyConnectedWaits'
    BY <2>1, <2>2, PruneStepTypes
  <2> QED BY <2>1, <2>2, <2>3, <2>4, <2>5 DEF HubTypes
<1> QED BY <1>1, <1>2

LEMMA StreamTypes ==
    ASSUME HubTypes, NobodyConnectedWaits, NEW c \in Connections,
           \/ Replay(c) \/ Connected(c) \/ FirstPoll(c) \/ Poll(c) \/ HangUp(c) \/ DropReceiver(c)
    PROVE  HubTypes' /\ NobodyConnectedWaits'
<1> USE DEF hubVars, HubTypes, NobodyConnectedWaits
<1>0. channel[c] \in Seq(Messages) /\ replaying[c] \in Seq(Messages) /\ received[c] \in Seq(Messages)
  OBVIOUS
<1>1. CASE Replay(c)
  <2>1. /\ Append(channel[c], Head(replaying[c])) \in Seq(Messages)
        /\ Tail(replaying[c]) \in Seq(Messages)
    BY <1>0, <1>1 DEF Replay
  <2> QED BY <1>1, <2>1 DEF Replay, historyVars
<1>2. CASE Connected(c)
  BY <1>2 DEF Connected, historyVars, Statuses
<1>3. CASE FirstPoll(c)
  BY <1>3 DEF FirstPoll, historyVars, Statuses
<1>4. CASE Poll(c)
  <2>1. /\ Append(received[c], Head(channel[c])) \in Seq(Messages)
        /\ Tail(channel[c]) \in Seq(Messages)
    BY <1>0, <1>4 DEF Poll
  <2> QED BY <1>4, <2>1 DEF Poll, historyVars
<1>5. CASE HangUp(c)
  BY <1>5 DEF HangUp, historyVars, Statuses, Leaving
<1>6. CASE DropReceiver(c)
  BY <1>6 DEF DropReceiver, CloseChannel, Statuses, Leaving
<1> QED BY <1>1, <1>2, <1>3, <1>4, <1>5, <1>6

LEMMA NextHubTypes == HubTypes /\ NobodyConnectedWaits /\ [Next]_vars => HubTypes' /\ NobodyConnectedWaits'
<1> SUFFICES ASSUME HubTypes, NobodyConnectedWaits, [Next]_vars
             PROVE  HubTypes' /\ NobodyConnectedWaits'
  OBVIOUS
<1>1. ASSUME NEW u \in Users, NEW c \in Connections, Connect(u, c)
      PROVE  HubTypes' /\ NobodyConnectedWaits'
  BY <1>1, ConnectTypes
<1>2. ASSUME NEW u \in Users, NEW m \in Messages, Send(u, m)
      PROVE  HubTypes' /\ NobodyConnectedWaits'
  BY <1>2, SendTypes
<1>3. ASSUME NEW c \in Connections, Stream(c) \/ HangUp(c)
      PROVE  HubTypes' /\ NobodyConnectedWaits'
  BY <1>3, StreamTypes, LeaveTypes DEF Stream
<1>4. CASE Cleanup
  BY <1>4, LeaveTypes
<1>5. CASE Tick \/ UNCHANGED vars
  BY <1>5 DEF Tick, vars, hubVars, streamVars, historyVars, HubTypes, NobodyConnectedWaits
<1> QED BY <1>1, <1>2, <1>3, <1>4, <1>5 DEF Next

(* Whoever is connected has nothing waiting in their queue (hub.rs:89-106, *)
(* 150-194), for any users, connections, messages and time to live.        *)
THEOREM NobodyConnectedIsKeptWaiting == Spec => []NobodyConnectedWaits
<1>1. Init => HubTypes /\ NobodyConnectedWaits
  BY InitHubTypes
<1>2. HubTypes /\ NobodyConnectedWaits /\ [Next]_vars => (HubTypes /\ NobodyConnectedWaits)'
  BY NextHubTypes
<1> QED BY <1>1, <1>2, PTL DEF Spec

-----------------------------------------------------------------------------
(* Lines: what a connection has yielded, has in its channel and has still  *)
(* to replay, in this order.  No message is twice in a line, and one may   *)
(* come before another that was sent earlier only if the later one went    *)
(* straight to the channel and the earlier one came from the queue.        *)

MayPrecede(n, m, order, held) ==
    n # m /\ (Before(m, n, order) => m \in held /\ n \notin held)

Within(line, order, held) ==
    \A i, j \in DOMAIN line : i < j => MayPrecede(line[i], line[j], order, held)

Across(line, rest, order, held) ==
    \A i \in DOMAIN line, j \in DOMAIN rest : MayPrecede(line[i], rest[j], order, held)

(* got, chan and todo: a connection's received, channel and replaying.     *)
Line(got, chan, todo, order, held) ==
    /\ Within(got, order, held) /\ Within(chan, order, held) /\ Within(todo, order, held)
    /\ Across(got, chan, order, held) /\ Across(got, todo, order, held)
    /\ Across(chan, todo, order, held)
    /\ Range(got) \cup Range(chan) \cup Range(todo) \subseteq Range(order)
    /\ Range(todo) \subseteq held

LEMMA AppendMember ==
    ASSUME NEW S, NEW seq \in Seq(S), NEW m \in S
    PROVE  Range(Append(seq, m)) = Range(seq) \cup {m}
<1> DEFINE more == Append(seq, m)
<1>1. /\ \A i \in 1..Len(seq) : more[i] = seq[i]
      /\ more[Len(seq) + 1] = m /\ DOMAIN more = 1..Len(seq) + 1
      /\ DOMAIN seq = 1..Len(seq) /\ Len(seq) \in Nat
  BY AppendFacts
<1> HIDE DEF more
<1>2. Range(seq) \cup {m} \subseteq Range(more)
  BY <1>1 DEF Range
<1>3. Range(more) \subseteq Range(seq) \cup {m}
  <2>1. \A i \in DOMAIN more : i \in 1..Len(seq) \/ i = Len(seq) + 1
    BY <1>1
  <2> QED BY <1>1, <2>1 DEF Range
<1> QED BY <1>2, <1>3 DEF more

LEMMA HeadTailMember ==
    ASSUME NEW S, NEW seq \in Seq(S), seq # <<>>
    PROVE  Range(seq) = {Head(seq)} \cup Range(Tail(seq))
<1> DEFINE rest == Tail(seq)
<1>1. /\ Len(seq) \in Nat /\ Len(seq) > 0 /\ DOMAIN rest = 1..Len(seq) - 1
      /\ \A i \in 1..Len(seq) - 1 : rest[i] = seq[i + 1]
      /\ Head(seq) = seq[1] /\ DOMAIN seq = 1..Len(seq)
  BY TailFacts
<1> HIDE DEF rest
<1>2. {Head(seq)} \cup Range(rest) \subseteq Range(seq)
  <2>1. 1 \in DOMAIN seq /\ \A i \in DOMAIN rest : i + 1 \in DOMAIN seq
    BY <1>1
  <2> QED BY <1>1, <2>1 DEF Range
<1>3. Range(seq) \subseteq {Head(seq)} \cup Range(rest)
  <2>1. \A i \in DOMAIN seq : i = 1 \/ (i - 1 \in DOMAIN rest /\ i - 1 + 1 = i)
    BY <1>1
  <2> QED BY <1>1, <2>1 DEF Range
<1> QED BY <1>2, <1>3 DEF rest

(* What follows may also follow at the end.                                *)
LEMMA AppendWithin ==
    ASSUME NEW S, NEW line \in Seq(S), NEW m \in S, NEW order, NEW held,
           Within(line, order, held),
           \A i \in DOMAIN line : MayPrecede(line[i], m, order, held)
    PROVE  Within(Append(line, m), order, held)
<1> DEFINE more == Append(line, m)
<1>1. /\ \A i \in 1..Len(line) : more[i] = line[i]
      /\ more[Len(line) + 1] = m /\ DOMAIN more = 1..Len(line) + 1
      /\ DOMAIN line = 1..Len(line) /\ Len(line) \in Nat
  BY AppendFacts
<1> HIDE DEF more
<1>2. ASSUME NEW i \in DOMAIN more, NEW j \in DOMAIN more, i < j
      PROVE  MayPrecede(more[i], more[j], order, held)
  <2>1. i \in 1..Len(line) /\ (j \in 1..Len(line) \/ j = Len(line) + 1)
    BY <1>1, <1>2
  <2> QED BY <1>1, <1>2, <2>1 DEF Within
<1> QED BY <1>2 DEF Within, more

LEMMA TailWithin ==
    ASSUME NEW S, NEW line \in Seq(S), line # <<>>, NEW order, NEW held,
           Within(line, order, held)
    PROVE  /\ Within(Tail(line), order, held)
           /\ \A j \in DOMAIN Tail(line) : MayPrecede(Head(line), Tail(line)[j], order, held)
<1> DEFINE rest == Tail(line)
<1>1. /\ Len(line) \in Nat /\ Len(line) > 0 /\ DOMAIN rest = 1..Len(line) - 1
      /\ \A i \in 1..Len(line) - 1 : rest[i] = line[i + 1]
      /\ Head(line) = line[1] /\ DOMAIN line = 1..Len(line)
  BY TailFacts
<1> HIDE DEF rest
<1>2. \A i \in DOMAIN rest : i + 1 \in DOMAIN line /\ 1 < i + 1 /\ 1 \in DOMAIN line
  BY <1>1
<1>3. Within(rest, order, held)
  <2>1. \A i, j \in DOMAIN rest : i < j => i + 1 < j + 1
    BY <1>1
  <2> QED BY <1>1, <1>2, <2>1 DEF Within
<1>4. \A j \in DOMAIN rest : MayPrecede(Head(line), rest[j], order, held)
  BY <1>1, <1>2 DEF Within
<1> QED BY <1>3, <1>4 DEF rest

(* Pointwise forms of Across.                                              *)
LEMMA AcrossRange ==
    ASSUME NEW line, NEW rest, NEW order, NEW held
    PROVE  Across(line, rest, order, held)
               <=> \A n \in Range(line), m \in Range(rest) : MayPrecede(n, m, order, held)
BY DEF Across, Range

(* One turn of the replay loop.                                            *)
LEMMA ReplayLine ==
    ASSUME NEW S, NEW got \in Seq(S), NEW chan \in Seq(S), NEW todo \in Seq(S), todo # <<>>,
           NEW order, NEW held, Line(got, chan, todo, order, held)
    PROVE  Line(got, Append(chan, Head(todo)), Tail(todo), order, held)
<1> DEFINE m == Head(todo)
           more == Append(chan, m)
           rest == Tail(todo)
<1>1. m \in S /\ Range(todo) = {m} \cup Range(rest) /\ Range(more) = Range(chan) \cup {m}
  BY TailFacts, HeadTailMember, AppendMember
<1>2. Within(rest, order, held) /\ \A j \in DOMAIN rest : MayPrecede(m, rest[j], order, held)
  BY TailWithin DEF Line
<1>3. \A x \in Range(rest) : MayPrecede(m, x, order, held)
  BY <1>2 DEF Range
<1>4. /\ \A n \in Range(got), x \in Range(chan) : MayPrecede(n, x, order, held)
      /\ \A n \in Range(got), x \in Range(todo) : MayPrecede(n, x, order, held)
      /\ \A n \in Range(chan), x \in Range(todo) : MayPrecede(n, x, order, held)
  BY AcrossRange DEF Line
<1>5. \A i \in DOMAIN chan : MayPrecede(chan[i], m, order, held)
  BY <1>1, <1>4 DEF Range
<1>6. Within(more, order, held)
  BY <1>1, <1>5, AppendWithin DEF Line
<1> HIDE DEF m, more, rest
<1>7. /\ Across(got, more, order, held) /\ Across(got, rest, order, held)
      /\ Across(more, rest, order, held)
  BY <1>1, <1>3, <1>4, AcrossRange
<1>8. Line(got, more, rest, order, held)
  BY <1>1, <1>2, <1>6, <1>7 DEF Line
<1> QED BY <1>8 DEF m, more, rest

(* One turn of the stream.                                                 *)
LEMMA PollLine ==
    ASSUME NEW S, NEW got \in Seq(S), NEW chan \in Seq(S), NEW todo \in Seq(S), chan # <<>>,
           NEW order, NEW held, Line(got, chan, todo, order, held)
    PROVE  Line(Append(got, Head(chan)), Tail(chan), todo, order, held)
<1> DEFINE m == Head(chan)
           more == Append(got, m)
           rest == Tail(chan)
<1>1. m \in S /\ Range(chan) = {m} \cup Range(rest) /\ Range(more) = Range(got) \cup {m}
  BY TailFacts, HeadTailMember, AppendMember
<1>2. Within(rest, order, held) /\ \A j \in DOMAIN rest : MayPrecede(m, rest[j], order, held)
  BY TailWithin DEF Line
<1>3. \A x \in Range(rest) : MayPrecede(m, x, order, held)
  BY <1>2 DEF Range
<1>4. /\ \A n \in Range(got), x \in Range(chan) : MayPrecede(n, x, order, held)
      /\ \A n \in Range(got), x \in Range(todo) : MayPrecede(n, x, order, held)
      /\ \A n \in Range(chan), x \in Range(todo) : MayPrecede(n, x, order, held)
  BY AcrossRange DEF Line
<1>5. \A i \in DOMAIN got : MayPrecede(got[i], m, order, held)
  BY <1>1, <1>4 DEF Range
<1>6. Within(more, order, held)
  BY <1>1, <1>5, AppendWithin DEF Line
<1> HIDE DEF m, more, rest
<1>7. /\ Across(more, rest, order, held) /\ Across(more, todo, order, held)
      /\ Across(rest, todo, order, held)
  BY <1>1, <1>3, <1>4, AcrossRange
<1>8. Line(more, rest, todo, order, held)
  BY <1>1, <1>2, <1>6, <1>7 DEF Line
<1> QED BY <1>8 DEF m, more, rest

(* A receiver that is dropped with what its channel holds.                 *)
LEMMA DropLine ==
    ASSUME NEW got, NEW chan, NEW todo, NEW order, NEW held, Line(got, chan, todo, order, held)
    PROVE  Line(got, <<>>, todo, order, held)
BY DEF Line, Within, Across, Range

(* A message that is sent changes nothing between those sent before it,    *)
(* and may come after each of them.                                        *)
LEMMA SentBefore ==
    ASSUME NEW S, NEW order \in Seq(S), NEW k \in S, k \notin Range(order),
           NEW held, held \subseteq Range(order), NEW more \in {held, held \cup {k}},
           NEW n \in Range(order)
    PROVE  /\ MayPrecede(n, k, Append(order, k), more)
           /\ \A m \in Range(order) : MayPrecede(n, m, order, held)
                                          => MayPrecede(n, m, Append(order, k), more)
<1> DEFINE longer == Append(order, k)
<1>1. /\ \A i \in 1..Len(order) : longer[i] = order[i]
      /\ longer[Len(order) + 1] = k /\ DOMAIN longer = 1..Len(order) + 1
      /\ DOMAIN order = 1..Len(order) /\ Len(order) \in Nat
  BY AppendFacts
<1> HIDE DEF longer
<1>2. \A i \in DOMAIN longer : (i \in DOMAIN order /\ longer[i] = order[i]) \/ (i = Len(order) + 1 /\ longer[i] = k)
  BY <1>1
<1>3. \A i \in DOMAIN order : order[i] \in Range(order)
  BY DEF Range
<1>4. ~Before(k, n, longer)
  <2>1. SUFFICES ASSUME NEW i \in DOMAIN longer, NEW j \in DOMAIN longer, i < j, longer[i] = k
                 PROVE  FALSE
    BY DEF Before
  <2>2. i \in DOMAIN order
    BY <1>1, <2>1
  <2> QED BY <1>1, <1>3, <2>1, <2>2
<1>5. \A m \in Range(order) : Before(m, n, longer) => Before(m, n, order)
  BY <1>2 DEF Before
<1>6. \A m \in Range(order) : m # k /\ (m \in held <=> m \in more)
  OBVIOUS
<1> QED BY <1>4, <1>5, <1>6 DEF MayPrecede, longer

(* The lines of a connection that a send does not reach stay lines, and    *)
(* what a send puts behind a channel may overtake what is still to be      *)
(* replayed.                                                               *)
LEMMA SentLine ==
    ASSUME NEW S, NEW order \in Seq(S), NEW k \in S, k \notin Range(order),
           NEW held, held \subseteq Range(order), NEW more \in {held, held \cup {k}},
           NEW got, NEW chan, NEW todo, Line(got, chan, todo, order, held)
    PROVE  Line(got, chan, todo, Append(order, k), more)
<1> DEFINE longer == Append(order, k)
<1>1. \A n, m \in Range(order) : MayPrecede(n, m, order, held) => MayPrecede(n, m, longer, more)
  BY SentBefore
<1>2. Range(order) \subseteq Range(longer)
  BY AppendMember
<1>3. /\ \A i \in DOMAIN got : got[i] \in Range(order)
      /\ \A i \in DOMAIN chan : chan[i] \in Range(order)
      /\ \A i \in DOMAIN todo : todo[i] \in Range(order)
  BY DEF Line, Range
<1> HIDE DEF longer
<1>4. Within(got, longer, more) /\ Within(chan, longer, more) /\ Within(todo, longer, more)
  BY <1>1, <1>3 DEF Line, Within
<1>5. Across(got, chan, longer, more) /\ Across(got, todo, longer, more) /\ Across(chan, todo, longer, more)
  BY <1>1, <1>3 DEF Line, Across
<1>6. Range(todo) \subseteq more /\ Range(got) \cup Range(chan) \cup Range(todo) \subseteq Range(longer)
  BY <1>2 DEF Line
<1>7. Line(got, chan, todo, longer, more)
  BY <1>4, <1>5, <1>6 DEF Line
<1> QED BY <1>7 DEF longer

LEMMA ReachedLine ==
    ASSUME NEW S, NEW order \in Seq(S), NEW k \in S, k \notin Range(order),
           NEW held, held \subseteq Range(order),
           NEW got, NEW chan \in Seq(S), NEW todo, Line(got, chan, todo, order, held)
    PROVE  Line(got, Append(chan, k), todo, Append(order, k), held)
<1> DEFINE longer == Append(order, k)
           more == Append(chan, k)
<1>1. \A n \in Range(order) : MayPrecede(n, k, longer, held)
  BY SentBefore
<1>2. Line(got, chan, todo, longer, held)
  BY SentLine
<1>3. Range(more) = Range(chan) \cup {k} /\ Range(longer) = Range(order) \cup {k}
  BY AppendMember
<1>4. \A x \in Range(todo) : MayPrecede(k, x, longer, held)
  BY DEF Line, MayPrecede
<1>5. \A i \in DOMAIN chan : MayPrecede(chan[i], k, longer, held)
  BY <1>1 DEF Line, Range
<1> HIDE DEF longer
<1>6. Within(more, longer, held)
  BY <1>2, <1>5, AppendWithin DEF Line
<1> HIDE DEF more
<1>7. Across(got, more, longer, held)
  <2>1. \A n \in Range(got), x \in Range(chan) : MayPrecede(n, x, longer, held)
    BY <1>2, AcrossRange DEF Line
  <2>2. \A n \in Range(got) : MayPrecede(n, k, longer, held)
    BY <1>1 DEF Line
  <2> QED BY <1>3, <2>1, <2>2, AcrossRange
<1>8. Across(more, todo, longer, held)
  <2>1. \A n \in Range(chan), x \in Range(todo) : MayPrecede(n, x, longer, held)
    BY <1>2, AcrossRange DEF Line
  <2> QED BY <1>3, <1>4, <2>1, AcrossRange
<1>9. Line(got, more, todo, longer, held)
  BY <1>2, <1>3, <1>6, <1>7, <1>8 DEF Line
<1> QED BY <1>9 DEF longer, more

(* A queue: its payloads are a line of stored messages.                    *)
QueueLine(entries, order, held) ==
    /\ \A i, j \in DOMAIN entries : i < j => MayPrecede(entries[i].msg, entries[j].msg, order, held)
    /\ \A i \in DOMAIN entries : entries[i].msg \in held

LEMMA PrunedLine ==
    ASSUME HubTypes, NEW u \in Users, NEW order, NEW held, QueueLine(queue[u], order, held)
    PROVE  QueueLine(Pruned(u), order, held)
<1> DEFINE rest == Pruned(u)
           entries == queue[u]
<1>1. rest \in Seq(QueueEntries) /\ FreshOf(entries, rest, Len(entries)) /\ entries \in Seq(QueueEntries)
  BY PrunedFacts DEF HubTypes
<1>2. DOMAIN entries = 1..Len(entries)
  BY <1>1
<1> HIDE DEF rest, entries
<1>3. ASSUME NEW i \in DOMAIN rest, NEW j \in DOMAIN rest, i < j
      PROVE  MayPrecede(rest[i].msg, rest[j].msg, order, held)
  <2>1. PICK p \in 1..Len(entries), q \in 1..Len(entries) :
              p < q /\ rest[i] = entries[p] /\ rest[j] = entries[q]
    BY <1>1, <1>3 DEF FreshOf
  <2> QED BY <1>2, <2>1 DEF QueueLine, entries
<1>4. ASSUME NEW i \in DOMAIN rest PROVE rest[i].msg \in held
  <2>1. PICK p \in 1..Len(entries) : entries[p] = rest[i]
    BY <1>1 DEF FreshOf
  <2> QED BY <1>2, <2>1 DEF QueueLine, entries
<1> QED BY <1>3, <1>4 DEF QueueLine, rest

LEMMA SentQueueLine ==
    ASSUME NEW S, NEW order \in Seq(S), NEW k \in S, k \notin Range(order),
           NEW held, held \subseteq Range(order), NEW more \in {held, held \cup {k}},
           NEW entries, QueueLine(entries, order, held)
    PROVE  QueueLine(entries, Append(order, k), more)
<1>1. \A n, m \in Range(order) : MayPrecede(n, m, order, held) => MayPrecede(n, m, Append(order, k), more)
  BY SentBefore
<1> QED BY <1>1 DEF QueueLine

LEMMA QueuedLine ==
    ASSUME NEW order \in Seq(Messages), NEW k \in Messages, k \notin Range(order),
           NEW held, held \subseteq Range(order),
           NEW entries \in Seq(QueueEntries), QueueLine(entries, order, held),
           NEW entry \in QueueEntries, entry.msg = k
    PROVE  QueueLine(Append(entries, entry), Append(order, k), held \cup {k})
<1> DEFINE longer == Append(order, k)
           more == Append(entries, entry)
           have == held \cup {k}
<1>1. \A n \in Range(order) : MayPrecede(n, k, longer, have)
  BY SentBefore
<1>2. QueueLine(entries, longer, have)
  BY SentQueueLine
<1>3. /\ \A i \in 1..Len(entries) : more[i] = entries[i]
      /\ more[Len(entries) + 1] = entry /\ DOMAIN more = 1..Len(entries) + 1
      /\ DOMAIN entries = 1..Len(entries) /\ Len(entries) \in Nat
  BY AppendFacts
<1> HIDE DEF longer, more
<1>4. ASSUME NEW i \in DOMAIN more, NEW j \in DOMAIN more, i < j
      PROVE  MayPrecede(more[i].msg, more[j].msg, longer, have)
  <2>1. i \in DOMAIN entries /\ (j \in DOMAIN entries \/ j = Len(entries) + 1)
    BY <1>3, <1>4
  <2>2. more[i] = entries[i] /\ entries[i].msg \in Range(order)
    BY <1>3, <2>1 DEF QueueLine
  <2>3. CASE j \in DOMAIN entries
    BY <1>2, <1>3, <1>4, <2>1, <2>3 DEF QueueLine
  <2>4. CASE j = Len(entries) + 1
    BY <1>1, <1>3, <2>2, <2>4
  <2> QED BY <2>1, <2>3, <2>4
<1>5. \A i \in DOMAIN more : more[i].msg \in have
  <2>1. \A i \in DOMAIN more : i \in DOMAIN entries \/ i = Len(entries) + 1
    BY <1>3
  <2> QED BY <1>2, <1>3, <2>1 DEF QueueLine
<1> HIDE DEF have
<1>6. QueueLine(more, longer, have)
  BY <1>4, <1>5 DEF QueueLine
<1> QED BY <1>6 DEF longer, more, have

(* connect takes a queue: its payloads are the whole line of the new one.  *)
LEMMA TakenLine ==
    ASSUME NEW order, NEW held, held \subseteq Range(order),
           NEW entries \in Seq(QueueEntries), QueueLine(entries, order, held)
    PROVE  Line(<<>>, <<>>, Payloads(entries), order, held)
<1> DEFINE todo == Payloads(entries)
<1>1. DOMAIN todo = DOMAIN entries /\ \A i \in DOMAIN entries : todo[i] = entries[i].msg
  BY PayloadFacts
<1> HIDE DEF todo
<1>2. Within(todo, order, held)
  BY <1>1 DEF QueueLine, Within
<1>3. Range(todo) \subseteq held
  BY <1>1 DEF QueueLine, Range
<1>4. Line(<<>>, <<>>, todo, order, held)
  BY <1>2, <1>3 DEF Line, Within, Across, Range
<1> QED BY <1>4 DEF todo

(* What the order rests on: every queue and every connection is a line, a  *)
(* connection not yet made holds nothing and is registered nowhere, and    *)
(* nothing is sent to a receiver that is gone.                             *)
Unmade(c) ==
    /\ received[c] = <<>> /\ channel[c] = <<>> /\ replaying[c] = <<>>
    /\ \A u \in Users : c \notin connections[u]

Lines ==
    /\ stored \subseteq Range(sent)
    /\ \A u \in Users : QueueLine(queue[u], sent, stored)
    /\ \A c \in Connections :
          /\ Line(received[c], channel[c], replaying[c], sent, stored)
          /\ status[c] = "new" => Unmade(c)
          /\ status[c] = "deaf" => channel[c] = <<>>

LEMMA InitLines == Init => Lines
<1> SUFFICES ASSUME Init PROVE Lines
  OBVIOUS
<1>1. stored \subseteq Range(sent) /\ \A u \in Users : QueueLine(queue[u], sent, stored)
  BY DEF Init, QueueLine
<1>2. ASSUME NEW c \in Connections PROVE Line(received[c], channel[c], replaying[c], sent, stored) /\ Unmade(c)
  BY DEF Init, Line, Within, Across, Range, Unmade
<1>3. \A c \in Connections : status[c] # "deaf"
  BY DEF Init
<1> QED BY <1>1, <1>2, <1>3 DEF Lines

(* What a step of the hub does to the queues, all of them pruned but for   *)
(* that of u, which becomes rest.                                          *)
LEMMA QueueLines ==
    ASSUME HubTypes, NEW order, NEW held, \A v \in Users : QueueLine(Pruned(v), order, held),
           NEW u \in Users, NEW rest, QueueLine(rest, order, held), PruneAndSet(u, rest)
    PROVE  \A v \in Users : QueueLine(queue'[v], order, held)
<1>1. \A v \in Users : queue'[v] = IF v = u THEN rest ELSE Pruned(v)
  BY DEF PruneAndSet
<1> QED BY <1>1

LEMMA StillLines ==
    ASSUME HubTypes, Lines, Prune
    PROVE  \A v \in Users : QueueLine(queue'[v], sent, stored)
<1>1. PICK w \in Users : PruneAndSet(w, Pruned(w))
  BY DEF Prune
<1>2. \A v \in Users : QueueLine(Pruned(v), sent, stored)
  BY PrunedLine DEF Lines
<1> QED BY <1>1, <1>2, QueueLines

LEMMA ConnectLines ==
    ASSUME HubTypes, Lines, NEW u \in Users, NEW c \in Connections, Connect(u, c)
    PROVE  Lines'
<1>1. /\ status[c] = "new" /\ UNCHANGED <<channel, received, sent, stored>>
      /\ replaying' = [replaying EXCEPT ![c] = Payloads(Pruned(u))]
      /\ status' = [status EXCEPT ![c] = "connecting"]
      /\ connections' = [connections EXCEPT ![u] = @ \cup {c}]
      /\ PruneAndSet(u, <<>>)
  BY DEF Connect
<1>2. /\ replaying'[c] = Payloads(Pruned(u)) /\ status'[c] = "connecting"
      /\ \A d \in Connections : d # c => replaying'[d] = replaying[d] /\ status'[d] = status[d]
      /\ \A v \in Users : connections'[v] \subseteq connections[v] \cup {c}
  BY <1>1 DEF HubTypes
<1>3. \A v \in Users : QueueLine(Pruned(v), sent, stored)
  BY PrunedLine DEF Lines
<1>4. \A v \in Users : QueueLine(queue'[v], sent, stored)
  <2>1. QueueLine(<<>>, sent, stored)
    BY DEF QueueLine
  <2> QED BY <1>1, <1>3, <2>1, QueueLines
<1>5. Line(<<>>, <<>>, Payloads(Pruned(u)), sent, stored)
  BY <1>3, PrunedFacts, TakenLine DEF Lines
<1>6. received[c] = <<>> /\ channel[c] = <<>>
  BY <1>1 DEF Lines, Unmade
<1>7. ASSUME NEW d \in Connections
      PROVE  /\ Line(received'[d], channel'[d], replaying'[d], sent', stored')
             /\ status'[d] = "new" => Unmade(d)'
             /\ status'[d] = "deaf" => channel'[d] = <<>>
  <2>1. CASE d = c
    BY <1>1, <1>2, <1>5, <1>6, <2>1
  <2>2. CASE d # c
    BY <1>1, <1>2, <2>2 DEF Lines, Unmade
  <2> QED BY <2>1, <2>2
<1> QED BY <1>1, <1>4, <1>7 DEF Lines

LEMMA SendLines ==
    ASSUME HubTypes, Lines, NEW u \in Users, NEW m \in Messages, Send(u, m)
    PROVE  Lines'
<1> DEFINE entry == [msg |-> m, expires |-> now + Ttl]
<1>1. /\ m \notin Range(sent) /\ sent' = Append(sent, m) /\ sent \in Seq(Messages)
      /\ UNCHANGED <<status, replaying, received>>
      /\ \A c \in Connections : channel'[c] = IF c \in Listening(u) THEN Append(channel[c], m) ELSE channel[c]
      /\ \A v \in Users : connections'[v] \subseteq connections[v]
  BY DEF Send, HubTypes, Listening
<1>2. entry \in QueueEntries /\ entry.msg = m
  <2>1. now + Ttl \in Nat
    BY HubAssumption DEF HubTypes
  <2> QED BY <2>1 DEF QueueEntries
<1>3. \/ /\ Listening(u) = {} /\ stored' = stored \cup {m}
         /\ PruneAndSet(u, Append(Pruned(u), entry))
      \/ Prune /\ stored' = stored
  BY DEF Send
<1> HIDE DEF entry
<1>4. /\ \A v \in Users : QueueLine(Pruned(v), sent, stored) /\ Pruned(v) \in Seq(QueueEntries)
      /\ stored \subseteq Range(sent) /\ Range(sent') = Range(sent) \cup {m}
  BY <1>1, PrunedLine, PrunedFacts, AppendMember DEF Lines
<1>5. stored' \in {stored, stored \cup {m}} /\ stored' \subseteq Range(sent')
  BY <1>3, <1>4
<1>6. \A v \in Users : QueueLine(Pruned(v), sent', stored')
  <2>1. \A v \in Users : QueueLine(Pruned(v), Append(sent, m), stored')
    BY <1>1, <1>4, <1>5, SentQueueLine
  <2> QED BY <1>1, <2>1
<1>7. \A v \in Users : QueueLine(queue'[v], sent', stored')
  <2>1. CASE stored' = stored \cup {m} /\ PruneAndSet(u, Append(Pruned(u), entry))
    <3>1. QueueLine(Append(Pruned(u), entry), sent', stored')
      BY <1>1, <1>2, <1>4, <2>1, QueuedLine
    <3> QED BY <1>6, <2>1, <3>1, QueueLines
  <2>2. CASE Prune
    <3>1. PICK w \in Users : PruneAndSet(w, Pruned(w))
      BY <2>2 DEF Prune
    <3> QED BY <1>6, <3>1, QueueLines
  <2> QED BY <1>3, <2>1, <2>2
<1>8. ASSUME NEW c \in Connections
      PROVE  /\ Line(received'[c], channel'[c], replaying'[c], sent', stored')
             /\ status'[c] = "new" => Unmade(c)'
             /\ status'[c] = "deaf" => channel'[c] = <<>>
  <2>0. /\ channel[c] \in Seq(Messages) /\ Line(received[c], channel[c], replaying[c], sent, stored)
        /\ received'[c] = received[c] /\ replaying'[c] = replaying[c]
    BY <1>1 DEF HubTypes, Lines
  <2>1. CASE c \in Listening(u)
    <3>1. stored' = stored /\ channel'[c] = Append(channel[c], m)
      BY <1>1, <1>3, <2>1
    <3>2. Line(received[c], Append(channel[c], m), replaying[c], Append(sent, m), stored)
      BY <1>1, <1>4, <2>0, ReachedLine
    <3>3. status[c] # "new" /\ status[c] # "deaf"
      BY <2>1 DEF Listening, Lines, Unmade
    <3> QED BY <1>1, <2>0, <3>1, <3>2, <3>3
  <2>2. CASE c \notin Listening(u)
    <3>1. channel'[c] = channel[c]
      BY <1>1, <2>2
    <3>2. Line(received[c], channel[c], replaying[c], Append(sent, m), stored')
      BY <1>1, <1>4, <1>5, <2>0, SentLine
    <3>3. /\ status[c] = "new" => Unmade(c)
          /\ status[c] = "deaf" => channel[c] = <<>>
      BY DEF Lines
    <3> QED BY <1>1, <2>0, <3>1, <3>2, <3>3 DEF Unmade
  <2> QED BY <2>1, <2>2
<1> QED BY <1>5, <1>7, <1>8 DEF Lines

(* A step of one connection, whose line stays one, that makes no new ones. *)
LEMMA OneLine ==
    ASSUME HubTypes, Lines, NEW c \in Connections, UNCHANGED <<sent, stored>>,
           \A v \in Users : QueueLine(queue'[v], sent, stored),
           \A v \in Users : connections'[v] \subseteq connections[v],
           \A d \in Connections : d # c =>
               /\ received'[d] = received[d] /\ channel'[d] = channel[d]
               /\ replaying'[d] = replaying[d] /\ status'[d] = status[d],
           Line(received'[c], channel'[c], replaying'[c], sent, stored),
           status'[c] # "new", status'[c] = "deaf" => channel'[c] = <<>>
    PROVE  Lines'
<1>1. ASSUME NEW d \in Connections
      PROVE  /\ Line(received'[d], channel'[d], replaying'[d], sent', stored')
             /\ status'[d] = "new" => Unmade(d)'
             /\ status'[d] = "deaf" => channel'[d] = <<>>
  <2>1. CASE d = c
    BY <2>1
  <2>2. CASE d # c
    BY <2>2 DEF Lines, Unmade
  <2> QED BY <2>1, <2>2
<1>2. stored' \subseteq Range(sent') /\ \A v \in Users : QueueLine(queue'[v], sent', stored')
  BY DEF Lines
<1> QED BY <1>1, <1>2 DEF Lines

LEMMA LeaveLines ==
    ASSUME HubTypes, Lines, NEW c \in Connections, Disconnect(c)
    PROVE  Lines'
<1>1. /\ Prune /\ UNCHANGED <<replaying, received, sent, stored>> /\ status[c] \in Leaving
      /\ connections' = [connections EXCEPT ![owner[c]] = @ \ {c}]
      /\ status' = [status EXCEPT ![c] = "closed"]
      /\ channel' = [channel EXCEPT ![c] = <<>>]
  BY DEF Disconnect, CloseChannel
<1>2. \A v \in Users : connections'[v] \subseteq connections[v]
  BY <1>1 DEF HubTypes
<1>3. \A v \in Users : QueueLine(queue'[v], sent, stored)
  BY <1>1, StillLines
<1>4. /\ channel'[c] = <<>> /\ status'[c] = "closed"
      /\ \A d \in Connections : d # c => channel'[d] = channel[d] /\ status'[d] = status[d]
  BY <1>1 DEF HubTypes
<1>5. Line(received[c], <<>>, replaying[c], sent, stored)
  BY DropLine DEF Lines
<1> QED BY <1>1, <1>2, <1>3, <1>4, <1>5, OneLine

LEMMA StreamLines ==
    ASSUME HubTypes, Lines, NEW c \in Connections,
           \/ Replay(c) \/ Connected(c) \/ FirstPoll(c) \/ Poll(c) \/ HangUp(c) \/ DropReceiver(c)
    PROVE  Lines'
<1>0. /\ channel[c] \in Seq(Messages) /\ replaying[c] \in Seq(Messages) /\ received[c] \in Seq(Messages)
      /\ Line(received[c], channel[c], replaying[c], sent, stored)
      /\ \A v \in Users : QueueLine(queue[v], sent, stored)
      /\ status[c] = "deaf" => channel[c] = <<>>
  BY DEF HubTypes, Lines
<1>1. CASE Replay(c)
  <2>1. /\ replaying[c] # <<>> /\ UNCHANGED <<hubVars, status, received, sent, stored>>
        /\ status[c] = "connecting"
        /\ channel'[c] = Append(channel[c], Head(replaying[c])) /\ replaying'[c] = Tail(replaying[c])
        /\ \A d \in Connections : d # c => channel'[d] = channel[d] /\ replaying'[d] = replaying[d]
    BY <1>1 DEF Replay, HubTypes, historyVars
  <2>2. Line(received[c], Append(channel[c], Head(replaying[c])), Tail(replaying[c]), sent, stored)
    BY <1>0, <2>1, ReplayLine
  <2> QED BY <1>0, <2>1, <2>2, OneLine DEF hubVars
<1>2. CASE Connected(c) \/ FirstPoll(c) \/ HangUp(c)
  <2>1. /\ UNCHANGED <<hubVars, replaying, channel, received, sent, stored>>
        /\ status'[c] \notin {"new", "deaf"}
        /\ \A d \in Connections : d # c => status'[d] = status[d]
    BY <1>2 DEF Connected, FirstPoll, HangUp, HubTypes, historyVars
  <2> QED BY <1>0, <2>1, OneLine DEF hubVars
<1>3. CASE Poll(c)
  <2>1. /\ channel[c] # <<>> /\ UNCHANGED <<hubVars, status, replaying, sent, stored>>
        /\ status[c] = "streaming"
        /\ received'[c] = Append(received[c], Head(channel[c])) /\ channel'[c] = Tail(channel[c])
        /\ \A d \in Connections : d # c => channel'[d] = channel[d] /\ received'[d] = received[d]
    BY <1>3 DEF Poll, HubTypes, historyVars
  <2>2. Line(Append(received[c], Head(channel[c])), Tail(channel[c]), replaying[c], sent, stored)
    BY <1>0, <2>1, PollLine
  <2> QED BY <1>0, <2>1, <2>2, OneLine DEF hubVars
<1>4. CASE DropReceiver(c)
  <2>1. /\ UNCHANGED <<hubVars, replaying, received, sent, stored>>
        /\ status'[c] = "deaf" /\ channel'[c] = <<>>
        /\ \A d \in Connections : d # c => channel'[d] = channel[d] /\ status'[d] = status[d]
    BY <1>4 DEF DropReceiver, CloseChannel, HubTypes
  <2>2. Line(received[c], <<>>, replaying[c], sent, stored)
    BY <1>0, DropLine
  <2> QED BY <1>0, <2>1, <2>2, OneLine DEF hubVars
<1> QED BY <1>1, <1>2, <1>3, <1>4

LEMMA NextLines == HubTypes /\ Lines /\ [Next]_vars => Lines'
<1> SUFFICES ASSUME HubTypes, Lines, [Next]_vars PROVE Lines'
  OBVIOUS
<1>1. ASSUME NEW u \in Users, NEW c \in Connections, Connect(u, c) PROVE Lines'
  BY <1>1, ConnectLines
<1>2. ASSUME NEW u \in Users, NEW m \in Messages, Send(u, m) PROVE Lines'
  BY <1>2, SendLines
<1>3. ASSUME NEW c \in Connections, Stream(c) \/ HangUp(c) PROVE Lines'
  BY <1>3, StreamLines, LeaveLines DEF Stream
<1>4. CASE Cleanup
  <2>1. UNCHANGED <<connections, status, replaying, channel, received, sent, stored>> /\ Prune
    BY <1>4 DEF Cleanup, streamVars
  <2>2. \A v \in Users : QueueLine(queue'[v], sent, stored)
    BY <2>1, StillLines
  <2> QED BY <2>1, <2>2 DEF Lines, Unmade
<1>5. CASE Tick \/ UNCHANGED vars
  <2>1. UNCHANGED <<hubVars, streamVars, historyVars>>
    BY <1>5 DEF Tick, vars
  <2> QED BY <2>1 DEF Lines, Unmade, hubVars, streamVars, historyVars
<1> QED BY <1>1, <1>2, <1>3, <1>4, <1>5 DEF Next

(* The order in which a stream yields (hub.rs:89-106, 150-194): nothing    *)
(* comes before a message sent earlier, unless the earlier one was queued  *)
(* and the later one went to the channel while connect was replaying; for  *)
(* any users, connections, messages and time to live.                      *)
THEOREM StreamsKeepTheOrder == Spec => []OrderKept
<1> DEFINE Ok == HubTypes /\ NobodyConnectedWaits /\ Lines
<1>1. Init => Ok
  BY InitHubTypes, InitLines
<1>2. Ok /\ [Next]_vars => Ok'
  BY NextHubTypes, NextLines
<1>3. Ok => OrderKept
  <2> SUFFICES ASSUME Lines, NEW c \in Connections,
                      NEW m \in Range(received[c]), NEW n \in Range(received[c]),
                      Before(m, n, sent), Before(n, m, received[c])
               PROVE  m \in stored /\ n \notin stored
    BY DEF OrderKept
  <2>1. Within(received[c], sent, stored)
    BY DEF Lines, Line
  <2>2. MayPrecede(n, m, sent, stored)
    BY <2>1 DEF Within, Before
  <2> QED BY <2>2 DEF MayPrecede
<1> QED BY <1>1, <1>2, <1>3, PTL DEF Spec

-----------------------------------------------------------------------------
(* Where a message is.                                                     *)

Single(S) == \E x : S = {x}

(* Exactly one of four, and there in one place.                            *)
Alone(waiting, holding, gone, dropped) ==
    \/ Single(waiting) /\ holding = {} /\ gone = {} /\ dropped = {}
    \/ waiting = {} /\ Single(holding) /\ gone = {} /\ dropped = {}
    \/ waiting = {} /\ holding = {} /\ Single(gone) /\ dropped = {}
    \/ waiting = {} /\ holding = {} /\ gone = {} /\ Single(dropped)

Accounted ==
    /\ expired \subseteq stored /\ lost \subseteq Range(sent)
    /\ \A m \in stored : Alone(Queues(m), Holders(m), {m} \cap expired, {m} \cap lost)
    /\ \A m \in Range(sent) \ stored : Holders(m) # {} \/ m \in lost

Waiting(m, entries) == \E i \in DOMAIN entries : entries[i].msg = m

(* The queues that still hold m once they are pruned.                      *)
StillWaiting(m) == {u \in Users : Waiting(m, Pruned(u))}

Held(m, got, chan, todo) == m \in Range(got) \cup Range(chan) \cup Range(todo)

(* The moves of a message: out of a queue that is pruned, from a queue to  *)
(* a connection, and from a connection to nowhere.                         *)
LEMMA ExpiringAlone ==
    ASSUME NEW waiting, NEW holding, NEW dropped, NEW m, NEW before, NEW after, NEW still,
           Alone(waiting, holding, {m} \cap before, dropped),
           still \subseteq waiting, m \in after <=> m \in before \/ still # waiting
    PROVE  Alone(still, holding, {m} \cap after, dropped)
<1>1. CASE still = waiting
  <2>1. {m} \cap after = {m} \cap before
    BY <1>1
  <2> QED BY <1>1, <2>1
<1>2. CASE still # waiting
  <2>1. Single(waiting) /\ still = {} /\ holding = {} /\ dropped = {}
    BY <1>2 DEF Alone, Single
  <2>2. {m} \cap after = {m}
    BY <1>2
  <2>3. Single({m})
    BY DEF Single
  <2> QED BY <2>1, <2>2, <2>3 DEF Alone
<1> QED BY <1>1, <1>2

LEMMA TakingAlone ==
    ASSUME NEW waiting, NEW holding, NEW gone, NEW dropped, NEW u, NEW c,
           Alone(waiting, holding, gone, dropped)
    PROVE  Alone(waiting \ {u}, holding \cup (IF u \in waiting THEN {c} ELSE {}), gone, dropped)
<1>1. CASE u \in waiting
  <2>1. waiting \ {u} = {} /\ holding \cup {c} = {c} /\ gone = {} /\ dropped = {}
    BY <1>1 DEF Alone, Single
  <2>2. Single({c})
    BY DEF Single
  <2> QED BY <1>1, <2>1, <2>2 DEF Alone
<1>2. CASE u \notin waiting
  <2>1. waiting \ {u} = waiting /\ holding \cup {} = holding
    BY <1>2
  <2> QED BY <1>2, <2>1
<1> QED BY <1>1, <1>2

LEMMA LosingAlone ==
    ASSUME NEW waiting, NEW holding, NEW gone, NEW m, NEW before, NEW c \in holding,
           Alone(waiting, holding, gone, {m} \cap before)
    PROVE  Alone(waiting, holding \ {c}, gone, {m} \cap (before \cup {m}))
<1>1. waiting = {} /\ holding \ {c} = {} /\ gone = {}
  BY DEF Alone, Single
<1>2. {m} \cap (before \cup {m}) = {m} /\ Single({m})
  BY DEF Single
<1> QED BY <1>1, <1>2 DEF Alone

LEMMA QueuesAre ==
    ASSUME NEW m
    PROVE  Queues(m) = {u \in Users : Waiting(m, queue[u])}
BY DEF Queues, Waiting, Range

LEMMA QueuesNext ==
    ASSUME NEW m
    PROVE  Queues(m)' = {u \in Users : Waiting(m, queue'[u])}
BY DEF Queues, Waiting, Range

LEMMA HoldersAre ==
    ASSUME Lines, NEW m
    PROVE  Holders(m) = {c \in Connections : Held(m, received[c], channel[c], replaying[c])}
<1>1. \A c \in Connections : status[c] = "deaf" => Range(channel[c]) = {}
  BY DEF Lines, Range
<1> QED BY <1>1 DEF Holders, Held

LEMMA HoldersNext ==
    ASSUME Lines', NEW m
    PROVE  Holders(m)' = {c \in Connections : Held(m, received'[c], channel'[c], replaying'[c])}
<1>1. \A c \in Connections : status'[c] = "deaf" => Range(channel'[c]) = {}
  BY DEF Lines, Range
<1> QED BY <1>1 DEF Holders, Held

(* What pruning takes from a queue, it takes altogether: no message waits  *)
(* in it twice.                                                            *)
LEMMA PrunedWaiting ==
    ASSUME HubTypes, Lines, NEW u \in Users, NEW m
    PROVE  /\ Waiting(m, Pruned(u)) => Waiting(m, queue[u])
           /\ (\E e \in Range(queue[u]) \ Range(Pruned(u)) : e.msg = m)
                  <=> Waiting(m, queue[u]) /\ ~Waiting(m, Pruned(u))
<1> DEFINE rest == Pruned(u)
           entries == queue[u]
<1>1. /\ rest \in Seq(QueueEntries) /\ FreshOf(entries, rest, Len(entries))
      /\ entries \in Seq(QueueEntries) /\ QueueLine(entries, sent, stored)
  BY PrunedFacts DEF HubTypes, Lines
<1>2. DOMAIN entries = 1..Len(entries) /\ Len(entries) \in Nat
  BY <1>1
<1> HIDE DEF rest, entries
<1>3. \A j \in DOMAIN rest : \E p \in DOMAIN entries : entries[p] = rest[j] /\ Fresh(rest[j])
  BY <1>1, <1>2 DEF FreshOf
<1>4. \A p \in DOMAIN entries : Fresh(entries[p]) => \E j \in DOMAIN rest : rest[j] = entries[p]
  BY <1>1, <1>2 DEF FreshOf
<1>5. \A p, q \in DOMAIN entries : p # q => entries[p].msg # entries[q].msg
  <2>1. \A p, q \in DOMAIN entries : p < q => entries[p].msg # entries[q].msg
    BY <1>1 DEF QueueLine, MayPrecede
  <2>2. \A p, q \in DOMAIN entries : p # q => p < q \/ q < p
    BY <1>2
  <2> QED BY <2>1, <2>2
<1>6. Waiting(m, rest) => Waiting(m, entries)
  BY <1>3 DEF Waiting
<1>7. ASSUME NEW p \in DOMAIN entries, entries[p] \notin Range(rest), entries[p].msg = m
      PROVE  Waiting(m, entries) /\ ~Waiting(m, rest)
  <2>1. SUFFICES ASSUME NEW j \in DOMAIN rest, rest[j].msg = m PROVE FALSE
    BY <1>7 DEF Waiting
  <2>2. PICK q \in DOMAIN entries : entries[q] = rest[j]
    BY <1>3
  <2>3. q = p
    BY <1>5, <1>7, <2>1, <2>2
  <2> QED BY <1>7, <2>2, <2>3 DEF Range
<1>8. ASSUME Waiting(m, entries), ~Waiting(m, rest)
      PROVE  \E e \in Range(entries) \ Range(rest) : e.msg = m
  <2>1. PICK p \in DOMAIN entries : entries[p].msg = m
    BY <1>8 DEF Waiting
  <2>2. entries[p] \notin Range(rest)
    BY <1>8, <2>1 DEF Waiting, Range
  <2> QED BY <2>1, <2>2 DEF Range
<1>9. (\E e \in Range(entries) \ Range(rest) : e.msg = m) <=> Waiting(m, entries) /\ ~Waiting(m, rest)
  <2>1. ASSUME NEW e \in Range(entries) \ Range(rest), e.msg = m
        PROVE  Waiting(m, entries) /\ ~Waiting(m, rest)
    <3>1. PICK p \in DOMAIN entries : entries[p] = e
      BY DEF Range
    <3> QED BY <1>7, <2>1, <3>1
  <2> QED BY <1>8, <2>1
<1> QED BY <1>6, <1>9 DEF rest, entries

LEMMA ExpiredAre ==
    ASSUME HubTypes, Lines, NEW u \in Users, NEW rest, PruneAndSet(u, rest), NEW m
    PROVE  /\ StillWaiting(m) \subseteq Queues(m)
           /\ m \in expired' <=> m \in expired \/ StillWaiting(m) # Queues(m)
           /\ expired' \subseteq expired \cup stored
<1>1. \A v \in Users : /\ Waiting(m, Pruned(v)) => Waiting(m, queue[v])
                       /\ (\E e \in Range(queue[v]) \ Range(Pruned(v)) : e.msg = m)
                              <=> Waiting(m, queue[v]) /\ ~Waiting(m, Pruned(v))
  BY PrunedWaiting
<1>2. StillWaiting(m) \subseteq Queues(m)
  BY <1>1, QueuesAre DEF StillWaiting
<1>3. StillWaiting(m) # Queues(m) <=> \E v \in Users : Waiting(m, queue[v]) /\ ~Waiting(m, Pruned(v))
  BY <1>1, QueuesAre DEF StillWaiting
<1>4. \A x : x \in expired' <=> x \in expired \/ \E v \in Users : \E e \in Range(queue[v]) \ Range(Pruned(v)) : e.msg = x
  BY DEF PruneAndSet
<1>5. \A v \in Users : \A e \in Range(queue[v]) : e.msg \in stored
  BY DEF Lines, QueueLine, Range
<1>6. expired' \subseteq expired \cup stored
  BY <1>4, <1>5
<1>7. m \in expired' <=> m \in expired \/ StillWaiting(m) # Queues(m)
  BY <1>1, <1>3, <1>4
<1> QED BY <1>2, <1>6, <1>7

LEMMA PruneQueues ==
    ASSUME NEW u \in Users, NEW rest, PruneAndSet(u, rest), NEW m
    PROVE  Queues(m)' = (StillWaiting(m) \ {u}) \cup (IF Waiting(m, rest) THEN {u} ELSE {})
<1>1. \A v \in Users : queue'[v] = IF v = u THEN rest ELSE Pruned(v)
  BY DEF PruneAndSet
<1>2. \A v \in Users : Waiting(m, queue'[v]) <=> IF v = u THEN Waiting(m, rest) ELSE Waiting(m, Pruned(v))
  BY <1>1
<1> QED BY <1>2, QueuesNext DEF StillWaiting

LEMMA InitAccounted == Init => Accounted
BY DEF Init, Accounted, Range

(* Pruning alone, whatever the channels do: a message that expires was     *)
(* nowhere else.                                                           *)
LEMMA PruneAlone ==
    ASSUME HubTypes, Lines, Prune, NEW m, NEW holding, NEW dropped,
           Alone(Queues(m), holding, {m} \cap expired, dropped)
    PROVE  Alone(Queues(m)', holding, {m} \cap expired', dropped)
<1>1. PICK u \in Users : PruneAndSet(u, Pruned(u))
  BY DEF Prune
<1>2. /\ StillWaiting(m) \subseteq Queues(m)
      /\ m \in expired' <=> m \in expired \/ StillWaiting(m) # Queues(m)
  BY <1>1, ExpiredAre
<1>3. Queues(m)' = StillWaiting(m)
  <2>1. Queues(m)' = (StillWaiting(m) \ {u}) \cup (IF Waiting(m, Pruned(u)) THEN {u} ELSE {})
    BY <1>1, PruneQueues
  <2>2. u \in StillWaiting(m) <=> Waiting(m, Pruned(u))
    BY DEF StillWaiting
  <2> QED BY <2>1, <2>2
<1>4. Alone(StillWaiting(m), holding, {m} \cap expired', dropped)
  BY <1>2, ExpiringAlone
<1> QED BY <1>3, <1>4

LEMMA ConnectAccounted ==
    ASSUME HubTypes, Lines, Lines', Accounted,
           NEW u \in Users, NEW c \in Connections, Connect(u, c)
    PROVE  Accounted'
<1>1. /\ status[c] = "new" /\ UNCHANGED <<channel, received, sent, stored, lost>>
      /\ PruneAndSet(u, <<>>) /\ replaying'[c] = Payloads(Pruned(u))
      /\ \A d \in Connections : d # c => replaying'[d] = replaying[d]
  BY DEF Connect, HubTypes
<1>2. Unmade(c)
  BY <1>1 DEF Lines
<1>3. ASSUME NEW m
      PROVE  /\ Queues(m)' = StillWaiting(m) \ {u}
             /\ Holders(m)' = Holders(m) \cup (IF u \in StillWaiting(m) THEN {c} ELSE {})
  <2>1. ~Waiting(m, <<>>)
    BY DEF Waiting
  <2>2. Queues(m)' = StillWaiting(m) \ {u}
    BY <1>1, <2>1, PruneQueues
  <2>3. m \in Range(Payloads(Pruned(u))) <=> Waiting(m, Pruned(u))
    <3>1. Pruned(u) \in Seq(QueueEntries)
      BY PrunedFacts
    <3>2. /\ DOMAIN Payloads(Pruned(u)) = DOMAIN Pruned(u)
          /\ \A i \in DOMAIN Pruned(u) : Payloads(Pruned(u))[i] = Pruned(u)[i].msg
      BY <3>1, PayloadFacts
    <3> QED BY <3>2 DEF Waiting, Range
  <2>4. Held(m, received'[c], channel'[c], replaying'[c]) <=> u \in StillWaiting(m)
    BY <1>1, <1>2, <2>3 DEF Held, Unmade, StillWaiting, Range
  <2>5. ~Held(m, received[c], channel[c], replaying[c])
    BY <1>2 DEF Held, Unmade, Range
  <2>6. \A d \in Connections : d # c =>
            (Held(m, received'[d], channel'[d], replaying'[d])
                <=> Held(m, received[d], channel[d], replaying[d]))
    BY <1>1
  <2>7. Holders(m)' = Holders(m) \cup (IF u \in StillWaiting(m) THEN {c} ELSE {})
    BY <2>4, <2>5, <2>6, HoldersAre, HoldersNext
  <2> QED BY <2>2, <2>7
<1>4. ASSUME NEW m \in stored'
      PROVE  Alone(Queues(m)', Holders(m)', {m} \cap expired', {m} \cap lost')
  <2>1. Alone(Queues(m), Holders(m), {m} \cap expired, {m} \cap lost)
    BY <1>1 DEF Accounted
  <2>2. Alone(StillWaiting(m), Holders(m), {m} \cap expired', {m} \cap lost)
    BY <1>1, <2>1, ExpiredAre, ExpiringAlone
  <2>3. Alone(StillWaiting(m) \ {u}, Holders(m) \cup (IF u \in StillWaiting(m) THEN {c} ELSE {}),
              {m} \cap expired', {m} \cap lost)
    BY <2>2, TakingAlone
  <2> QED BY <1>1, <1>3, <2>3
<1>5. expired' \subseteq stored' /\ lost' \subseteq Range(sent')
  <2>1. expired' \subseteq expired \cup stored
    BY <1>1, ExpiredAre
  <2> QED BY <1>1, <2>1 DEF Accounted
<1>6. \A m \in Range(sent') \ stored' : Holders(m)' # {} \/ m \in lost'
  BY <1>1, <1>3 DEF Accounted
<1> QED BY <1>4, <1>5, <1>6 DEF Accounted

(* The message that is sent is nowhere yet.                                *)
LEMMA Unsent ==
    ASSUME Lines, Accounted, NEW m, m \notin Range(sent)
    PROVE  /\ m \notin stored /\ m \notin expired /\ m \notin lost
           /\ \A u \in Users : ~Waiting(m, queue[u])
           /\ \A c \in Connections : ~Held(m, received[c], channel[c], replaying[c])
<1>1. m \notin stored /\ m \notin expired /\ m \notin lost
  BY DEF Lines, Accounted
<1>2. \A u \in Users : ~Waiting(m, queue[u])
  BY <1>1 DEF Lines, QueueLine, Waiting
<1>3. \A c \in Connections : ~Held(m, received[c], channel[c], replaying[c])
  BY DEF Lines, Line, Held
<1> QED BY <1>1, <1>2, <1>3

LEMMA SendAccounted ==
    ASSUME HubTypes, Lines, Lines', Accounted,
           NEW u \in Users, NEW k \in Messages, Send(u, k)
    PROVE  Accounted'
<1> DEFINE entry == [msg |-> k, expires |-> now + Ttl]
<1>1. /\ k \notin Range(sent) /\ sent' = Append(sent, k) /\ sent \in Seq(Messages)
      /\ UNCHANGED <<replaying, received, lost>>
      /\ \A c \in Connections : channel'[c] = IF c \in Listening(u) THEN Append(channel[c], k) ELSE channel[c]
  BY DEF Send, HubTypes
<1>2. entry \in QueueEntries /\ entry.msg = k
  <2>1. now + Ttl \in Nat
    BY HubAssumption DEF HubTypes
  <2> QED BY <2>1 DEF QueueEntries
<1>3. \/ /\ Listening(u) = {} /\ stored' = stored \cup {k}
         /\ PruneAndSet(u, Append(Pruned(u), entry))
      \/ Listening(u) # {} /\ Prune /\ stored' = stored
  BY DEF Send
<1> HIDE DEF entry
<1>4. Range(sent') = Range(sent) \cup {k} /\ stored \subseteq Range(sent)
  BY <1>1, AppendMember DEF Lines
<1>5. expired' \subseteq stored' /\ lost' \subseteq Range(sent')
  <2>1. ASSUME NEW w \in Users, NEW rest, PruneAndSet(w, rest)
        PROVE  expired' \subseteq expired \cup stored
    BY <2>1, ExpiredAre
  <2>2. expired' \subseteq expired \cup stored
    BY <1>3, <2>1 DEF Prune
  <2> QED BY <1>1, <1>3, <1>4, <2>2 DEF Accounted
<1>6. /\ k \notin stored /\ k \notin expired /\ k \notin lost
      /\ \A v \in Users : ~Waiting(k, queue[v])
      /\ \A c \in Connections : ~Held(k, received[c], channel[c], replaying[c])
  BY <1>1, Unsent
<1>7. \A c \in Connections : Listening(u) \subseteq Connections /\ channel[c] \in Seq(Messages)
  BY DEF Listening, HubTypes
<1>8. ASSUME NEW m, m # k PROVE Holders(m)' = Holders(m)
  <2>1. ASSUME NEW c \in Connections
        PROVE  Held(m, received'[c], channel'[c], replaying'[c]) <=> Held(m, received[c], channel[c], replaying[c])
    <3>1. channel'[c] = channel[c] \/ Range(channel'[c]) = Range(channel[c]) \cup {k}
      <4>1. Range(Append(channel[c], k)) = Range(channel[c]) \cup {k}
        BY <1>7, AppendMember
      <4> QED BY <1>1, <4>1
    <3>2. m \in Range(channel'[c]) <=> m \in Range(channel[c])
      BY <1>8, <3>1
    <3> QED BY <1>1, <3>2 DEF Held
  <2> QED BY <2>1, HoldersAre, HoldersNext
<1>9. CASE Listening(u) # {} /\ Prune /\ stored' = stored
  <2>1. ASSUME NEW m \in stored'
        PROVE  Alone(Queues(m)', Holders(m)', {m} \cap expired', {m} \cap lost')
    <3>1. m # k /\ Alone(Queues(m), Holders(m), {m} \cap expired, {m} \cap lost)
      BY <1>6, <1>9 DEF Accounted
    <3>2. Alone(Queues(m)', Holders(m), {m} \cap expired', {m} \cap lost)
      BY <1>9, <3>1, PruneAlone
    <3> QED BY <1>1, <1>8, <3>1, <3>2
  <2>2. ASSUME NEW m \in Range(sent') \ stored'
        PROVE  Holders(m)' # {} \/ m \in lost'
    <3>1. CASE m = k
      <4>1. PICK c \in Listening(u) : c \in Connections
        BY <1>9 DEF Listening, HubTypes
      <4>2. Range(Append(channel[c], k)) = Range(channel[c]) \cup {k}
        BY <1>7, <4>1, AppendMember
      <4>3. Held(m, received'[c], channel'[c], replaying'[c])
        BY <1>1, <3>1, <4>1, <4>2 DEF Held
      <4> QED BY <4>1, <4>3, HoldersNext
    <3>2. CASE m # k
      BY <1>1, <1>4, <1>8, <1>9, <3>2 DEF Accounted
    <3> QED BY <3>1, <3>2
  <2> QED BY <1>5, <2>1, <2>2 DEF Accounted
<1>10. CASE /\ Listening(u) = {} /\ stored' = stored \cup {k}
            /\ PruneAndSet(u, Append(Pruned(u), entry))
  <2>0. \A m : Waiting(m, Append(Pruned(u), entry)) <=> Waiting(m, Pruned(u)) \/ m = k
    <3> DEFINE rest == Pruned(u)
               more == Append(rest, entry)
    <3>1. rest \in Seq(QueueEntries)
      BY PrunedFacts
    <3> HIDE DEF rest
    <3>2. /\ \A i \in 1..Len(rest) : more[i] = rest[i]
          /\ more[Len(rest) + 1] = entry /\ DOMAIN more = 1..Len(rest) + 1
          /\ DOMAIN rest = 1..Len(rest) /\ Len(rest) \in Nat
      BY <1>2, <3>1, AppendFacts
    <3> HIDE DEF more
    <3>3. \A i \in DOMAIN more : i \in DOMAIN rest \/ i = Len(rest) + 1
      BY <3>2
    <3>4. Len(rest) + 1 \in DOMAIN more /\ \A i \in DOMAIN rest : i \in DOMAIN more
      BY <3>2
    <3>5. \A m : Waiting(m, more) <=> Waiting(m, rest) \/ m = k
      BY <1>2, <3>2, <3>3, <3>4 DEF Waiting
    <3> QED BY <3>5 DEF more, rest
  <2>1. ASSUME NEW m
        PROVE  Queues(m)' = StillWaiting(m) \cup (IF m = k THEN {u} ELSE {})
    <3>1. Queues(m)' = (StillWaiting(m) \ {u})
              \cup (IF Waiting(m, Append(Pruned(u), entry)) THEN {u} ELSE {})
      BY <1>10, PruneQueues
    <3>2. u \in StillWaiting(m) <=> Waiting(m, Pruned(u))
      BY DEF StillWaiting
    <3> QED BY <2>0, <3>1, <3>2
  <2>2. ASSUME NEW m \in stored
        PROVE  Alone(Queues(m)', Holders(m)', {m} \cap expired', {m} \cap lost')
    <3>1. m # k /\ Alone(Queues(m), Holders(m), {m} \cap expired, {m} \cap lost)
      BY <1>6 DEF Accounted
    <3>2. Alone(StillWaiting(m), Holders(m), {m} \cap expired', {m} \cap lost)
      BY <1>10, <3>1, ExpiredAre, ExpiringAlone
    <3>3. Queues(m)' = StillWaiting(m)
      BY <2>1, <3>1
    <3> QED BY <1>1, <1>8, <3>1, <3>2, <3>3
  <2>3. Alone(Queues(k)', Holders(k)', {k} \cap expired', {k} \cap lost')
    <3>1. Queues(k) = {}
      BY <1>6, QueuesAre
    <3>2. StillWaiting(k) = {} /\ k \notin expired'
      BY <1>6, <1>10, <3>1, ExpiredAre
    <3>3. Queues(k)' = {u} /\ Single({u})
      BY <2>1, <3>2 DEF Single
    <3>4. Holders(k)' = {}
      <4>1. \A c \in Connections : ~Held(k, received'[c], channel'[c], replaying'[c])
        BY <1>1, <1>6, <1>10
      <4> QED BY <4>1, HoldersNext
    <3> QED BY <1>1, <1>6, <3>2, <3>3, <3>4 DEF Alone
  <2>4. \A m \in stored' : Alone(Queues(m)', Holders(m)', {m} \cap expired', {m} \cap lost')
    BY <1>10, <2>2, <2>3
  <2>5. ASSUME NEW m \in Range(sent') \ stored' PROVE Holders(m)' # {} \/ m \in lost'
    <3>1. m # k /\ m \in Range(sent) \ stored
      BY <1>4, <1>10
    <3> QED BY <1>1, <1>8, <3>1 DEF Accounted
  <2> QED BY <1>5, <2>4, <2>5 DEF Accounted
<1> QED BY <1>3, <1>9, <1>10

(* Dropping a receiver loses what its channel holds, and nothing of it is  *)
(* elsewhere on that connection.                                           *)
LEMMA CloseMoves ==
    ASSUME HubTypes, Lines, Lines', NEW c \in Connections, CloseChannel(c),
           UNCHANGED <<received, replaying>>, NEW m
    PROVE  \/ /\ c \in Holders(m) /\ Holders(m)' = Holders(m) \ {c}
              /\ {m} \cap lost' = {m} \cap (lost \cup {m})
           \/ Holders(m)' = Holders(m) /\ {m} \cap lost' = {m} \cap lost
<1>1. /\ channel'[c] = <<>> /\ \A d \in Connections : d # c => channel'[d] = channel[d]
      /\ lost' = lost \cup Range(channel[c])
  BY DEF CloseChannel, HubTypes
<1>2. Range(channel'[c]) = {}
  BY <1>1 DEF Range
<1>3. \A d \in Connections : d # c =>
          (Held(m, received'[d], channel'[d], replaying'[d])
               <=> Held(m, received[d], channel[d], replaying[d]))
  BY <1>1
<1>4. CASE m \in Range(channel[c])
  <2>1. m \notin Range(received[c]) /\ m \notin Range(replaying[c])
    BY <1>4, AcrossRange DEF Lines, Line, MayPrecede
  <2>2. ~Held(m, received'[c], channel'[c], replaying'[c]) /\ Held(m, received[c], channel[c], replaying[c])
    BY <1>2, <1>4, <2>1 DEF Held
  <2>3. c \in Holders(m) /\ Holders(m)' = Holders(m) \ {c}
    BY <1>3, <2>2, HoldersAre, HoldersNext
  <2> QED BY <1>1, <1>4, <2>3
<1>5. CASE m \notin Range(channel[c])
  <2>1. Held(m, received'[c], channel'[c], replaying'[c]) <=> Held(m, received[c], channel[c], replaying[c])
    BY <1>2, <1>5 DEF Held
  <2>2. Holders(m)' = Holders(m)
    BY <1>3, <2>1, HoldersAre, HoldersNext
  <2> QED BY <1>1, <1>5, <2>2
<1> QED BY <1>4, <1>5

LEMMA CloseAccounted ==
    ASSUME HubTypes, Lines, Lines', Accounted, NEW c \in Connections,
           Disconnect(c) \/ DropReceiver(c)
    PROVE  Accounted'
<1>1. CloseChannel(c) /\ UNCHANGED <<received, replaying, sent, stored>>
  BY DEF Disconnect, DropReceiver
<1>2. Prune \/ UNCHANGED <<queue, expired>>
  BY DEF Disconnect, DropReceiver, hubVars
<1>3. expired' \subseteq stored' /\ lost' \subseteq Range(sent')
  <2>1. expired' \subseteq expired \cup stored
    BY <1>2, ExpiredAre DEF Prune
  <2>2. lost' \subseteq lost \cup Range(sent)
    BY <1>1 DEF CloseChannel, Lines, Line
  <2> QED BY <1>1, <2>1, <2>2 DEF Accounted
<1>4. ASSUME NEW m \in stored'
      PROVE  Alone(Queues(m)', Holders(m)', {m} \cap expired', {m} \cap lost')
  <2>1. Alone(Queues(m), Holders(m), {m} \cap expired, {m} \cap lost)
    BY <1>1 DEF Accounted
  <2>2. Alone(Queues(m)', Holders(m), {m} \cap expired', {m} \cap lost)
    <3>1. CASE Prune
      BY <2>1, <3>1, PruneAlone
    <3>2. CASE UNCHANGED <<queue, expired>>
      <4>1. Queues(m)' = Queues(m) /\ expired' = expired
        BY <3>2 DEF Queues
      <4> QED BY <2>1, <4>1
    <3> QED BY <1>2, <3>1, <3>2
  <2>3. CASE Holders(m)' = Holders(m) /\ {m} \cap lost' = {m} \cap lost
    BY <2>2, <2>3
  <2>4. CASE /\ c \in Holders(m) /\ Holders(m)' = Holders(m) \ {c}
             /\ {m} \cap lost' = {m} \cap (lost \cup {m})
    <3>1. Alone(Queues(m)', Holders(m) \ {c}, {m} \cap expired', {m} \cap (lost \cup {m}))
      BY <2>2, <2>4, LosingAlone
    <3> QED BY <2>4, <3>1
  <2> QED BY <1>1, <2>3, <2>4, CloseMoves
<1>5. ASSUME NEW m \in Range(sent') \ stored' PROVE Holders(m)' # {} \/ m \in lost'
  <2>1. Holders(m) # {} \/ m \in lost
    BY <1>1 DEF Accounted
  <2> QED BY <1>1, <2>1, CloseMoves
<1> QED BY <1>3, <1>4, <1>5 DEF Accounted

(* A step that leaves every message where it is.                           *)
LEMMA NothingMoves ==
    ASSUME Lines, Lines', Accounted, UNCHANGED <<queue, expired, lost, sent, stored>>,
           \A c \in Connections : \A m :
               Held(m, received'[c], channel'[c], replaying'[c])
                   <=> Held(m, received[c], channel[c], replaying[c])
    PROVE  Accounted'
<1>1. ASSUME NEW m PROVE Queues(m)' = Queues(m) /\ Holders(m)' = Holders(m)
  BY HoldersAre, HoldersNext DEF Queues
<1> QED BY <1>1 DEF Accounted

LEMMA StreamAccounted ==
    ASSUME HubTypes, Lines, Lines', Accounted, NEW c \in Connections,
           Replay(c) \/ Connected(c) \/ FirstPoll(c) \/ Poll(c) \/ HangUp(c)
    PROVE  Accounted'
<1>0. channel[c] \in Seq(Messages) /\ replaying[c] \in Seq(Messages) /\ received[c] \in Seq(Messages)
  BY DEF HubTypes
<1>1. CASE Replay(c)
  <2>1. /\ replaying[c] # <<>> /\ UNCHANGED <<hubVars, received, historyVars>>
        /\ channel'[c] = Append(channel[c], Head(replaying[c])) /\ replaying'[c] = Tail(replaying[c])
        /\ \A d \in Connections : d # c => channel'[d] = channel[d] /\ replaying'[d] = replaying[d]
    BY <1>1 DEF Replay, HubTypes
  <2>2. Head(replaying[c]) \in Messages
    BY <1>0, <2>1, TailFacts
  <2>3. /\ Range(channel'[c]) = Range(channel[c]) \cup {Head(replaying[c])}
        /\ Range(replaying[c]) = {Head(replaying[c])} \cup Range(replaying'[c])
    BY <1>0, <2>1, <2>2, AppendMember, HeadTailMember
  <2>4. \A m : Held(m, received'[c], channel'[c], replaying'[c])
                   <=> Held(m, received[c], channel[c], replaying[c])
    BY <2>1, <2>3 DEF Held
  <2>5. \A d \in Connections : \A m :
            Held(m, received'[d], channel'[d], replaying'[d])
                <=> Held(m, received[d], channel[d], replaying[d])
    BY <2>1, <2>4
  <2> QED BY <2>1, <2>5, NothingMoves DEF hubVars, historyVars
<1>2. CASE Poll(c)
  <2>1. /\ channel[c] # <<>> /\ UNCHANGED <<hubVars, replaying, historyVars>>
        /\ received'[c] = Append(received[c], Head(channel[c])) /\ channel'[c] = Tail(channel[c])
        /\ \A d \in Connections : d # c => channel'[d] = channel[d] /\ received'[d] = received[d]
    BY <1>2 DEF Poll, HubTypes
  <2>2. Head(channel[c]) \in Messages
    BY <1>0, <2>1, TailFacts
  <2>3. /\ Range(received'[c]) = Range(received[c]) \cup {Head(channel[c])}
        /\ Range(channel[c]) = {Head(channel[c])} \cup Range(channel'[c])
    BY <1>0, <2>1, <2>2, AppendMember, HeadTailMember
  <2>4. \A m : Held(m, received'[c], channel'[c], replaying'[c])
                   <=> Held(m, received[c], channel[c], replaying[c])
    BY <2>1, <2>3 DEF Held
  <2>5. \A d \in Connections : \A m :
            Held(m, received'[d], channel'[d], replaying'[d])
                <=> Held(m, received[d], channel[d], replaying[d])
    BY <2>1, <2>4
  <2> QED BY <2>1, <2>5, NothingMoves DEF hubVars, historyVars
<1>3. CASE Connected(c) \/ FirstPoll(c) \/ HangUp(c)
  <2>1. UNCHANGED <<hubVars, replaying, channel, received, historyVars>>
    BY <1>3 DEF Connected, FirstPoll, HangUp
  <2> QED BY <2>1, NothingMoves DEF hubVars, historyVars
<1> QED BY <1>1, <1>2, <1>3

LEMMA NextAccounted == HubTypes /\ Lines /\ Lines' /\ Accounted /\ [Next]_vars => Accounted'
<1> SUFFICES ASSUME HubTypes, Lines, Lines', Accounted, [Next]_vars PROVE Accounted'
  OBVIOUS
<1>1. ASSUME NEW u \in Users, NEW c \in Connections, Connect(u, c) PROVE Accounted'
  BY <1>1, ConnectAccounted
<1>2. ASSUME NEW u \in Users, NEW m \in Messages, Send(u, m) PROVE Accounted'
  BY <1>2, SendAccounted
<1>3. ASSUME NEW c \in Connections, Stream(c) \/ HangUp(c) PROVE Accounted'
  BY <1>3, StreamAccounted, CloseAccounted DEF Stream
<1>4. CASE Cleanup
  <2>1. UNCHANGED <<replaying, channel, received, sent, stored, lost>> /\ Prune
    BY <1>4 DEF Cleanup, streamVars
  <2>2. expired' \subseteq expired \cup stored
    BY <2>1, ExpiredAre DEF Prune
  <2>3. \A m : Holders(m)' = Holders(m)
    BY <2>1, HoldersAre, HoldersNext
  <2>4. ASSUME NEW m \in stored'
        PROVE  Alone(Queues(m)', Holders(m)', {m} \cap expired', {m} \cap lost')
    <3>1. Alone(Queues(m), Holders(m), {m} \cap expired, {m} \cap lost)
      BY <2>1 DEF Accounted
    <3>2. Alone(Queues(m)', Holders(m), {m} \cap expired', {m} \cap lost)
      BY <2>1, <3>1, PruneAlone
    <3> QED BY <2>1, <2>3, <3>2
  <2> QED BY <2>1, <2>2, <2>3, <2>4 DEF Accounted
<1>5. CASE Tick \/ UNCHANGED vars
  <2>1. UNCHANGED <<hubVars, streamVars, historyVars>>
    BY <1>5 DEF Tick, vars
  <2> QED BY <2>1, NothingMoves DEF hubVars, streamVars, historyVars
<1> QED BY <1>1, <1>2, <1>3, <1>4, <1>5 DEF Next

(* No message disappears (hub.rs:89-106, 150-238): a queued one is at any  *)
(* time in exactly one queue, on one connection, expired or lost with its  *)
(* connection, and one that was passed on is with a connection or lost     *)
(* with one; for any users, connections, messages and time to live.        *)
THEOREM NoMessageDisappears == Spec => []Conserved
<1> DEFINE Ok == HubTypes /\ NobodyConnectedWaits /\ Lines /\ Accounted
<1>1. Init => Ok
  BY InitHubTypes, InitLines, InitAccounted
<1>2. Ok /\ [Next]_vars => Ok'
  BY NextHubTypes, NextLines, NextAccounted
<1>3. Ok => Conserved
  <2> SUFFICES ASSUME Lines, Accounted, NEW m \in Range(sent)
               PROVE  IF m \in stored
                      THEN Cardinality(Queues(m)) + Cardinality(Holders(m))
                              + Cardinality({m} \cap expired) + Cardinality({m} \cap lost) = 1
                      ELSE Queues(m) = {} /\ m \notin expired /\ (Holders(m) # {} \/ m \in lost)
    BY DEF Conserved
  <2>1. CASE m \in stored
    <3>1. Cardinality({}) = 0 /\ \A S : Single(S) => Cardinality(S) = 1
      BY FS_EmptySet, FS_Singleton DEF Single
    <3>2. Alone(Queues(m), Holders(m), {m} \cap expired, {m} \cap lost)
      BY <2>1 DEF Accounted
    <3> QED BY <2>1, <3>1, <3>2 DEF Alone
  <2>2. CASE m \notin stored
    <3>1. \A u \in Users : ~Waiting(m, queue[u])
      BY <2>2 DEF Lines, QueueLine, Waiting
    <3> QED BY <2>2, <3>1, QueuesAre DEF Accounted
  <2> QED BY <2>1, <2>2
<1> QED BY <1>1, <1>2, <1>3, PTL DEF Spec
=============================================================================
