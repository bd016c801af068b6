------------------------ MODULE CheckoutConsumerProofs ------------------------
(***************************************************************************)
(* Theorems about CheckoutConsumer, for any number of consumers, messages, *)
(* copies and faults and any prefetch count.                               *)
(*                                                                         *)
(* That no copy is lost needs to know what each consumer has established   *)
(* when it is about to answer the broker, and that only placed orders are  *)
(* marked as finished (Established).  That repeats are absorbed needs a    *)
(* count of the consumers that may still place the same order: until the   *)
(* message is marked, each order beyond the faults has its consumer still  *)
(* on its way to marking it; afterwards nobody joins those at work         *)
(* (Absorbed).                                                             *)
(***************************************************************************)
EXTENDS CheckoutConsumer, FiniteSetTheorems, TLAPS

\* What a consumer knows when it is about to make a call.
Established ==
    /\ \A c \in Consumers :
          /\ pc[c] = "ack" => Dealt(Message(c))
          /\ pc[c] = "complete" => kind[Message(c)] = "good" /\ orders[Message(c)] > 0
          /\ pc[c] = "aside" => kind[Message(c)] = "contradicting"
          /\ pc[c] = "discard" => kind[Message(c)] = "unreadable"
    /\ \A m \in processed : kind[m] = "good" /\ orders[m] > 0

\* Consumers about to place an order for m, and about to mark m as finished.
Placing(m) == {c \in Consumers : pc[c] = "work" /\ Message(c) = m}
Marking(m) == {c \in Consumers : pc[c] = "complete" /\ Message(c) = m}

Absorbed(m) ==
    IF m \in processed
    THEN orders[m] + Cardinality(Placing(m)) <= Cardinality(Consumers) + faults
    ELSE orders[m] <= Cardinality(Marking(m)) + faults

IInv ==
    /\ TypeOK
    /\ NothingLost
    /\ Established
    /\ \A m \in Messages : Absorbed(m)

-----------------------------------------------------------------------------
(* Sequences of copies                                                     *)

LEMMA ElementsEmpty == Elements(<<>>) = {}
  BY DEF Elements

LEMMA ElementsAppend ==
    ASSUME NEW S, NEW s \in Seq(S), NEW i \in S
    PROVE  /\ Elements(Append(s, i)) = Elements(s) \union {i}
           /\ Append(s, i) \in Seq(S)
           /\ Len(Append(s, i)) = Len(s) + 1
           /\ Append(s, i) # <<>>
           /\ s # <<>> => Head(Append(s, i)) = Head(s)
  <1> DEFINE t == Append(s, i)
  <1>1. /\ t \in Seq(S) /\ Len(t) = Len(s) + 1 /\ DOMAIN t = 1..(Len(s) + 1)
        /\ DOMAIN s = 1..Len(s) /\ Len(s) \in Nat
        /\ \A j \in 1..Len(s) : t[j] = s[j]
        /\ t[Len(s) + 1] = i
    OBVIOUS
  <1>2. t # <<>> /\ (s # <<>> => Head(t) = Head(s))
    BY <1>1
  <1> HIDE DEF t
  <1>3. \A j \in DOMAIN t : t[j] \in Elements(s) \union {i}
    BY <1>1 DEF Elements
  <1>4. \A j \in DOMAIN s : s[j] \in Elements(t)
    BY <1>1 DEF Elements
  <1>5. i \in Elements(t)
    BY <1>1 DEF Elements
  <1>6. Elements(t) = Elements(s) \union {i}
    BY <1>3, <1>4, <1>5 DEF Elements
  <1>7. QED
    BY <1>1, <1>2, <1>6 DEF t

LEMMA ElementsTail ==
    ASSUME NEW S, NEW s \in Seq(S), s # <<>>
    PROVE  /\ Elements(s) = Elements(Tail(s)) \union {Head(s)}
           /\ Tail(s) \in Seq(S)
           /\ Len(Tail(s)) = Len(s) - 1
           /\ Head(s) \in S
  <1>1. Len(s) \in Nat /\ Len(s) > 0 /\ DOMAIN s = 1..Len(s)
    OBVIOUS
  <1>2. /\ Tail(s) \in Seq(S) /\ Len(Tail(s)) = Len(s) - 1
        /\ DOMAIN Tail(s) = 1..(Len(s) - 1)
        /\ \A i \in 1..(Len(s) - 1) : Tail(s)[i] = s[i + 1]
        /\ Head(s) = s[1] /\ Head(s) \in S
    BY <1>1
  <1>3. ASSUME NEW i \in DOMAIN s
        PROVE  s[i] \in Elements(Tail(s)) \union {Head(s)}
    <2>1. CASE i = 1
      BY <1>2, <2>1
    <2>2. CASE i # 1
      <3>1. i - 1 \in DOMAIN Tail(s) /\ Tail(s)[i - 1] = s[i]
        BY <1>1, <1>2, <2>2
      <3>2. QED
        BY <3>1 DEF Elements
    <2>3. QED
      BY <2>1, <2>2
  <1>4. ASSUME NEW i \in DOMAIN Tail(s)
        PROVE  Tail(s)[i] \in Elements(s)
    <2>1. i + 1 \in DOMAIN s /\ Tail(s)[i] = s[i + 1]
      BY <1>1, <1>2
    <2>2. QED
      BY <2>1 DEF Elements
  <1>5. Head(s) \in Elements(s)
    BY <1>1, <1>2 DEF Elements
  <1>6. QED
    BY <1>2, <1>3, <1>4, <1>5 DEF Elements

LEMMA DistinctEmpty == Distinct(<<>>)
  BY DEF Distinct

LEMMA DistinctAppend ==
    ASSUME NEW S, NEW s \in Seq(S), NEW i \in S, Distinct(s), i \notin Elements(s)
    PROVE  Distinct(Append(s, i))
  <1> DEFINE t == Append(s, i)
  <1>1. /\ DOMAIN t = 1..(Len(s) + 1) /\ DOMAIN s = 1..Len(s) /\ Len(s) \in Nat
        /\ \A j \in 1..Len(s) : t[j] = s[j]
        /\ t[Len(s) + 1] = i
    OBVIOUS
  <1> HIDE DEF t
  <1>2. \A j \in DOMAIN t : j \in DOMAIN s \/ j = Len(s) + 1
    BY <1>1
  <1>3. \A j \in DOMAIN s : t[j] = s[j] /\ s[j] # i
    BY <1>1 DEF Elements
  <1>4. Distinct(t)
    BY <1>1, <1>2, <1>3 DEF Distinct
  <1>5. QED
    BY <1>4 DEF t

LEMMA DistinctTail ==
    ASSUME NEW S, NEW s \in Seq(S), s # <<>>, Distinct(s)
    PROVE  Distinct(Tail(s)) /\ Head(s) \notin Elements(Tail(s))
  <1> DEFINE t == Tail(s)
  <1>1. /\ DOMAIN t = 1..(Len(s) - 1) /\ DOMAIN s = 1..Len(s) /\ Len(s) \in Nat /\ Len(s) > 0
        /\ \A j \in 1..(Len(s) - 1) : t[j] = s[j + 1]
        /\ Head(s) = s[1]
    OBVIOUS
  <1> HIDE DEF t
  <1>2. \A j \in DOMAIN t : t[j] = s[j + 1] /\ j + 1 \in DOMAIN s /\ j + 1 # 1 /\ j \in Int
    BY <1>1
  <1>3. 1 \in DOMAIN s
    BY <1>1
  <1>4. Distinct(t)
    <2>1. SUFFICES ASSUME NEW j \in DOMAIN t, NEW k \in DOMAIN t, t[j] = t[k]
                   PROVE  j = k
      BY DEF Distinct
    <2>2. j + 1 = k + 1
      BY <1>2, <2>1 DEF Distinct
    <2>3. QED
      BY <1>2, <2>2
  <1>5. Head(s) \notin Elements(t)
    BY <1>1, <1>2, <1>3 DEF Distinct, Elements
  <1>6. QED
    BY <1>4, <1>5 DEF t

LEMMA ElementsIn ==
    ASSUME NEW S, NEW s \in Seq(S)
    PROVE  Elements(s) \subseteq S
  BY DEF Elements

-----------------------------------------------------------------------------
(* Types                                                                   *)

\* The databases, and what is known of messages.
StoreOK ==
    /\ kind \in [Messages -> Kinds]
    /\ declared \in {"no", "yes"}
    /\ aside \subseteq Messages
    /\ processed \subseteq claimed /\ claimed \subseteq Messages
    /\ orders \in [Messages -> Nat]
    /\ faults \in 0..MaxFaults
    /\ dropped \subseteq Messages /\ discarded \subseteq Messages

\* The broker, and what it has delivered.
QueueOK ==
    /\ body \in Seq(Messages) /\ Len(body) <= MaxCopies
    /\ ready \subseteq Copy
    /\ held \in [Consumers -> Seq(Copy)]
    /\ connected \subseteq Consumers
    /\ \A c \in Consumers :
          /\ Len(held[c]) <= Prefetch /\ Distinct(held[c])
          /\ c \notin connected => held[c] = <<>>
          /\ \A d \in Consumers \ {c} : Elements(held[c]) \intersect Elements(held[d]) = {}
          /\ Elements(held[c]) \intersect ready = {}

\* The consumers, and the copies in their hands.
WorkOK ==
    /\ pc \in [Consumers -> {"loop", "discard", "requeue", "begin", "state", "work",
                             "complete", "aside", "ack"}]
    /\ hand \in [Consumers -> 0..Len(body)]
    /\ \A c \in Consumers : (hand[c] = 0) <=> (pc[c] = "loop")

HeadOK ==
    \A c \in Consumers :
        c \in connected /\ hand[c] # 0 => held[c] # <<>> /\ Head(held[c]) = hand[c]

ClaimOK ==
    \A c \in Consumers : pc[c] \in {"state", "work", "complete"} => Message(c) \in claimed

LEMMA TypeSplit ==
    /\ TypeOK <=> StoreOK /\ QueueOK /\ WorkOK /\ HeadOK /\ ClaimOK
    /\ TypeOK' <=> StoreOK' /\ QueueOK' /\ WorkOK' /\ HeadOK' /\ ClaimOK'
  BY DEF TypeOK, StoreOK, QueueOK, WorkOK, HeadOK, ClaimOK

\* The calls a consumer makes once its message is claimed.
Past == {"state", "work", "complete"}

\* Claims last: only a consumer that moves on to such a call needs to have one.
LEMMA ClaimKept ==
    ASSUME TypeOK, claimed \subseteq claimed',
           \A c \in Consumers :
              \/ pc'[c] \notin Past
              \/ /\ Message(c)' = Message(c)
                 /\ pc'[c] = pc[c] \/ Message(c) \in claimed'
    PROVE  ClaimOK'
  BY DEF TypeOK, ClaimOK, Past

LEMMA InitType == Init => TypeOK
  BY ElementsEmpty, DistinctEmpty, ConsumerAssumption DEF Init, TypeOK, Copy

\* The message in hand is one of the messages.
LEMMA MessageIn ==
    ASSUME TypeOK, NEW c \in Consumers, pc[c] # "loop"
    PROVE  hand[c] \in Copy /\ Message(c) \in Messages
  BY DEF TypeOK, Copy, Message

LEMMA HeldIn ==
    ASSUME TypeOK, NEW c \in Consumers
    PROVE  Elements(held[c]) \subseteq Copy
  BY ElementsIn DEF TypeOK

LEMMA ArriveType ==
    ASSUME TypeOK, NEW m \in Messages, Arrive(m)
    PROVE  TypeOK'
  <1>1. CASE dropped' = dropped \union {m} /\ UNCHANGED <<body, ready>>
    BY <1>1 DEF TypeOK, Arrive, channel, inbox, Copy, Message
  <1>2. CASE /\ body' = Append(body, m)
             /\ ready' = ready \union {Len(body) + 1}
             /\ UNCHANGED dropped
    <2>1. /\ Len(body) \in Nat /\ Len(body') = Len(body) + 1 /\ body' \in Seq(Messages)
          /\ Copy' = Copy \union {Len(body) + 1} /\ Len(body) + 1 \notin Copy
      BY <1>2 DEF TypeOK, Copy
    <2>2. held \in [Consumers -> Seq(Copy')]
      BY <2>1 DEF TypeOK
    <2>3. QueueOK'
      <3>1. UNCHANGED <<held, connected>> /\ Len(body') <= MaxCopies
        BY <2>1, ConsumerAssumption DEF Arrive, channel
      <3>2. ready' \subseteq Copy'
        BY <1>2, <2>1 DEF TypeOK
      <3>3. \A c \in Consumers : Elements(held[c]) \intersect ready' = {}
        BY <1>2, <2>1, HeldIn DEF TypeOK
      <3>4. QED
        BY <2>1, <2>2, <3>1, <3>2, <3>3 DEF TypeOK, QueueOK
    <2>4. StoreOK' /\ HeadOK'
      BY DEF TypeOK, StoreOK, HeadOK, Arrive, channel, inbox
    <2>5. WorkOK'
      <3>1. hand \in [Consumers -> 0..Len(body')]
        BY <2>1 DEF TypeOK
      <3>2. QED
        BY <3>1 DEF TypeOK, WorkOK, Arrive
    <2>6. ClaimOK'
      <3>1. ASSUME NEW c \in Consumers, pc[c] \in Past
            PROVE  Message(c)' = Message(c)
        <4>1. hand[c] \in 1..Len(body)
          BY <3>1, MessageIn DEF Past, Copy
        <4>2. QED
          BY <1>2, <4>1 DEF TypeOK, Message, Arrive
      <3>2. claimed' = claimed /\ pc' = pc
        BY DEF Arrive, inbox
      <3>3. QED
        BY <3>1, <3>2, ClaimKept
    <2>7. QED
      BY <2>3, <2>4, <2>5, <2>6, TypeSplit
  <1>3. QED
    BY <1>1, <1>2 DEF Arrive

LEMMA DeliverType ==
    ASSUME TypeOK, NEW c \in Consumers, Deliver(c)
    PROVE  TypeOK'
  <1>1. PICK i \in ready : /\ ready' = ready \ {i}
                           /\ held' = [held EXCEPT ![c] = Append(@, i)]
    BY DEF Deliver
  <1>2. held[c] \in Seq(Copy) /\ i \in Copy /\ Copy' = Copy
    BY DEF TypeOK, Deliver, Copy
  <1>3. /\ held'[c] = Append(held[c], i)
        /\ \A d \in Consumers \ {c} : held'[d] = held[d]
        /\ held' \in [Consumers -> Seq(Copy)]
    BY <1>1, <1>2, ElementsAppend DEF TypeOK
  <1>4. /\ Elements(held'[c]) = Elements(held[c]) \union {i}
        /\ Len(held'[c]) = Len(held[c]) + 1
        /\ held'[c] # <<>>
        /\ held[c] # <<>> => Head(held'[c]) = Head(held[c])
    BY <1>2, <1>3, ElementsAppend
  <1>5. QueueOK'
    <2>1. Len(held'[c]) <= Prefetch
      BY <1>2, <1>4, ConsumerAssumption DEF Deliver
    <2>2. \A d \in Consumers : i \notin Elements(held[d])
      BY DEF TypeOK
    <2>3. \A d \in Consumers : Elements(held'[d]) \intersect ready' = {}
      BY <1>1, <1>3, <1>4, <2>2 DEF TypeOK
    <2>4. ASSUME NEW d \in Consumers, NEW e \in Consumers \ {d}
          PROVE  Elements(held'[d]) \intersect Elements(held'[e]) = {}
      <3>1. Elements(held[d]) \intersect Elements(held[e]) = {}
        BY <2>4 DEF TypeOK
      <3>2. CASE d = c
        BY <1>3, <1>4, <2>2, <2>4, <3>1, <3>2
      <3>3. CASE e = c
        BY <1>3, <1>4, <2>2, <2>4, <3>1, <3>3
      <3>4. CASE d # c /\ e # c
        BY <1>3, <2>4, <3>1, <3>4
      <3>5. QED
        BY <3>2, <3>3, <3>4
    <2>5. UNCHANGED <<body, connected>> /\ c \in connected
      BY DEF Deliver
    <2>8. Distinct(held'[c])
      BY <1>2, <1>3, <2>2, DistinctAppend DEF TypeOK
    <2>6. ready' \subseteq Copy' /\ held' \in [Consumers -> Seq(Copy')]
      BY <1>1, <1>2, <1>3 DEF TypeOK
    <2>7. QED
      BY <1>3, <2>1, <2>3, <2>4, <2>5, <2>6, <2>8 DEF TypeOK, QueueOK
  <1>6. StoreOK' /\ WorkOK'
    BY DEF TypeOK, StoreOK, WorkOK, Deliver, inbox, history
  <1>7. HeadOK'
    BY <1>3, <1>4 DEF TypeOK, HeadOK, Deliver
  <1>8. ClaimOK'
    BY ClaimKept DEF Deliver, inbox, Message
  <1>9. QED
    BY <1>5, <1>6, <1>7, <1>8, TypeSplit

\* An answer: the first copy held goes, to the queue or for good.
LEMMA AnswerHeld ==
    ASSUME TypeOK, NEW c \in Consumers, pc[c] # "loop", NEW back \in SUBSET {hand[c]},
           Answer(c, back)
    PROVE  /\ QueueOK'
           /\ c \in connected =>
                /\ ready' = ready \union back
                /\ Elements(held[c]) \subseteq Elements(held'[c]) \union {hand[c]}
           /\ c \notin connected => held' = held /\ ready' = ready
           /\ \A d \in Consumers \ {c} : held'[d] = held[d]
           /\ WorkOK' /\ HeadOK'
  <1>1. hand[c] \in Copy /\ Copy' = Copy
    BY MessageIn DEF Answer, Copy
  <1>2. UNCHANGED <<body, connected>>
    BY DEF Answer
  <1>3. WorkOK'
    BY DEF TypeOK, WorkOK, Answer
  <1>4. CASE /\ c \in connected
             /\ held' = [held EXCEPT ![c] = Tail(@)]
             /\ ready' = ready \union back
    <2>1. held[c] \in Seq(Copy) /\ held[c] # <<>> /\ Head(held[c]) = hand[c] /\ Distinct(held[c])
      BY <1>1, <1>4 DEF TypeOK, Copy
    <2>2. /\ held'[c] = Tail(held[c])
          /\ \A d \in Consumers \ {c} : held'[d] = held[d]
          /\ held' \in [Consumers -> Seq(Copy)]
      BY <1>4, <2>1, ElementsTail DEF TypeOK
    <2>3. /\ Elements(held[c]) = Elements(held'[c]) \union {hand[c]}
          /\ Len(held'[c]) = Len(held[c]) - 1
          /\ Len(held[c]) \in Nat
          /\ Distinct(held'[c]) /\ hand[c] \notin Elements(held'[c])
      BY <2>1, <2>2, ElementsTail, DistinctTail
    <2>4. ASSUME NEW d \in Consumers
          PROVE  /\ Elements(held'[d]) \subseteq Elements(held[d])
                 /\ hand[c] \notin Elements(held'[d])
                 /\ Len(held'[d]) <= Prefetch /\ Distinct(held'[d])
      <3>1. CASE d = c
        BY <2>3, <3>1, ConsumerAssumption DEF TypeOK
      <3>2. CASE d # c
        <4>1. Elements(held[c]) \intersect Elements(held[d]) = {}
          BY <3>2 DEF TypeOK
        <4>2. QED
          BY <2>2, <2>3, <3>2, <4>1 DEF TypeOK
      <3>3. QED
        BY <3>1, <3>2
    <2>5. ASSUME NEW d \in Consumers
          PROVE  /\ Elements(held'[d]) \intersect ready' = {}
                 /\ d \notin connected => held'[d] = <<>>
      <3>1. Elements(held[d]) \intersect ready = {} /\ (d \notin connected => held[d] = <<>>)
        BY <2>5 DEF TypeOK
      <3>2. ready' \subseteq ready \union {hand[c]}
        BY <1>4
      <3>3. Elements(held'[d]) \intersect ready' = {}
        BY <2>4, <2>5, <3>1, <3>2
      <3>4. d \notin connected => held'[d] = <<>>
        BY <1>4, <2>2, <2>5, <3>1
      <3>5. QED
        BY <3>3, <3>4
    <2>6. ASSUME NEW d \in Consumers, NEW e \in Consumers \ {d}
          PROVE  Elements(held'[d]) \intersect Elements(held'[e]) = {}
      <3>1. Elements(held[d]) \intersect Elements(held[e]) = {}
        BY <2>6 DEF TypeOK
      <3>2. QED
        BY <2>4, <2>6, <3>1
    <2>7. QueueOK'
      <3>1. ready' \subseteq Copy' /\ held' \in [Consumers -> Seq(Copy')]
        BY <1>1, <1>4, <2>2 DEF TypeOK
      <3>2. QED
        BY <1>2, <2>4, <2>5, <2>6, <3>1 DEF TypeOK, QueueOK
    <2>8. HeadOK'
      BY <1>2, <2>2 DEF TypeOK, HeadOK, Answer
    <2>9. QED
      BY <1>3, <1>4, <2>2, <2>3, <2>7, <2>8
  <1>5. CASE c \notin connected /\ UNCHANGED <<held, ready>>
    <2>1. QueueOK'
      BY <1>1, <1>2, <1>5 DEF TypeOK, QueueOK
    <2>2. HeadOK'
      BY <1>2, <1>5 DEF TypeOK, HeadOK, Answer
    <2>3. QED
      BY <1>3, <1>5, <2>1, <2>2
  <1>6. QED
    BY <1>4, <1>5 DEF Answer

\* The broker takes back what it had delivered.
LEMMA DisconnectHeld ==
    ASSUME TypeOK, NEW c \in Consumers, Disconnect(c)
    PROVE  /\ QueueOK'
           /\ ready' = ready \union Elements(held[c])
           /\ \A d \in Consumers \ {c} : held'[d] = held[d]
  <1>1. /\ UNCHANGED body /\ Copy' = Copy
        /\ connected' = connected \ {c}
        /\ ready' = ready \union Elements(held[c])
    BY DEF Disconnect, Copy
  <1>2. /\ \A d \in Consumers \ {c} : held'[d] = held[d]
        /\ held'[c] = <<>> /\ Elements(held'[c]) = {} /\ Len(held'[c]) = 0
        /\ held' \in [Consumers -> Seq(Copy)]
    BY ElementsEmpty DEF TypeOK, Disconnect
  <1>3. ready' \subseteq Copy
    BY <1>1, HeldIn DEF TypeOK
  <1>4. ASSUME NEW d \in Consumers
        PROVE  /\ Len(held'[d]) <= Prefetch /\ Distinct(held'[d])
               /\ d \notin connected' => held'[d] = <<>>
               /\ Elements(held'[d]) \intersect ready' = {}
    <2>1. CASE d = c
      BY <1>2, <2>1, DistinctEmpty, ConsumerAssumption
    <2>2. CASE d # c
      <3>1. /\ Elements(held[c]) \intersect Elements(held[d]) = {}
            /\ Elements(held[d]) \intersect ready = {}
        BY <2>2 DEF TypeOK
      <3>2. QED
        BY <1>1, <1>2, <2>2, <3>1 DEF TypeOK
    <2>3. QED
      BY <2>1, <2>2
  <1>5. ASSUME NEW d \in Consumers, NEW e \in Consumers \ {d}
        PROVE  Elements(held'[d]) \intersect Elements(held'[e]) = {}
    <2>1. Elements(held[d]) \intersect Elements(held[e]) = {}
      BY <1>5 DEF TypeOK
    <2>2. CASE d = c \/ e = c
      BY <1>2, <1>5, <2>2
    <2>3. CASE d # c /\ e # c
      BY <1>2, <1>5, <2>1, <2>3
    <2>4. QED
      BY <2>2, <2>3
  <1>6. connected' \subseteq Consumers
    BY <1>1 DEF TypeOK
  <1>7. QueueOK'
    BY <1>1, <1>2, <1>3, <1>4, <1>5, <1>6 DEF TypeOK, QueueOK
  <1>8. QED
    BY <1>1, <1>2, <1>7

LEMMA OpenType ==
    ASSUME TypeOK, NEW c \in Consumers, Open(c)
    PROVE  TypeOK'
  <1>1. Copy' = Copy
    BY DEF Open, Copy
  <1>2. StoreOK' /\ WorkOK' /\ HeadOK'
    BY DEF TypeOK, StoreOK, WorkOK, HeadOK, Open, inbox, history
  <1>3. QueueOK'
    BY <1>1 DEF TypeOK, QueueOK, Open
  <1>4. ClaimOK'
    BY ClaimKept DEF Open, inbox, Message
  <1>5. QED
    BY <1>2, <1>3, <1>4, TypeSplit

LEMMA TakeType ==
    ASSUME TypeOK, NEW c \in Consumers, Take(c)
    PROVE  TypeOK'
  <1>1. held[c] \in Seq(Copy) /\ held[c] # <<>>
    BY DEF TypeOK, Take
  <1>2. Head(held[c]) \in Copy
    BY <1>1, ElementsTail
  <1>3. Head(held[c]) \in 0..Len(body) /\ Head(held[c]) # 0
    BY <1>2 DEF Copy, TypeOK
  <1>4. UNCHANGED <<kind, broker, channel, inbox, orders, faults, history>> /\ Copy' = Copy
    BY DEF Take, Copy, broker
  <1>5. QueueOK' /\ StoreOK'
    BY <1>4 DEF TypeOK, QueueOK, StoreOK, broker, channel, inbox, history
  <1>6. WorkOK'
    BY <1>3, <1>4 DEF TypeOK, WorkOK, Take, broker
  <1>7. HeadOK'
    BY <1>3, <1>4 DEF TypeOK, HeadOK, Take, channel
  <1>8. ClaimOK'
    BY <1>4, ClaimKept DEF Take, TypeOK, inbox, broker, Message, Past
  <1>9. QED
    BY <1>5, <1>6, <1>7, <1>8, TypeSplit

LEMMA AnswerType ==
    ASSUME TypeOK, NEW c \in Consumers, Ack(c) \/ Requeue(c) \/ Discard(c)
    PROVE  TypeOK'
  <1>1. pc[c] # "loop" /\ (Answer(c, {}) \/ Answer(c, {hand[c]}))
    BY DEF Ack, Requeue, Discard
  <1>2. QueueOK' /\ WorkOK' /\ HeadOK'
    BY <1>1, AnswerHeld
  <1>3. Message(c) \in Messages
    BY <1>1, MessageIn
  <1>4. StoreOK'
    BY <1>1, <1>3 DEF TypeOK, StoreOK, Answer, Ack, Requeue, Discard, inbox, history
  <1>5. ClaimOK'
    BY <1>1, ClaimKept DEF Answer, TypeOK, inbox, Message, Past
  <1>6. QED
    BY <1>2, <1>4, <1>5, TypeSplit

\* Calls that leave the broker's queue and the hand alone.
LEMMA CallType ==
    ASSUME TypeOK, NEW c \in Consumers,
           \/ Begin(c) \/ ReadState(c) \/ Handle(c) \/ Complete(c) \/ SetAside(c)
           \/ CallFails(c)
    PROVE  TypeOK'
  <1>1. /\ UNCHANGED <<body, ready, held, connected, hand>> /\ Copy' = Copy
        /\ \E q \in {"requeue", "begin", "state", "work", "complete", "aside", "ack"} :
              pc' = [pc EXCEPT ![c] = q]
        /\ pc[c] # "loop"
    BY DEF Begin, ReadState, Handle, Place, Complete, SetAside, CallFails, broker, channel, Copy
  <1>2. QueueOK' /\ WorkOK' /\ HeadOK'
    BY <1>1 DEF TypeOK, QueueOK, WorkOK, HeadOK
  <1>3. Message(c) \in Messages
    BY <1>1, MessageIn
  <1>4. StoreOK'
    <2>1. CASE Begin(c) \/ ReadState(c)
      BY <1>3, <2>1 DEF TypeOK, StoreOK, Begin, ReadState, broker, inbox, history
    <2>2. CASE Handle(c)
      <3>1. UNCHANGED <<kind, broker, inbox, faults, history>>
            /\ orders' \in {orders, [orders EXCEPT ![Message(c)] = @ + 1]}
        BY <2>2 DEF Handle, Place
      <3>2. orders' \in [Messages -> Nat]
        <4>1. \A f : f = [orders EXCEPT ![Message(c)] = @ + 1] => f \in [Messages -> Nat]
          BY <1>3 DEF TypeOK
        <4>2. QED
          BY <3>1, <4>1 DEF TypeOK
      <3>3. QED
        BY <3>1, <3>2 DEF TypeOK, StoreOK, broker, inbox, history
    <2>3. CASE SetAside(c)
      BY <1>3, <2>3 DEF TypeOK, StoreOK, SetAside, inbox, history
    <2>4. CASE Complete(c)
      BY <1>3, <2>4 DEF TypeOK, StoreOK, Complete, broker, history
    <2>5. CASE CallFails(c)
      <3>1. /\ UNCHANGED <<kind, declared, history>>
            /\ faults < MaxFaults /\ faults' = faults + 1
            /\ orders' \in {orders, [orders EXCEPT ![Message(c)] = @ + 1]}
            /\ aside' \in {aside, aside \union {Message(c)}}
            /\ claimed' \in {claimed, claimed \union {Message(c)}}
        BY <2>5 DEF CallFails, Place, inbox
      <3>2. \/ processed' = processed
            \/ pc[c] = "complete" /\ processed' = processed \union {Message(c)}
        BY <2>5 DEF CallFails, Place, inbox
      <3>3. processed' \subseteq claimed'
        BY <3>1, <3>2 DEF TypeOK
      <3>4. orders' \in [Messages -> Nat]
        <4>1. \A f : f = [orders EXCEPT ![Message(c)] = @ + 1] => f \in [Messages -> Nat]
          BY <1>3 DEF TypeOK
        <4>2. QED
          BY <3>1, <4>1 DEF TypeOK
      <3>5. faults' \in 0..MaxFaults
        BY <3>1, ConsumerAssumption DEF TypeOK
      <3>6. aside' \subseteq Messages /\ claimed' \subseteq Messages
        BY <1>3, <3>1 DEF TypeOK
      <3>7. QED
        BY <3>1, <3>3, <3>4, <3>5, <3>6 DEF TypeOK, StoreOK, history
    <2>6. QED
      BY <2>1, <2>2, <2>3, <2>4, <2>5
  <1>5. ClaimOK'
    <2>1. /\ claimed \subseteq claimed'
          /\ pc'[c] \in Past => Message(c) \in claimed'
      BY DEF TypeOK, Past, Begin, ReadState, Handle, Place, Complete, SetAside, CallFails, inbox
    <2>2. \A d \in Consumers : Message(d)' = Message(d)
      BY <1>1 DEF Message
    <2>3. \A d \in Consumers \ {c} : pc'[d] = pc[d]
      BY <1>1 DEF TypeOK
    <2>4. QED
      BY <2>1, <2>2, <2>3, ClaimKept
  <1>6. QED
    BY <1>2, <1>4, <1>5, TypeSplit

LEMMA NextType == TypeOK /\ [Next]_vars => TypeOK'
  <1> SUFFICES ASSUME TypeOK, [Next]_vars
               PROVE  TypeOK'
    OBVIOUS
  <1>1. ASSUME NEW c \in Consumers, Drop(c) \/ Crash(c)
        PROVE  TypeOK'
    <2>1. Disconnect(c) /\ QueueOK'
      BY <1>1, DisconnectHeld DEF Drop, Crash
    <2>2. StoreOK'
      BY <2>1, ConsumerAssumption DEF TypeOK, StoreOK, Disconnect, inbox, history
    <2>3. /\ \/ pc' = pc /\ hand' = hand
             \/ pc' = [pc EXCEPT ![c] = "loop"] /\ hand' = [hand EXCEPT ![c] = 0]
          /\ body' = body /\ connected' = connected \ {c} /\ claimed' = claimed
      <3>1. body' = body /\ connected' = connected \ {c} /\ claimed' = claimed
        BY <2>1 DEF Disconnect, inbox
      <3>2. QED
        BY <1>1, <3>1 DEF Drop, Crash
    <2>4. WorkOK'
      <3>1. CASE pc' = pc /\ hand' = hand
        BY <2>3, <3>1 DEF TypeOK, WorkOK
      <3>2. CASE pc' = [pc EXCEPT ![c] = "loop"] /\ hand' = [hand EXCEPT ![c] = 0]
        <4>1. hand' \in [Consumers -> 0..Len(body')]
          BY <2>3, <3>2 DEF TypeOK
        <4>2. QED
          BY <3>2, <4>1 DEF TypeOK, WorkOK
      <3>3. QED
        BY <2>3, <3>1, <3>2
    <2>5. HeadOK'
      <3>1. \A d \in Consumers \ {c} : held'[d] = held[d] /\ hand'[d] = hand[d]
        BY <2>1, <2>3, DisconnectHeld DEF TypeOK
      <3>2. QED
        BY <2>3, <3>1 DEF TypeOK, HeadOK
    <2>6. ClaimOK'
      <3>1. \A d \in Consumers \ {c} : pc'[d] = pc[d] /\ hand'[d] = hand[d]
        BY <2>3 DEF TypeOK
      <3>2. pc'[c] = "loop" \/ (pc'[c] = pc[c] /\ hand'[c] = hand[c])
        BY <2>3 DEF TypeOK
      <3>3. \A d \in Consumers : pc'[d] = "loop" \/ (pc'[d] = pc[d] /\ Message(d)' = Message(d))
        BY <2>3, <3>1, <3>2 DEF Message
      <3>4. QED
        BY <2>3, <3>3, ClaimKept DEF Past
    <2>7. QED
      BY <2>1, <2>2, <2>4, <2>5, <2>6, TypeSplit
  <1>2. CASE UNCHANGED vars
    BY <1>2 DEF TypeOK, vars, broker, channel, inbox, history, Copy, Message
  <1>3. QED
    BY <1>1, <1>2, ArriveType, DeliverType, OpenType, TakeType, AnswerType, CallType
       DEF Next, ConsumerStep, Rest

\* The queue, its deliveries, the inbox and the consumers keep their shape.
THEOREM ConsumerTypeCorrect == Spec => []TypeOK
  BY InitType, NextType, PTL DEF Spec

-----------------------------------------------------------------------------
(* What lasts                                                              *)

\* Orders are not withdrawn, and what was set aside or discarded stays so.
LEMMA Lasting ==
    ASSUME TypeOK, [Next]_vars
    PROVE  /\ kind' = kind
           /\ aside \subseteq aside' /\ discarded \subseteq discarded'
           /\ \A m \in Messages : orders[m] \in Nat /\ orders[m] <= orders'[m]
  <1>1. kind' = kind /\ aside \subseteq aside' /\ discarded \subseteq discarded'
    BY DEF Next, vars, ConsumerStep, Arrive, Deliver, Open, Take, Ack, Requeue, Discard, Answer,
           Begin, ReadState, Handle, Place, Complete, SetAside, CallFails, Drop, Crash,
           Disconnect,
           Rest, broker, history
  <1>2. \/ orders' = orders
        \/ \E c \in Consumers : /\ pc[c] # "loop"
                                /\ orders' = [orders EXCEPT ![Message(c)] = @ + 1]
    BY DEF Next, vars, ConsumerStep, Arrive, Deliver, Open, Take, Ack, Requeue, Discard, Answer,
           Begin, ReadState, Handle, Place, Complete, SetAside, CallFails, Drop, Crash,
           Disconnect,
           Rest
  <1>3. ASSUME NEW m \in Messages
        PROVE  orders[m] \in Nat /\ orders[m] <= orders'[m]
    <2>1. orders[m] \in Nat
      BY DEF TypeOK
    <2>2. CASE orders' = orders
      BY <2>1, <2>2
    <2>3. ASSUME NEW c \in Consumers, pc[c] # "loop",
                 orders' = [orders EXCEPT ![Message(c)] = @ + 1]
          PROVE  orders[m] <= orders'[m]
      BY <2>1, <2>3, MessageIn DEF TypeOK
    <2>4. QED
      BY <1>2, <2>1, <2>2, <2>3
  <1>4. QED
    BY <1>1, <1>3

LEMMA DealtLasts ==
    ASSUME TypeOK, [Next]_vars, NEW m \in Messages, Dealt(m)
    PROVE  Dealt(m)'
  <1>1. orders[m] > 0 => orders'[m] > 0
    BY Lasting, NextType DEF TypeOK
  <1>2. QED
    BY <1>1, Lasting DEF Dealt

\* The copy in hand and its message stay until the consumer is through.
LEMMA MessageKept ==
    ASSUME TypeOK, [Next]_vars, NEW c \in Consumers, pc[c] # "loop", pc'[c] # "loop"
    PROVE  Message(c)' = Message(c)
  <1>1. hand[c] \in 1..Len(body) /\ Len(body) \in Nat
    BY MessageIn DEF Copy, TypeOK
  <1>2. hand'[c] = hand[c]
    BY DEF TypeOK, Next, vars, ConsumerStep, Arrive, Deliver, Open, Take, Ack, Requeue, Discard,
           Answer, Begin, ReadState, Handle, Place, Complete, SetAside, CallFails, Drop, Crash, Rest
  <1>3. body' = body \/ \E m \in Messages : body' = Append(body, m)
    BY DEF Next, vars, ConsumerStep, Arrive, Deliver, Open, Take, Ack, Requeue, Discard, Answer,
           Begin, ReadState, Handle, Place, Complete, SetAside, CallFails, Drop, Crash,
           Disconnect,
           Rest, broker
  <1>4. body'[hand[c]] = body[hand[c]]
    BY <1>1, <1>3 DEF TypeOK
  <1>5. QED
    BY <1>2, <1>4 DEF Message

\* Only its own steps move a consumer.
LEMMA OwnSteps ==
    ASSUME TypeOK, [Next]_vars, NEW c \in Consumers, pc'[c] # pc[c]
    PROVE  ConsumerStep(c) \/ CallFails(c) \/ Crash(c)
  <1>1. ASSUME NEW d \in Consumers \ {c}, ConsumerStep(d) \/ CallFails(d) \/ Crash(d)
        PROVE  pc'[c] = pc[c]
    BY <1>1 DEF TypeOK, ConsumerStep, Open, Take, Ack, Requeue, Discard, Answer, Begin, ReadState,
                Handle, Place, Complete, SetAside, CallFails, Crash
  <1>2. QED
    BY <1>1 DEF Next, vars, Arrive, Deliver, Drop, Rest

-----------------------------------------------------------------------------
(* No copy is lost                                                         *)

\* What one consumer knows.
Knows(c) ==
    /\ pc[c] = "ack" => Dealt(Message(c))
    /\ pc[c] = "complete" => kind[Message(c)] = "good" /\ orders[Message(c)] > 0
    /\ pc[c] = "aside" => kind[Message(c)] = "contradicting"
    /\ pc[c] = "discard" => kind[Message(c)] = "unreadable"

LEMMA EstablishedSplit ==
    /\ Established <=> /\ \A c \in Consumers : Knows(c)
                       /\ \A m \in processed : kind[m] = "good" /\ orders[m] > 0
    /\ Established' <=> /\ \A c \in Consumers : Knows(c)'
                        /\ \A m \in processed' : kind'[m] = "good" /\ orders'[m] > 0
  BY DEF Established, Knows

LEMMA KnowsStays ==
    ASSUME TypeOK, Established, [Next]_vars, NEW c \in Consumers
    PROVE  Knows(c)'
  <1> DEFINE m == Message(c)
  <1>1. CASE pc'[c] = pc[c] /\ pc[c] # "loop"
    <2>1. Message(c)' = m /\ m \in Messages
      BY <1>1, MessageKept, MessageIn
    <2>2. Knows(c)
      BY EstablishedSplit
    <2>3. Dealt(m) => Dealt(m)'
      BY <2>1, DealtLasts
    <2>4. kind'[m] = kind[m] /\ (orders[m] > 0 => orders'[m] > 0)
      <3>1. kind' = kind /\ orders[m] \in Nat /\ orders[m] <= orders'[m]
        BY <2>1, Lasting
      <3>2. orders' \in [Messages -> Nat]
        BY NextType DEF TypeOK
      <3>3. orders'[m] \in Nat
        BY <2>1, <3>2
      <3>4. QED
        BY <3>1, <3>3
    <2>5. pc[c] = "ack" => Dealt(Message(c))'
      <3>1. Dealt(Message(c))' <=> Dealt(m)'
        BY <2>1 DEF Dealt
      <3>2. QED
        BY <2>2, <2>3, <3>1 DEF Knows
    <2>6. QED
      BY <1>1, <2>1, <2>2, <2>4, <2>5 DEF Knows
  <1>2. CASE pc'[c] = "loop"
    BY <1>2 DEF Knows
  <1>3. CASE pc'[c] # pc[c] /\ pc'[c] # "loop"
    <2>1. CASE Take(c)
      <3>1. pc'[c] = "discard" => kind[body[Head(held[c])]] = "unreadable"
        BY <2>1 DEF Take, TypeOK
      <3>2. pc'[c] \in {"discard", "requeue", "begin"}
        BY <2>1 DEF Take, TypeOK
      <3>3. Message(c)' = body[Head(held[c])]
        BY <2>1 DEF Take, TypeOK, Message, broker
      <3>4. QED
        BY <2>1, <3>1, <3>2, <3>3 DEF Knows, Take
    <2>2. CASE Begin(c) \/ CallFails(c)
      BY <2>2 DEF Begin, CallFails, Place, TypeOK, Knows
    <2>3. CASE ReadState(c)
      <3>1. Message(c)' = m
        BY <2>3 DEF ReadState, Message, broker
      <3>2. pc'[c] = "work" \/ (pc'[c] = "ack" /\ m \in processed)
        BY <2>3 DEF ReadState, TypeOK
      <3>3. m \in processed => kind'[m] = "good" /\ orders'[m] > 0
        BY <2>3 DEF Established, ReadState
      <3>4. QED
        BY <3>1, <3>2, <3>3 DEF Knows, Dealt
    <2>4. CASE Handle(c)
      <3>1. Message(c)' = m /\ kind' = kind /\ m \in Messages
        BY <2>4, MessageIn DEF Handle, Place, Message, broker
      <3>2. \/ pc'[c] = "aside" /\ kind[m] = "contradicting"
            \/ pc'[c] = "requeue"
            \/ pc'[c] = "complete" /\ kind[m] = "good" /\ orders'[m] = orders[m] + 1
        BY <2>4, <3>1 DEF Handle, Place, TypeOK
      <3>3. orders[m] \in Nat
        BY <3>1 DEF TypeOK
      <3>4. QED
        BY <3>1, <3>2, <3>3 DEF Knows
    <2>5. CASE Complete(c)
      <3>1. Message(c)' = m /\ UNCHANGED <<kind, orders>> /\ pc'[c] = "ack"
        BY <2>5 DEF Complete, Message, broker, TypeOK
      <3>2. kind[m] = "good" /\ orders[m] > 0
        BY <2>5 DEF Complete, Established
      <3>3. QED
        BY <3>1, <3>2 DEF Knows, Dealt
    <2>6. CASE SetAside(c)
      <3>1. Message(c)' = m /\ UNCHANGED kind
        BY <2>6 DEF SetAside, Message
      <3>2. kind[m] = "contradicting"
        BY <2>6 DEF SetAside, Established
      <3>3. (pc'[c] = "ack" /\ m \in aside') \/ pc'[c] = "requeue"
        BY <2>6 DEF SetAside, TypeOK
      <3>4. QED
        BY <3>1, <3>2, <3>3 DEF Knows, Dealt
    <2>7. CASE Open(c) \/ Ack(c) \/ Requeue(c) \/ Discard(c) \/ Crash(c)
      BY <1>3, <2>7 DEF Open, Ack, Requeue, Discard, Answer, Crash, TypeOK
    <2>8. QED
      BY <1>3, OwnSteps, <2>1, <2>2, <2>3, <2>4, <2>5, <2>6, <2>7 DEF ConsumerStep
  <1>4. QED
    BY <1>1, <1>2, <1>3

LEMMA EstablishedStays ==
    ASSUME TypeOK, Established, [Next]_vars
    PROVE  Established'
  <1>1. ASSUME NEW m \in processed'
        PROVE  kind'[m] = "good" /\ orders'[m] > 0
    <2>1. \/ m \in processed
          \/ \E c \in Consumers : pc[c] = "complete" /\ m = Message(c)
      BY DEF Next, vars, ConsumerStep, Arrive, Deliver, Open, Take, Ack, Requeue, Discard, Answer,
             Begin, ReadState, Handle, Place, Complete, SetAside, CallFails, Drop, Crash,
             Disconnect,
             Rest, inbox
    <2>2. kind[m] = "good" /\ orders[m] > 0
      BY <2>1 DEF Established
    <2>3. m \in Messages
      BY NextType DEF TypeOK
    <2>4. QED
      BY <2>2, <2>3, Lasting, NextType DEF TypeOK
  <1>2. QED
    BY <1>1, KnowsStays, EstablishedSplit

\* A copy stays in the queue unless its message has been dealt with.
LEMMA CopyKept ==
    ASSUME TypeOK, Established, [Next]_vars, NEW i \in Copy, InQueue(i),
           NEW m \in Messages, m = body[i]
    PROVE  InQueue(i)' \/ Dealt(m)'
  <1> USE DEF InQueue
  <1>1. ASSUME NEW c \in Consumers, Deliver(c)
        PROVE  InQueue(i)'
    <2>1. PICK j \in ready : /\ ready' = ready \ {j}
                             /\ held' = [held EXCEPT ![c] = Append(@, j)]
      BY <1>1 DEF Deliver
    <2>2. held[c] \in Seq(Copy) /\ j \in Copy
      BY DEF TypeOK
    <2>3. Elements(held'[c]) = Elements(held[c]) \union {j}
      BY <2>1, <2>2, ElementsAppend DEF TypeOK
    <2>4. \A d \in Consumers \ {c} : held'[d] = held[d]
      BY <2>1 DEF TypeOK
    <2>5. QED
      BY <2>1, <2>3, <2>4
  <1>2. ASSUME NEW c \in Consumers, Ack(c) \/ Requeue(c) \/ Discard(c)
        PROVE  InQueue(i)' \/ Dealt(m)'
    <2>1. PICK back \in SUBSET {hand[c]} :
              Answer(c, back) /\ (Requeue(c) => back = {hand[c]})
      BY <1>2 DEF Ack, Requeue, Discard
    <2>2. pc[c] # "loop"
      BY <1>2 DEF Ack, Requeue, Discard
    <2>3. /\ c \in connected => /\ ready' = ready \union back
                                /\ Elements(held[c]) \subseteq Elements(held'[c]) \union {hand[c]}
          /\ c \notin connected => held' = held /\ ready' = ready
          /\ \A d \in Consumers \ {c} : held'[d] = held[d]
      BY <2>1, <2>2, AnswerHeld
    <2>4. CASE i # hand[c] \/ Requeue(c)
      BY <2>1, <2>3, <2>4
    <2>5. CASE i = hand[c] /\ ~Requeue(c)
      <3>1. Message(c) = m
        BY <2>5 DEF Message
      <3>2. CASE Ack(c)
        BY <3>1, <3>2, DealtLasts DEF Established, Ack
      <3>3. CASE Discard(c)
        <4>1. kind[Message(c)] = "unreadable" /\ kind' = kind /\ body' = body
          BY <3>3 DEF Established, Discard, Answer
        <4>2. Message(c) \in discarded'
          BY <3>3 DEF Discard
        <4>3. QED
          BY <3>1, <4>1, <4>2 DEF Dealt
      <3>4. QED
        BY <1>2, <2>5, <3>2, <3>3
    <2>6. QED
      BY <2>4, <2>5
  <1>3. ASSUME NEW c \in Consumers, Drop(c) \/ Crash(c)
        PROVE  InQueue(i)'
    BY <1>3, DisconnectHeld DEF Drop, Crash
  <1>4. ASSUME NEW c \in Consumers,
               \/ Open(c) \/ Take(c) \/ Begin(c) \/ ReadState(c) \/ Handle(c) \/ Complete(c)
               \/ SetAside(c) \/ CallFails(c)
        PROVE  InQueue(i)'
    BY <1>4 DEF Open, Take, Begin, ReadState, Handle, Place, Complete, SetAside, CallFails, broker,
                channel
  <1>5. ASSUME NEW k \in Messages, Arrive(k)
        PROVE  InQueue(i)'
    BY <1>5 DEF Arrive, channel
  <1>6. CASE UNCHANGED vars
    BY <1>6 DEF vars, broker, channel
  <1>7. QED
    BY <1>1, <1>2, <1>3, <1>4, <1>5, <1>6 DEF Next, ConsumerStep, Rest

LEMMA NothingLostStays ==
    ASSUME TypeOK, Established, NothingLost, [Next]_vars
    PROVE  NothingLost'
  <1>1. CASE body' = body
    <2>1. SUFFICES ASSUME NEW i \in Copy, NEW m \in Messages, m = body[i]
                   PROVE  InQueue(i)' \/ Dealt(m)'
      <3>1. Copy' = Copy /\ \A i \in Copy : body[i] \in Messages
        BY <1>1 DEF Copy, TypeOK
      <3>2. QED
        BY <1>1, <3>1 DEF NothingLost, Dealt
    <2>2. CASE InQueue(i)
      BY <2>1, <2>2, CopyKept
    <2>3. CASE Dealt(m)
      BY <2>1, <2>3, DealtLasts
    <2>4. QED
      BY <2>1, <2>2, <2>3 DEF NothingLost
  <1>2. CASE body' # body
    <2>1. PICK m \in Messages : /\ body' = Append(body, m)
                                /\ ready' = ready \union {Len(body) + 1}
                                /\ UNCHANGED <<kind, aside, held, orders, discarded>>
      BY <1>2 DEF Next, vars, ConsumerStep, Arrive, Deliver, Open, Take, Ack, Requeue, Discard,
                  Answer, Begin, ReadState, Handle, Place, Complete, SetAside, CallFails,
                  Drop, Crash,
                  Disconnect, Rest, broker, channel
    <2>2. Len(body) \in Nat /\ body \in Seq(Messages)
      BY DEF TypeOK
    <2>3. ASSUME NEW i \in Copy', i # Len(body) + 1
          PROVE  i \in Copy /\ body'[i] = body[i]
      BY <2>1, <2>2, <2>3 DEF Copy
    <2>4. QED
      BY <2>1, <2>3 DEF NothingLost, InQueue, Dealt
  <1>3. QED
    BY <1>1, <1>2

-----------------------------------------------------------------------------
(* Repeats are absorbed                                                    *)

\* Sets that agree but for c differ in number by whether c belongs to them.
LEMMA CountChange ==
    ASSUME NEW X, NEW Y, NEW c, IsFiniteSet(X), Y \ {c} = X \ {c}
    PROVE  /\ IsFiniteSet(Y) /\ Cardinality(X) \in Nat /\ Cardinality(Y) \in Nat
           /\ (c \in X <=> c \in Y) => Cardinality(Y) = Cardinality(X)
           /\ c \in Y /\ c \notin X => Cardinality(Y) = Cardinality(X) + 1
           /\ c \notin Y /\ c \in X => Cardinality(Y) = Cardinality(X) - 1
  <1>1. IsFiniteSet(X \ {c}) /\ Cardinality(X \ {c}) =
            IF c \in X THEN Cardinality(X) - 1 ELSE Cardinality(X)
    BY FS_RemoveElement
  <1>2. CASE c \in Y
    <2>1. Y = (X \ {c}) \union {c} /\ c \notin X \ {c}
      BY <1>2
    <2>2. IsFiniteSet(Y) /\ Cardinality(Y) = Cardinality(X \ {c}) + 1
      BY <1>1, <2>1, FS_AddElement
    <2>3. QED
      BY <1>1, <1>2, <2>2, FS_CardinalityType
  <1>3. CASE c \notin Y
    <2>1. Y = X \ {c}
      BY <1>3
    <2>2. QED
      BY <1>1, <1>3, <2>1, FS_CardinalityType
  <1>4. QED
    BY <1>2, <1>3

LEMMA CountFinite ==
    ASSUME NEW m
    PROVE  /\ IsFiniteSet(Placing(m)) /\ IsFiniteSet(Marking(m))
           /\ IsFiniteSet(Placing(m)') /\ IsFiniteSet(Marking(m)')
           /\ Cardinality(Placing(m)) \in Nat /\ Cardinality(Marking(m)) \in Nat
           /\ Cardinality(Placing(m)') \in Nat /\ Cardinality(Marking(m)') \in Nat
           /\ Cardinality(Consumers) \in Nat
           /\ Cardinality(Placing(m)) + Cardinality(Marking(m)) <= Cardinality(Consumers)
  <1>1. /\ Placing(m) \subseteq Consumers /\ Marking(m) \subseteq Consumers
        /\ Placing(m)' \subseteq Consumers /\ Marking(m)' \subseteq Consumers
        /\ Placing(m) \intersect Marking(m) = {}
    BY DEF Placing, Marking
  <1>2. /\ IsFiniteSet(Placing(m)) /\ IsFiniteSet(Marking(m))
        /\ IsFiniteSet(Placing(m)') /\ IsFiniteSet(Marking(m)')
    BY <1>1, ConsumerAssumption, FS_Subset
  <1>3. Cardinality(Placing(m) \union Marking(m))
            = Cardinality(Placing(m)) + Cardinality(Marking(m))
    <2>1. Cardinality(Placing(m) \union Marking(m))
            = Cardinality(Placing(m)) + Cardinality(Marking(m))
                - Cardinality(Placing(m) \intersect Marking(m))
      BY <1>2, FS_Union
    <2>2. Cardinality(Placing(m) \intersect Marking(m)) = 0
      BY <1>1, FS_EmptySet
    <2>3. Cardinality(Placing(m)) \in Nat /\ Cardinality(Marking(m)) \in Nat
      BY <1>2, FS_CardinalityType
    <2>4. QED
      BY <2>1, <2>2, <2>3
  <1>4. Cardinality(Placing(m) \union Marking(m)) <= Cardinality(Consumers)
    BY <1>1, ConsumerAssumption, FS_Subset
  <1>5. QED
    BY <1>2, <1>3, <1>4, ConsumerAssumption, FS_CardinalityType

\* A step of c, as far as it can change the two sets.
LEMMA CountOwn ==
    ASSUME NEW c \in Consumers, NEW m,
           \A d \in Consumers \ {c} : \/ pc'[d] = pc[d] /\ Message(d)' = Message(d)
                                      \/ pc'[d] = "loop" /\ pc[d] = "loop"
    PROVE  /\ Placing(m)' \ {c} = Placing(m) \ {c}
           /\ Marking(m)' \ {c} = Marking(m) \ {c}
           /\ c \in Placing(m) <=> pc[c] = "work" /\ Message(c) = m
           /\ c \in Marking(m) <=> pc[c] = "complete" /\ Message(c) = m
           /\ c \in Placing(m)' <=> pc'[c] = "work" /\ Message(c)' = m
           /\ c \in Marking(m)' <=> pc'[c] = "complete" /\ Message(c)' = m
  BY DEF Placing, Marking

\* Nobody gets near a second order: the count stands.
LEMMA AbsorbedKept ==
    ASSUME TypeOK, NEW m \in Messages, Absorbed(m),
           orders'[m] = orders[m], faults' \in {faults, faults + 1},
           m \in processed' <=> m \in processed,
           Marking(m)' = Marking(m) \/ m \in processed,
           m \in processed => Placing(m)' \subseteq Placing(m)
    PROVE  Absorbed(m)'
  <1>1. orders[m] \in Nat /\ faults \in Nat
    BY DEF TypeOK
  <1>2. CASE m \in processed
    <2>1. Cardinality(Placing(m)') <= Cardinality(Placing(m))
      BY <1>2, CountFinite, FS_Subset
    <2>2. QED
      BY <1>1, <1>2, <2>1, CountFinite DEF Absorbed
  <1>3. CASE m \notin processed
    BY <1>1, <1>3, CountFinite DEF Absorbed
  <1>4. QED
    BY <1>2, <1>3

LEMMA OthersSame ==
    ASSUME TypeOK, NEW c \in Consumers, ConsumerStep(c) \/ CallFails(c) \/ Crash(c)
    PROVE  \A d \in Consumers \ {c} : pc'[d] = pc[d] /\ Message(d)' = Message(d)
  <1>1. body' = body
    BY DEF ConsumerStep, Open, Take, Ack, Requeue, Discard, Answer, Begin, ReadState, Handle,
           Place, Complete, SetAside, CallFails, Crash, Disconnect, broker
  <1>2. \A d \in Consumers \ {c} : pc'[d] = pc[d] /\ hand'[d] = hand[d]
    BY DEF TypeOK, ConsumerStep, Open, Take, Ack, Requeue, Discard, Answer, Begin, ReadState,
           Handle, Place, Complete, SetAside, CallFails, Crash
  <1>3. QED
    BY <1>1, <1>2 DEF Message

\* Steps that neither place nor mark.
LEMMA QuietAbsorbed ==
    ASSUME TypeOK, NEW m \in Messages, Absorbed(m), NEW c \in Consumers,
           \/ Open(c) \/ Take(c) \/ Ack(c) \/ Requeue(c) \/ Discard(c) \/ SetAside(c)
           \/ Begin(c) \/ ReadState(c)
    PROVE  Absorbed(m)'
  <1>1. \A d \in Consumers \ {c} : pc'[d] = pc[d] /\ Message(d)' = Message(d)
    BY OthersSame DEF ConsumerStep
  <1>2. UNCHANGED <<orders, processed, faults>>
    BY DEF Open, Take, Ack, Requeue, Discard, Answer, SetAside, Begin, ReadState, inbox
  <1>3. /\ pc[c] \notin {"work", "complete"} /\ pc'[c] # "complete"
        /\ pc'[c] = "work" => Message(c)' = Message(c) /\ Message(c) \notin processed
    BY DEF TypeOK, Open, Take, Ack, Requeue, Discard, Answer, SetAside, Begin, ReadState, broker,
           Message
  <1>4. Marking(m)' = Marking(m)
    BY <1>1, <1>3, CountOwn
  <1>5. m \in processed => Placing(m)' \subseteq Placing(m)
    BY <1>1, <1>3, CountOwn
  <1>6. QED
    BY <1>2, <1>4, <1>5, AbsorbedKept

LEMMA HandleAbsorbed ==
    ASSUME TypeOK, NEW m \in Messages, Absorbed(m), NEW c \in Consumers, Handle(c)
    PROVE  Absorbed(m)'
  <1>1. /\ \A d \in Consumers \ {c} : pc'[d] = pc[d] /\ Message(d)' = Message(d)
        /\ Message(c)' = Message(c)
        /\ UNCHANGED <<processed, faults>> /\ pc[c] = "work"
    BY OthersSame DEF ConsumerStep, Handle, Place, inbox, broker, Message
  <1>2. CASE kind[Message(c)] = "good" /\ Message(c) = m
    <2>1. orders'[m] = orders[m] + 1 /\ pc'[c] = "complete" /\ orders[m] \in Nat /\ faults \in Nat
      BY <1>2 DEF Handle, Place, TypeOK
    <2>2. /\ c \in Placing(m) /\ c \notin Placing(m)' /\ Placing(m)' \ {c} = Placing(m) \ {c}
          /\ c \notin Marking(m) /\ c \in Marking(m)' /\ Marking(m)' \ {c} = Marking(m) \ {c}
      BY <1>1, <1>2, <2>1, CountOwn
    <2>3. /\ Cardinality(Placing(m)') = Cardinality(Placing(m)) - 1
          /\ Cardinality(Marking(m)') = Cardinality(Marking(m)) + 1
      BY <2>2, CountFinite, CountChange
    <2>4. QED
      BY <1>1, <2>1, <2>3, CountFinite DEF Absorbed
  <1>3. CASE ~(kind[Message(c)] = "good" /\ Message(c) = m)
    <2>1. orders'[m] = orders[m]
      BY <1>3 DEF Handle, Place, TypeOK
    <2>2. pc'[c] # "work" /\ (pc'[c] = "complete" => Message(c) # m)
      BY <1>3 DEF Handle, Place, TypeOK
    <2>3. Marking(m)' = Marking(m) /\ Placing(m)' \subseteq Placing(m)
      BY <1>1, <2>2, CountOwn
    <2>4. QED
      BY <1>1, <2>1, <2>3, AbsorbedKept DEF TypeOK
  <1>4. QED
    BY <1>2, <1>3

LEMMA CompleteAbsorbed ==
    ASSUME TypeOK, NEW m \in Messages, Absorbed(m), NEW c \in Consumers, Complete(c)
    PROVE  Absorbed(m)'
  <1>1. /\ \A d \in Consumers \ {c} : pc'[d] = pc[d] /\ Message(d)' = Message(d)
        /\ Message(c)' = Message(c)
        /\ UNCHANGED <<orders, faults>>
        /\ pc[c] = "complete" /\ pc'[c] = "ack"
        /\ processed' = processed \union {Message(c)}
    BY OthersSame DEF ConsumerStep, Complete, broker, Message, TypeOK
  <1>2. Placing(m)' = Placing(m)
    <2>1. /\ Placing(m)' \ {c} = Placing(m) \ {c}
          /\ c \notin Placing(m) /\ c \notin Placing(m)'
      BY <1>1, CountOwn
    <2>2. QED
      BY <2>1
  <1>3. CASE m = Message(c) \/ m \in processed
    <2>1. orders[m] \in Nat /\ faults \in Nat
      BY DEF TypeOK
    <2>2. m \in processed'
      BY <1>1, <1>3
    <2>3. QED
      BY <1>1, <1>2, <2>1, <2>2, CountFinite DEF Absorbed
  <1>4. CASE m # Message(c) /\ m \notin processed
    <2>1. Marking(m)' = Marking(m) /\ m \notin processed'
      BY <1>1, <1>4, CountOwn
    <2>2. QED
      BY <1>1, <1>2, <1>4, <2>1, AbsorbedKept
  <1>5. QED
    BY <1>3, <1>4

LEMMA CallFailsAbsorbed ==
    ASSUME TypeOK, NEW m \in Messages, Absorbed(m), NEW c \in Consumers, CallFails(c)
    PROVE  Absorbed(m)'
  <1>1. /\ \A d \in Consumers \ {c} : pc'[d] = pc[d] /\ Message(d)' = Message(d)
        /\ Message(c)' = Message(c)
        /\ faults' = faults + 1 /\ pc'[c] = "requeue"
    BY OthersSame DEF CallFails, Place, Message, TypeOK
  <1>2. orders[m] \in Nat /\ faults \in Nat
    BY DEF TypeOK
  <1>3. CASE pc[c] = "work" /\ Message(c) = m
    <2>1. orders'[m] \in {orders[m], orders[m] + 1} /\ processed' = processed
      <3>1. /\ processed' = processed
            /\ orders' = orders \/ orders' = [orders EXCEPT ![m] = @ + 1]
        BY <1>3 DEF CallFails, Place, inbox
      <3>2. QED
        BY <3>1 DEF TypeOK
    <2>2. /\ c \in Placing(m) /\ c \notin Placing(m)' /\ Placing(m)' \ {c} = Placing(m) \ {c}
          /\ Marking(m)' = Marking(m)
      <3>1. /\ c \in Placing(m) /\ c \notin Placing(m)' /\ Placing(m)' \ {c} = Placing(m) \ {c}
            /\ c \notin Marking(m) /\ c \notin Marking(m)'
            /\ Marking(m)' \ {c} = Marking(m) \ {c}
        BY <1>1, <1>3, CountOwn
      <3>2. QED
        BY <3>1
    <2>3. Cardinality(Placing(m)') = Cardinality(Placing(m)) - 1
      BY <2>2, CountFinite, CountChange
    <2>4. QED
      BY <1>1, <1>2, <2>1, <2>2, <2>3, CountFinite DEF Absorbed
  <1>4. CASE pc[c] = "complete" /\ Message(c) = m
    <2>1. orders' = orders
      BY <1>4 DEF CallFails, Place
    <2>2. /\ c \in Marking(m) /\ c \notin Marking(m)' /\ Marking(m)' \ {c} = Marking(m) \ {c}
          /\ Placing(m)' = Placing(m)
      BY <1>1, <1>4, CountOwn
    <2>3. Cardinality(Marking(m)') = Cardinality(Marking(m)) - 1
      BY <2>2, CountFinite, CountChange
    <2>4. m \in processed => m \in processed'
      BY <1>4 DEF CallFails, Place
    <2>5. QED
      BY <1>1, <1>2, <2>1, <2>2, <2>3, <2>4, CountFinite DEF Absorbed
  <1>5. CASE ~(pc[c] \in {"work", "complete"} /\ Message(c) = m)
    <2>1. orders'[m] = orders[m] /\ (m \in processed' <=> m \in processed)
      BY <1>5 DEF CallFails, Place, TypeOK, inbox
    <2>2. Placing(m)' = Placing(m) /\ Marking(m)' = Marking(m)
      BY <1>1, <1>5, CountOwn
    <2>3. QED
      BY <1>1, <2>1, <2>2, AbsorbedKept
  <1>6. QED
    BY <1>3, <1>4, <1>5

LEMMA CrashAbsorbed ==
    ASSUME TypeOK, NEW m \in Messages, Absorbed(m), NEW c \in Consumers, Crash(c)
    PROVE  Absorbed(m)'
  <1>1. /\ \A d \in Consumers \ {c} : pc'[d] = pc[d] /\ Message(d)' = Message(d)
        /\ faults' = faults + 1 /\ pc'[c] = "loop"
        /\ UNCHANGED <<orders, processed>>
    BY OthersSame DEF Crash, Disconnect, TypeOK, inbox
  <1>2. orders[m] \in Nat /\ faults \in Nat
    BY DEF TypeOK
  <1>3. /\ Placing(m)' \ {c} = Placing(m) \ {c} /\ c \notin Placing(m)'
        /\ Marking(m)' \ {c} = Marking(m) \ {c} /\ c \notin Marking(m)'
    BY <1>1, CountOwn
  <1>4. /\ Cardinality(Placing(m)') <= Cardinality(Placing(m))
        /\ Cardinality(Marking(m)') >= Cardinality(Marking(m)) - 1
    BY <1>3, CountFinite, CountChange
  <1>5. QED
    BY <1>1, <1>2, <1>4, CountFinite DEF Absorbed

LEMMA AbsorbedStays ==
    ASSUME TypeOK, [Next]_vars, NEW m \in Messages, Absorbed(m)
    PROVE  Absorbed(m)'
  <1>1. CASE \/ UNCHANGED vars \/ \E k \in Messages : Arrive(k)
             \/ \E c \in Consumers : Deliver(c) \/ Drop(c)
    <2>1. UNCHANGED <<pc, orders, processed>> /\ faults' \in {faults, faults + 1}
      BY <1>1 DEF vars, Arrive, Deliver, Drop, Disconnect, inbox
    <2>2. \A c \in Consumers : pc[c] # "loop" => Message(c)' = Message(c)
      BY <2>1, MessageKept
    <2>3. Placing(m)' = Placing(m) /\ Marking(m)' = Marking(m)
      BY <2>1, <2>2 DEF Placing, Marking
    <2>4. QED
      BY <2>1, <2>3, AbsorbedKept
  <1>2. QED
    BY <1>1, QuietAbsorbed, HandleAbsorbed, CompleteAbsorbed, CallFailsAbsorbed, CrashAbsorbed
       DEF Next, ConsumerStep, Rest

LEMMA AbsorbedEnough ==
    ASSUME TypeOK, \A m \in Messages : Absorbed(m)
    PROVE  RepeatsAreAbsorbed
  <1> SUFFICES ASSUME NEW m \in Messages
               PROVE  orders[m] <= Cardinality(Consumers) + faults
    BY DEF RepeatsAreAbsorbed
  <1>1. orders[m] \in Nat /\ faults \in Nat
    BY DEF TypeOK
  <1>2. QED
    BY <1>1, CountFinite DEF Absorbed

-----------------------------------------------------------------------------
\* The invariant that is kept by every step.
THEOREM ConsumerInvariant == Spec => []IInv
  <1>1. Init => IInv
    <2> SUFFICES ASSUME Init
                 PROVE  IInv
      OBVIOUS
    <2>1. ASSUME NEW m \in Messages
          PROVE  Absorbed(m)
      BY CountFinite DEF Init, Absorbed
    <2>2. NothingLost /\ Established
      BY DEF Init, NothingLost, Established, Copy
    <2>3. QED
      BY <2>1, <2>2, InitType DEF IInv
  <1>2. IInv /\ [Next]_vars => IInv'
    BY NextType, NothingLostStays, EstablishedStays, AbsorbedStays DEF IInv
  <1>3. QED
    BY <1>1, <1>2, PTL DEF Spec

\* A copy leaves the queue only when its message became an order, was set aside or
\* cannot be read, for any number of consumers, whatever failed in between
\* (Subscriber.handle, Subscriber.setAside, Idempotent).
THEOREM ConsumerLosesNothing == Spec => []NothingLost
  <1>1. IInv => NothingLost
    BY DEF IInv
  <1>2. QED
    BY <1>1, ConsumerInvariant, PTL

\* However often a message is repeated, it becomes no more orders than there are
\* consumers and faults (InboxStore.Begin, InboxStore.Complete).
THEOREM ConsumerAbsorbsRepeats == Spec => []RepeatsAreAbsorbed
  <1>1. IInv => RepeatsAreAbsorbed
    BY AbsorbedEnough DEF IInv
  <1>2. QED
    BY <1>1, ConsumerInvariant, PTL
=============================================================================
