----------------------- MODULE CheckoutCompositionProofs -----------------------
(***************************************************************************)
(* Theorems about the two compositions, each from the theorems about its   *)
(* parts; those about KafkaConsumer are stated here, of the group that     *)
(* CheckoutSubscription composes (K).  Every behaviour of                  *)
(* CheckoutSubscription is one of CheckoutConsumer and one of              *)
(* KafkaConsumer, the part that was not selected standing still.  Every    *)
(* behaviour of CheckoutPipeline is one of CheckoutRelay and one of        *)
(* CheckoutConsumer; what the parts do not say is that the broker's taking *)
(* of a message and its arrival are one step (Arrived).                    *)
(***************************************************************************)
EXTENDS CheckoutSubscription, CheckoutPipeline, CheckoutConsumerProofs

-----------------------------------------------------------------------------
(* A consumer group of Kafka, for any number of consumers, messages and    *)
(* faults.                                                                 *)
(*                                                                         *)
(* What the group's offset covers is right because of what the consumer    *)
(* that committed it had gone past: everything below the message in its    *)
(* hand (Behind), whether or not it still owns the partition.  The owner's *)
(* reader in turn is ahead of that by the message in hand only (Reading).  *)

LEMMA GroupAssumption ==
    K!Nobody \notin Members /\ MaxOffset \in Nat /\ MaxGroupFaults \in Nat
  BY KafkaAssumption DEF K!Nobody, Nobody

\* The group is through with message i, for better or worse.
Passed(i) == K!Dealt(i) \/ i \in left

\* What a consumer has in hand is all that it leaves open.
Behind(c) ==
    /\ \A i \in K!Offsets : i < groupHand[c] => Passed(i)
    /\ groupPc[c] = "commit" => K!Dealt(groupHand[c])
    /\ groupPc[c] = "aside" => groupKind[groupHand[c]] = "contradicting"

\* The owner's reader has gone past nothing but the message in the owner's hand.
Reading ==
    owner # K!Nobody => \A i \in K!Offsets : i < position => Passed(i) \/ i = groupHand[owner]

GroupIInv ==
    /\ K!TypeOK
    /\ K!OnlyFailuresAreSkipped
    /\ \A c \in Members : Behind(c)
    /\ Reading

-----------------------------------------------------------------------------
LEMMA GroupInitType == K!Init => K!TypeOK
  BY GroupAssumption DEF K!Init, K!TypeOK, K!Offsets, K!None

LEMMA GroupHandType ==
    ASSUME K!TypeOK, NEW c \in Members, groupPc[c] # "loop"
    PROVE  groupHand[c] \in K!Offsets /\ groupHand[c] + 1 \in 0..end
  <1>1. groupHand[c] \in 0..(end - 1) /\ end \in 0..MaxOffset
    BY DEF K!TypeOK
  <1>2. QED
    BY <1>1, GroupAssumption DEF K!Offsets

\* A consumer is at work on what it has in hand, or through with it.
LEMMA GroupContinueType ==
    ASSUME K!TypeOK, NEW c \in Members, K!Continue(c), end' = end
    PROVE  /\ groupPc' \in [Members -> {"loop", "deliver", "aside", "commit"}]
           /\ groupHand' \in [Members -> (0..(end' - 1)) \union {K!None}]
           /\ \A d \in Members : (groupHand'[d] = K!None) <=> (groupPc'[d] = "loop")
  BY DEF K!TypeOK, K!Continue

LEMMA GroupWorkType ==
    ASSUME K!TypeOK, NEW c \in Members, groupPc[c] # "loop", NEW p \in {"aside", "commit"},
           groupPc' = [groupPc EXCEPT ![c] = p], groupHand' = groupHand, end' = end
    PROVE  /\ groupPc' \in [Members -> {"loop", "deliver", "aside", "commit"}]
           /\ groupHand' \in [Members -> (0..(end' - 1)) \union {K!None}]
           /\ \A d \in Members : (groupHand'[d] = K!None) <=> (groupPc'[d] = "loop")
  BY DEF K!TypeOK

LEMMA GroupStepType ==
    ASSUME K!TypeOK, NEW c \in Members, K!ConsumerStep(c) \/ K!Crash(c)
    PROVE  K!TypeOK'
  <1> USE GroupAssumption
  <1>1. CASE K!Fetch(c)
    <2>1. /\ position \in 0..(end - 1) /\ position \in K!Offsets
          /\ position' \in 0..end /\ end' = end
      BY <1>1 DEF K!Fetch, K!TypeOK, K!Offsets
    <2>2. PICK p \in {"commit", "deliver"} : groupPc' = [groupPc EXCEPT ![c] = p]
      BY <1>1 DEF K!Fetch
    <2>3. groupHand' = [groupHand EXCEPT ![c] = position]
      BY <1>1 DEF K!Fetch
    <2>4. \A d \in Members : (groupHand'[d] = K!None) <=> (groupPc'[d] = "loop")
      BY <2>1, <2>2, <2>3 DEF K!TypeOK, K!None
    <2>5. skipped' \subseteq K!Offsets
      BY <1>1, <2>1 DEF K!Fetch, K!TypeOK
    <2>6. UNCHANGED <<groupKind, committed, owner, done, groupAside, groupFaults, left>>
      BY <1>1 DEF K!Fetch, K!effect
    <2>7. QED
      BY <2>1, <2>2, <2>3, <2>4, <2>5, <2>6 DEF K!TypeOK
  <1>2. CASE K!Deliver(c)
    <2>1. PICK p \in {"aside", "commit"} : groupPc' = [groupPc EXCEPT ![c] = p]
      BY <1>2 DEF K!Deliver
    <2>2. done' \subseteq K!Offsets
      BY <1>2, GroupHandType DEF K!Deliver, K!TypeOK
    <2>3. UNCHANGED <<groupKind, end, committed, owner, position, groupHand, groupAside,
    groupFaults, skipped, left>>
      BY <1>2 DEF K!Deliver, K!partition, K!history
    <2>4. QED
      BY <1>2, <2>1, <2>2, <2>3, GroupWorkType DEF K!TypeOK, K!Deliver
  <1>3. CASE K!SetAside(c)
    <2>1. groupAside' \subseteq K!Offsets
      BY <1>3, GroupHandType DEF K!SetAside, K!TypeOK
    <2>2. UNCHANGED <<groupKind, end, committed, owner, position, groupHand, done, groupFaults,
    skipped, left>>
      BY <1>3 DEF K!SetAside, K!partition, K!history
    <2>3. QED
      BY <1>3, <2>1, <2>2, GroupWorkType DEF K!TypeOK, K!SetAside
  <1>4. CASE K!DeliverFails(c) \/ K!SetAsideFails(c)
    <2>1. K!Leave(c) /\ groupPc[c] # "loop"
      BY <1>4 DEF K!DeliverFails, K!SetAsideFails
    <2>2. done' \subseteq K!Offsets /\ groupAside' \subseteq K!Offsets /\ left' \subseteq K!Offsets
      BY <1>4, <2>1, GroupHandType DEF K!DeliverFails, K!SetAsideFails, K!Leave, K!TypeOK
    <2>3. groupFaults' \in 0..MaxGroupFaults
      BY <1>4 DEF K!DeliverFails, K!SetAsideFails, K!TypeOK
    <2>4. K!Continue(c) /\ UNCHANGED <<groupKind, end, committed, owner, position, skipped>>
      BY <2>1 DEF K!Leave, K!partition
    <2>5. QED
      BY <2>2, <2>3, <2>4, GroupContinueType DEF K!TypeOK
  <1>5. CASE K!Commit(c) \/ K!CommitFails(c)
    <2>1. K!Continue(c) /\ groupPc[c] # "loop"
      BY <1>5 DEF K!Commit, K!CommitFails
    <2>2. committed' \in 0..end
      BY <1>5, <2>1, GroupHandType DEF K!Commit, K!CommitFails, K!TypeOK
    <2>3. groupFaults' \in 0..MaxGroupFaults
      BY <1>5 DEF K!Commit, K!CommitFails, K!TypeOK
    <2>4. UNCHANGED <<groupKind, end, owner, position, done, groupAside, skipped, left>>
      BY <1>5 DEF K!Commit, K!CommitFails, K!effect, K!history
    <2>5. QED
      BY <2>1, <2>2, <2>3, <2>4, GroupContinueType DEF K!TypeOK
  <1>6. CASE K!Crash(c)
    <2>1. K!Continue(c) /\ UNCHANGED <<groupKind, end, committed, position, done, groupAside,
    skipped, left>>
      BY <1>6 DEF K!Crash, K!effect, K!history
    <2>2. groupFaults' \in 0..MaxGroupFaults /\ owner' \in Members \union {K!Nobody}
      BY <1>6 DEF K!Crash, K!TypeOK
    <2>3. QED
      BY <2>1, <2>2, GroupContinueType DEF K!TypeOK
  <1>7. QED
    BY <1>1, <1>2, <1>3, <1>4, <1>5, <1>6 DEF K!ConsumerStep

LEMMA GroupNextType == ASSUME K!TypeOK, [K!Next]_(K!vars) PROVE K!TypeOK'
  <1> USE GroupAssumption
  <1>1. CASE K!Publish
    BY <1>1 DEF K!Publish, K!partition, K!consumer, K!effect, K!history, K!TypeOK, K!None
  <1>2. ASSUME NEW c \in Members, K!Join(c) \/ K!Rebalance(c) PROVE K!TypeOK'
    BY <1>2 DEF K!Join, K!Rebalance, K!Assign, K!consumer, K!effect, K!history, K!TypeOK
  <1>3. CASE K!Rest \/ UNCHANGED K!vars
    BY <1>3 DEF K!Rest, K!vars, K!partition, K!consumer, K!effect, K!history, K!TypeOK
  <1>4. QED
    BY <1>1, <1>2, <1>3, GroupStepType DEF K!Next

\* The partition, its group and every consumer keep their shape: a consumer has a
\* message in hand exactly while it works on it (the loop of Subscribe).
THEOREM KafkaTypeCorrect == K!Spec => []K!TypeOK
  BY GroupInitType, GroupNextType, PTL DEF K!Spec

-----------------------------------------------------------------------------
\* What was done, set aside, skipped or left stays so.
LEMMA GroupPassedLasts ==
    ASSUME K!TypeOK, [K!Next]_(K!vars), NEW i
    PROVE  (K!Dealt(i) => K!Dealt(i)') /\ (Passed(i) => Passed(i)')
  <1>1. /\ groupKind' = groupKind
        /\ done \subseteq done' /\ groupAside \subseteq groupAside'
        /\ skipped \subseteq skipped' /\ left \subseteq left'
    BY DEF K!Next, K!ConsumerStep, K!Publish, K!Join, K!Rebalance, K!Assign, K!Fetch, K!Deliver,
           K!DeliverFails,
           K!Leave, K!Continue, K!SetAside, K!SetAsideFails, K!Commit, K!CommitFails, K!Crash,
           K!Rest,
           K!effect, K!history, K!vars
  <1>2. QED
    BY <1>1 DEF K!Dealt, Passed

\* A consumer's step leaves the others' work alone.
LEMMA GroupOthersKeep ==
    ASSUME K!TypeOK, NEW c \in Members, NEW d \in Members \ {c}, K!ConsumerStep(c) \/ K!Crash(c)
    PROVE  groupPc'[d] = groupPc[d] /\ groupHand'[d] = groupHand[d]
  BY DEF K!TypeOK, K!ConsumerStep, K!Fetch, K!Deliver, K!DeliverFails, K!Leave, K!Continue,
         K!SetAside,
         K!SetAsideFails, K!Commit, K!CommitFails, K!Crash

\* A consumer that keeps what it has in hand keeps what it knows.
LEMMA GroupBehindKept ==
    ASSUME K!TypeOK, [K!Next]_(K!vars), NEW c \in Members, Behind(c),
           groupPc'[c] = groupPc[c], groupHand'[c] = groupHand[c]
    PROVE  Behind(c)'
  <1>1. groupKind' = groupKind
    BY DEF K!Next, K!ConsumerStep, K!Publish, K!Join, K!Rebalance, K!Assign, K!Fetch, K!Deliver,
           K!DeliverFails,
           K!Leave, K!Continue, K!SetAside, K!SetAsideFails, K!Commit, K!CommitFails, K!Crash,
           K!Rest,
           K!effect, K!history, K!vars
  <1>2. \A i : (K!Dealt(i) => K!Dealt(i)') /\ (Passed(i) => Passed(i)')
    BY GroupPassedLasts
  <1>3. QED
    BY <1>1, <1>2 DEF Behind, K!Dealt, Passed

LEMMA GroupOthersBehind ==
    ASSUME K!TypeOK, [K!Next]_(K!vars), \A d \in Members : Behind(d),
           NEW c \in Members, K!ConsumerStep(c) \/ K!Crash(c)
    PROVE  \A d \in Members \ {c} : Behind(d)'
  BY GroupBehindKept, GroupOthersKeep

\* With nothing in hand there is nothing to answer for.
LEMMA GroupBehindIdle ==
    ASSUME K!TypeOK, NEW c \in Members, K!Continue(c)
    PROVE  Behind(c)'
  <1>1. groupHand'[c] = K!None /\ groupPc'[c] = "loop"
    BY DEF K!Continue, K!TypeOK
  <1>2. \A i \in K!Offsets : ~(i < K!None)
    BY GroupAssumption DEF K!Offsets, K!None
  <1>3. QED
    BY <1>1, <1>2 DEF Behind

LEMMA GroupBehindStays ==
    ASSUME GroupIInv, [K!Next]_(K!vars), K!TypeOK'
    PROVE  \A c \in Members : Behind(c)'
  <1> USE DEF GroupIInv
  <1>1. CASE K!Publish \/ K!Rest \/ UNCHANGED K!vars
    <2>1. UNCHANGED <<groupPc, groupHand>>
      BY <1>1 DEF K!Publish, K!Rest, K!vars, K!consumer
    <2>2. QED
      BY <2>1, GroupBehindKept
  <1>2. ASSUME NEW c \in Members, K!Join(c) \/ K!Rebalance(c)
        PROVE  \A d \in Members : Behind(d)'
    <2>1. UNCHANGED <<groupPc, groupHand>>
      BY <1>2 DEF K!Join, K!Rebalance, K!Assign, K!consumer
    <2>2. QED
      BY <2>1, GroupBehindKept
  <1>3. ASSUME NEW c \in Members, K!ConsumerStep(c) \/ K!Crash(c)
        PROVE  \A d \in Members : Behind(d)'
    <2>1. SUFFICES Behind(c)'
      BY <1>3, GroupOthersBehind
    <2>2. \A i : (K!Dealt(i) => K!Dealt(i)') /\ (Passed(i) => Passed(i)')
      BY GroupPassedLasts
    <2>3. CASE K!Fetch(c)
      <3>1. groupHand[c] = K!None /\ owner = c /\ c # K!Nobody /\ position \in K!Offsets
        BY <2>3, GroupAssumption DEF K!Fetch, K!TypeOK, K!Offsets
      <3>2. \A i \in K!Offsets : i < position => Passed(i)
        BY <3>1, GroupAssumption DEF Reading, K!Offsets, K!None
      <3>3. /\ groupHand'[c] = position
            /\ groupPc'[c] = "commit" => groupKind[position] = "unreadable" /\ position \in skipped'
            /\ groupPc'[c] # "aside" /\ groupKind' = groupKind
        BY <2>3 DEF K!Fetch, K!TypeOK
      <3>4. (groupPc[c] = "commit" => K!Dealt(groupHand[c]))'
        BY <3>3 DEF K!Dealt
      <3>5. QED
        BY <2>2, <3>2, <3>3, <3>4 DEF Behind, K!Dealt, Passed
    <2>4. CASE K!Deliver(c) \/ K!SetAside(c)
      <3>1. groupHand' = groupHand /\ groupKind' = groupKind
        BY <2>4 DEF K!Deliver, K!SetAside, K!partition
      <3>2. /\ groupPc'[c] = "commit" => K!Dealt(groupHand[c])'
            /\ groupPc'[c] = "aside" => groupKind[groupHand[c]] = "contradicting"
        BY <2>4, <3>1 DEF K!Deliver, K!SetAside, K!TypeOK, K!Dealt, Behind
      <3>3. \A i \in K!Offsets : i < groupHand[c] => Passed(i)
        BY DEF Behind
      <3>4. QED
        BY <2>2, <3>1, <3>2, <3>3 DEF Behind, K!Dealt, Passed
    <2>5. CASE K!DeliverFails(c) \/ K!SetAsideFails(c) \/ K!Commit(c) \/ K!CommitFails(c) \/
    K!Crash(c)
      <3>1. K!Continue(c)
        BY <2>5 DEF K!DeliverFails, K!SetAsideFails, K!Leave, K!Commit, K!CommitFails, K!Crash
      <3>2. QED
        BY <3>1, GroupBehindIdle
    <2>6. QED
      BY <1>3, <2>3, <2>4, <2>5 DEF K!ConsumerStep
  <1>4. QED
    BY <1>1, <1>2, <1>3 DEF K!Next

LEMMA GroupReadingStays == ASSUME GroupIInv, [K!Next]_(K!vars), K!TypeOK' PROVE Reading'
  <1> USE DEF GroupIInv
  <1>1. \A i : (K!Dealt(i) => K!Dealt(i)') /\ (Passed(i) => Passed(i)')
    BY GroupPassedLasts
  <1>2. CASE K!Publish \/ K!Rest \/ UNCHANGED K!vars
    <2>1. UNCHANGED <<owner, position, groupHand>>
      BY <1>2 DEF K!Publish, K!Rest, K!vars, K!partition, K!consumer
    <2>2. QED
      BY <1>1, <2>1 DEF Reading, Passed, K!Dealt
  <1>3. ASSUME NEW c \in Members, K!Join(c) \/ K!Rebalance(c) PROVE Reading'
    <2>1. position' = committed
      BY <1>3 DEF K!Join, K!Rebalance, K!Assign
    <2>2. \A i \in K!Offsets : i < committed => Passed(i)'
      BY <1>1 DEF K!OnlyFailuresAreSkipped, Passed
    <2>3. QED
      BY <2>1, <2>2 DEF Reading, Passed, K!Dealt
  <1>4. ASSUME NEW c \in Members, K!ConsumerStep(c) \/ K!Crash(c) PROVE Reading'
    <2>1. CASE K!Fetch(c)
      <3>1. groupHand[c] = K!None /\ owner = c /\ c # K!Nobody
        BY <2>1, GroupAssumption DEF K!Fetch, K!TypeOK
      <3>2. position' = position + 1 /\ groupHand'[c] = position /\ owner' = c /\ position \in Nat
        BY <2>1, <3>1 DEF K!Fetch, K!TypeOK
      <3>3. \A i \in K!Offsets : i < position => Passed(i)
        BY <3>1, GroupAssumption DEF Reading, K!Offsets, K!None
      <3>4. \A i \in K!Offsets : i < position' => i < position \/ i = position
        BY <3>2, GroupAssumption DEF K!Offsets
      <3>5. QED
        BY <1>1, <3>2, <3>3, <3>4 DEF Reading, Passed, K!Dealt
    <2>2. CASE ~K!Fetch(c)
      <3>1. position' = position /\ owner' \in {owner, K!Nobody}
        BY <1>4, <2>2 DEF K!ConsumerStep, K!Deliver, K!DeliverFails, K!Leave, K!SetAside,
                          K!SetAsideFails,
                          K!Commit, K!CommitFails, K!Crash, K!partition
      <3>2. owner # c => owner \in Members \ {c} \/ owner = K!Nobody
        BY DEF K!TypeOK
      <3>3. CASE owner \in Members \ {c}
        <4>1. groupHand'[owner] = groupHand[owner]
          BY <1>4, <3>3, GroupOthersKeep
        <4>2. QED
          BY <1>1, <3>1, <4>1 DEF Reading, Passed, K!Dealt
      <3>4. CASE owner = c
        <4>1. CASE K!Deliver(c) \/ K!SetAside(c)
          <5>1. groupHand' = groupHand
            BY <4>1 DEF K!Deliver, K!SetAside
          <5>2. QED
            BY <1>1, <3>1, <5>1 DEF Reading, Passed, K!Dealt
        <4>2. CASE K!DeliverFails(c) \/ K!SetAsideFails(c)
          <5>1. groupHand[c] \in left'
            BY <4>2 DEF K!DeliverFails, K!SetAsideFails, K!Leave
          <5>2. \A i \in K!Offsets : i < position => Passed(i)'
            BY <1>1, <3>4, <5>1, GroupAssumption DEF Reading, Passed
          <5>3. QED
            BY <3>1, <5>2 DEF Reading, Passed, K!Dealt
        <4>3. CASE K!Commit(c) \/ K!CommitFails(c)
          <5>1. K!Dealt(groupHand[c])
            BY <4>3 DEF K!Commit, K!CommitFails, Behind
          <5>2. \A i \in K!Offsets : i < position => Passed(i)'
            BY <1>1, <3>4, <5>1, GroupAssumption DEF Reading, Passed
          <5>3. QED
            BY <3>1, <5>2 DEF Reading, Passed, K!Dealt
        <4>4. CASE K!Crash(c)
          <5>1. owner' = K!Nobody
            BY <3>4, <4>4 DEF K!Crash
          <5>2. QED
            BY <5>1 DEF Reading
        <4>5. QED
          BY <1>4, <2>2, <4>1, <4>2, <4>3, <4>4 DEF K!ConsumerStep
      <3>5. CASE owner = K!Nobody
        BY <3>1, <3>5 DEF Reading
      <3>6. QED
        BY <3>2, <3>3, <3>4, <3>5
    <2>3. QED
      BY <2>1, <2>2
  <1>5. QED
    BY <1>2, <1>3, <1>4 DEF K!Next

LEMMA GroupSkippedStays == ASSUME GroupIInv, [K!Next]_(K!vars) PROVE K!OnlyFailuresAreSkipped'
  <1> USE DEF GroupIInv
  <1>1. \A i : (K!Dealt(i) => K!Dealt(i)') /\ (Passed(i) => Passed(i)')
    BY GroupPassedLasts
  <1>2. CASE committed' = committed
    BY <1>1, <1>2 DEF K!OnlyFailuresAreSkipped, Passed
  <1>3. CASE committed' # committed
    <2>1. PICK c \in Members : groupPc[c] = "commit" /\ committed' = groupHand[c] + 1
      BY <1>3 DEF K!Next, K!ConsumerStep, K!Publish, K!Join, K!Rebalance, K!Assign, K!Fetch,
                  K!Deliver,
                  K!DeliverFails, K!Leave, K!SetAside, K!SetAsideFails, K!Commit, K!CommitFails,
                  K!Crash, K!Rest,
                  K!vars, K!partition
    <2>2. groupHand[c] \in K!Offsets /\ K!Dealt(groupHand[c])
      BY <2>1, GroupHandType DEF Behind
    <2>3. \A i \in K!Offsets : i < groupHand[c] + 1 => i < groupHand[c] \/ i = groupHand[c]
      BY <2>2, GroupAssumption DEF K!Offsets
    <2>4. \A i \in K!Offsets : i < committed' => Passed(i)
      BY <2>1, <2>2, <2>3 DEF Behind, Passed
    <2>5. QED
      BY <1>1, <2>4 DEF K!OnlyFailuresAreSkipped, Passed
  <1>4. QED
    BY <1>2, <1>3

\* What is known of every consumer and of the group's offset between two calls.
THEOREM KafkaInvariant == K!Spec => []GroupIInv
  <1>1. K!Init => GroupIInv
    <2> SUFFICES ASSUME K!Init PROVE GroupIInv
      OBVIOUS
    <2>1. \A i \in K!Offsets : ~(i < 0) /\ ~(i < K!None)
      BY GroupAssumption DEF K!Offsets, K!None
    <2>2. K!OnlyFailuresAreSkipped /\ Reading
      BY <2>1 DEF K!Init, K!OnlyFailuresAreSkipped, Reading
    <2>3. \A c \in Members : Behind(c)
      BY <2>1 DEF K!Init, Behind
    <2>4. QED
      BY <2>2, <2>3, GroupInitType DEF GroupIInv
  <1>2. GroupIInv /\ [K!Next]_(K!vars) => GroupIInv'
    BY GroupNextType, GroupBehindStays, GroupReadingStays, GroupSkippedStays DEF GroupIInv
  <1>3. QED
    BY <1>1, <1>2, PTL DEF K!Spec

\* The group's offset covers a message only when it was dealt with or a consumer
\* failed on it: no crash, rebalance or late commit skips one (Subscribe).
THEOREM KafkaSkipsOnlyFailures == K!Spec => []K!OnlyFailuresAreSkipped
  <1>1. GroupIInv => K!OnlyFailuresAreSkipped
    BY DEF GroupIInv
  <1>2. QED
    BY <1>1, KafkaInvariant, PTL

\* A message is dealt with only after every earlier one of its partition was, or
\* had failed, whoever works on it (the sequential loop of Subscribe).
THEOREM KafkaKeepsOrder == K!Spec => K!InPartitionOrder
  <1>1. GroupIInv /\ [K!Next]_(K!vars) =>
            [\A i \in (done' \union groupAside') \ (done \union groupAside) :
                \A j \in K!Offsets : j < i => K!Dealt(j) \/ j \in left]_(K!vars)
    <2> SUFFICES ASSUME GroupIInv, K!Next,
    NEW i \in (done' \union groupAside') \ (done \union groupAside)
                 PROVE  \A j \in K!Offsets : j < i => K!Dealt(j) \/ j \in left
      BY DEF K!vars, K!effect
    <2>1. PICK c \in Members : i = groupHand[c]
      BY DEF K!Next, K!ConsumerStep, K!Publish, K!Join, K!Rebalance, K!Assign, K!Fetch, K!Deliver,
             K!DeliverFails, K!SetAside, K!SetAsideFails, K!Commit, K!CommitFails, K!Crash, K!Rest,
             K!vars, K!effect
    <2>2. QED
      BY <2>1 DEF GroupIInv, Behind, Passed
  <1>2. QED
    BY <1>1, KafkaInvariant, PTL DEF K!Spec, K!InPartitionOrder

-----------------------------------------------------------------------------
(* The subscription *)

\* The service behaves as RabbitMQ's consumers do, or leaves them alone.
THEOREM SubscriptionIsQueue == SubscriptionSpec => Spec
  <1>1. SubscriptionInit => Init
    BY DEF SubscriptionInit
  <1>2. [SubscriptionNext]_all => [Next]_vars
    BY DEF SubscriptionNext, OnQueue, OnGroup, Refused, all, queue
  <1>3. QED
    BY <1>1, <1>2, PTL DEF SubscriptionSpec, Spec

\* The service behaves as a Kafka consumer group does, or leaves it alone.
THEOREM SubscriptionIsGroup == SubscriptionSpec => K!Spec
  <1>1. SubscriptionInit => K!Init
    BY DEF SubscriptionInit
  <1>2. [SubscriptionNext]_all => [K!Next]_(K!vars)
    BY DEF SubscriptionNext, OnQueue, OnGroup, Refused, all, group, K!vars, K!partition,
           K!consumer, K!effect, K!history
  <1>3. QED
    BY <1>1, <1>2, PTL DEF SubscriptionSpec, K!Spec

\* On Kafka, the group's offset covers a message only when it was dealt with or a
\* consumer failed on it (Subscribe commits after the handler).
THEOREM SubscriptionSkipsOnlyFailures == SubscriptionSpec => []OnlyFailuresAreSkipped
  BY KafkaSkipsOnlyFailures, SubscriptionIsGroup, PTL DEF OnlyFailuresAreSkipped

\* On Kafka, a message is dealt with only after every earlier one of its partition
\* was, or had failed, whoever works on it (the sequential loop of Subscribe).
THEOREM SubscriptionKeepsOrder == SubscriptionSpec => InPartitionOrder
  BY KafkaKeepsOrder, SubscriptionIsGroup, PTL DEF InPartitionOrder

\* On RabbitMQ, a copy leaves the queue only when its message was dealt with.
THEOREM SubscriptionLosesNothing == SubscriptionSpec => []NothingLost
  BY SubscriptionIsQueue, ConsumerLosesNothing, PTL

-----------------------------------------------------------------------------
(* The pipeline *)

RP == INSTANCE CheckoutRelayProofs WITH
        pc <- relayPc, faults <- relayFaults, MaxFaults <- MaxRelayFaults

\* Stated of the model's instance and of the proofs' instance, a relay is one.
LEMMA RelayAssumed == RP!RelayAssumption
  BY PipelineAssumption DEF RP!RelayAssumption, RP!IsFiniteSet, IsFiniteSet

LEMMA SameRelayInit == R!Init <=> RP!Init
  BY DEF R!Init, RP!Init, R!Message, RP!Message

LEMMA SameRelayVars == UNCHANGED relays => UNCHANGED RP!vars
  BY DEF relays, RP!vars, RP!rows, RP!relay, RP!history

LEMMA RecordActs ==
    ASSUME NEW m, R!Record(m) \/ R!BecomeDue(m)
    PROVE  RP!Record(m) \/ RP!BecomeDue(m)
  <1>1. CASE R!Record(m)
    BY <1>1 DEF R!Record, RP!Record, R!relay, RP!relay
  <1>2. CASE R!BecomeDue(m)
    BY <1>2 DEF R!BecomeDue, RP!BecomeDue, R!relay, RP!relay, R!history, RP!history
  <1>3. QED
    BY <1>1, <1>2

LEMMA CycleActs ==
    ASSUME NEW r
    PROVE  /\ R!Due(r) => RP!Due(r)
           /\ R!BreakOff(r) => RP!BreakOff(r)
  <1>1. R!Due(r) => RP!Due(r)
    BY DEF R!Due, RP!Due, R!rows, RP!rows, R!history, RP!history, R!Oldest, RP!Oldest,
           R!Message, RP!Message, R!Cardinality, RP!Cardinality
  <1>2. R!BreakOff(r) => RP!BreakOff(r)
    BY DEF R!BreakOff, RP!BreakOff, R!EndCycle, RP!EndCycle, R!rows, RP!rows, R!history,
           RP!history, R!Message, RP!Message
  <1>3. QED
    BY <1>1, <1>2

LEMMA SameNextMessage == \A r, m : R!NextMessage(r, m) <=> RP!NextMessage(r, m)
  BY DEF R!NextMessage, RP!NextMessage, R!EndCycle, RP!EndCycle, R!Message, RP!Message

LEMMA MessageActs ==
    ASSUME NEW r, NEW m
    PROVE  /\ R!PublishAccepted(r, m) => RP!PublishAccepted(r, m)
           /\ R!PublishFailed(r, m) => RP!PublishFailed(r, m)
           /\ R!Delete(r, m) => RP!Delete(r, m)
           /\ R!Fail(r, m) => RP!Fail(r, m)
           /\ R!Poison(r, m) => RP!Poison(r, m)
  <1>1. R!PublishAccepted(r, m) => RP!PublishAccepted(r, m)
    BY DEF R!PublishAccepted, RP!PublishAccepted, R!First, RP!First, R!rows, RP!rows,
           R!history, RP!history
  <1>2. R!PublishFailed(r, m) => RP!PublishFailed(r, m)
    BY DEF R!PublishFailed, RP!PublishFailed, R!First, RP!First, R!rows, RP!rows,
           R!history, RP!history
  <1>3. R!Delete(r, m) => RP!Delete(r, m)
    BY SameNextMessage DEF R!Delete, RP!Delete, R!First, RP!First, R!history, RP!history
  <1>4. R!Fail(r, m) => RP!Fail(r, m)
    BY SameNextMessage DEF R!Fail, RP!Fail, R!First, RP!First, R!history, RP!history
  <1>5. R!Poison(r, m) => RP!Poison(r, m)
    BY SameNextMessage DEF R!Poison, RP!Poison, R!First, RP!First, R!history, RP!history
  <1>6. QED
    BY <1>1, <1>2, <1>3, <1>4, <1>5

\* The relays of the pipeline behave as CheckoutRelay says.
THEOREM PipelineIsRelay == PipelineSpec => RP!Spec
  <1>1. PipelineInit => RP!Init
    BY SameRelayInit DEF PipelineInit
  <1>2. ASSUME [PipelineNext]_pipeline
        PROVE  [RP!Next]_(RP!vars)
    <2>1. CASE Basket
      BY <2>1, RecordActs DEF Basket, RP!Next, RP!Message
    <2>2. ASSUME NEW r \in Relays, RelayAlone(r)
          PROVE  RP!Next
      BY <2>2, CycleActs, MessageActs DEF RelayAlone, RP!Next, RP!RelayStep, RP!Message
    <2>3. ASSUME NEW r \in Relays, NEW m \in 1..MaxMessages, Handover(r, m)
          PROVE  RP!Next
      BY <2>3, MessageActs DEF Handover, RP!Next, RP!RelayStep, RP!Message
    <2>4. ASSUME NEW r \in Relays, RelayBreaksOff(r)
          PROVE  RP!Next
      BY <2>4, CycleActs DEF RelayBreaksOff, RP!Next
    <2>5. CASE \/ \E c \in Consumers : ConsumerAlone(c)
               \/ PipelineRest \/ UNCHANGED pipeline
      BY <2>5, SameRelayVars DEF ConsumerAlone, PipelineRest, pipeline
    <2>6. QED
      BY <1>2, <2>1, <2>2, <2>3, <2>4, <2>5 DEF PipelineNext, RelayStep
  <1>3. QED
    BY <1>1, <1>2, PTL DEF PipelineSpec, RP!Spec

\* Its consumers behave as CheckoutConsumer says.
THEOREM PipelineIsQueue == PipelineSpec => Spec
  <1>1. PipelineInit => Init
    BY DEF PipelineInit
  <1>2. [PipelineNext]_pipeline => [Next]_vars
    BY PipelineAssumption
       DEF PipelineNext, Basket, RelayStep, RelayAlone, Handover, RelayBreaksOff,
           ConsumerAlone, PipelineRest, pipeline, Next
  <1>3. QED
    BY <1>1, <1>2, PTL DEF PipelineSpec, Spec

\* What the broker has taken arrived at the queue, or came before it.
Arrived == accepted \subseteq {body[i] : i \in Copy} \union dropped

LEMMA ArrivedStays ==
    ASSUME TypeOK, Arrived, [PipelineNext]_pipeline
    PROVE  Arrived'
  <1>1. body \in Seq(Messages)
    BY DEF TypeOK
  <1>2. CASE UNCHANGED accepted /\ UNCHANGED <<body, dropped>>
    BY <1>2 DEF Arrived, Copy
  <1>3. ASSUME NEW r \in Relays, NEW m \in 1..MaxMessages, Handover(r, m)
        PROVE  Arrived'
    <2>1. accepted' \subseteq accepted \union {m}
      BY <1>3 DEF Handover, R!PublishAccepted, R!PublishFailed
    <2>2. CASE body' = Append(body, m) /\ UNCHANGED dropped
      <3>1. m \in Messages
        BY PipelineAssumption
      <3>2. /\ \A i \in Copy : i \in Copy' /\ body'[i] = body[i]
            /\ Len(body) + 1 \in Copy' /\ body'[Len(body) + 1] = m
        BY <1>1, <2>2, <3>1 DEF Copy
      <3>3. QED
        BY <2>1, <2>2, <3>2 DEF Arrived
    <2>3. CASE dropped' = dropped \union {m} /\ UNCHANGED body
      BY <2>1, <2>3 DEF Arrived, Copy
    <2>4. QED
      BY <1>3, <2>2, <2>3 DEF Handover, Arrive
  <1>4. CASE \/ Basket \/ PipelineRest \/ UNCHANGED pipeline
             \/ \E r \in Relays : RelayAlone(r) \/ RelayBreaksOff(r)
    <2>1. UNCHANGED accepted
      BY <1>4 DEF Basket, RelayAlone, RelayBreaksOff, PipelineRest, pipeline, relays,
            R!Record, R!BecomeDue, R!Due, R!Delete, R!Fail, R!Poison, R!BreakOff
    <2>2. UNCHANGED <<body, dropped>>
      BY <1>4 DEF Basket, RelayAlone, RelayBreaksOff, PipelineRest, pipeline, vars, broker,
            history
    <2>3. QED
      BY <1>2, <2>1, <2>2
  <1>5. ASSUME NEW c \in Consumers, ConsumerAlone(c)
        PROVE  Arrived'
    <2>1. UNCHANGED accepted
      BY <1>5 DEF ConsumerAlone, relays
    <2>2. ASSUME Deliver(c) \/ CallFails(c) \/ Drop(c) \/ Crash(c)
          PROVE  UNCHANGED <<body, dropped>>
      BY <2>2 DEF Deliver, CallFails, Drop, Crash, Disconnect, broker, history
    <2>3. ASSUME ConsumerStep(c)
          PROVE  UNCHANGED <<body, dropped>>
      BY <2>3 DEF ConsumerStep, Open, Take, Ack, Requeue, Discard, Answer, Begin, ReadState,
            Handle, Complete, SetAside, broker, history
    <2>4. QED
      BY <1>2, <1>5, <2>1, <2>2, <2>3 DEF ConsumerAlone
  <1>6. QED
    BY <1>3, <1>4, <1>5 DEF PipelineNext, RelayStep

\* A recorded checkout is a row of the outbox, a copy in the queue, an order, in
\* the error queue, or met no queue: the relay keeps the row until the broker took
\* the message (CheckoutRelay.NothingLost), what it took arrived, and a copy that
\* left the queue was dealt with (CheckoutConsumer.NothingLost).
THEOREM PipelineLosesNothing == PipelineSpec => []CheckoutSurvives
  <1>1. PipelineInit => Arrived
    BY DEF PipelineInit, R!Init, Arrived
  <1>2. TypeOK /\ Arrived /\ [PipelineNext]_pipeline => Arrived'
    BY ArrivedStays
  <1>3. Spec => []TypeOK
    BY ConsumerTypeCorrect
  <1>4. Spec => []NothingLost
    BY ConsumerLosesNothing
  <1>5. RP!Spec => []RP!NothingLost
    BY RP!RelayLosesNothing, RelayAssumed
  <1>6. RP!NothingLost /\ NothingLost /\ Arrived => CheckoutSurvives
    BY DEF RP!NothingLost, NothingLost, Arrived, CheckoutSurvives
  <1>7. QED
    BY <1>1, <1>2, <1>3, <1>4, <1>5, <1>6, PipelineIsRelay, PipelineIsQueue, PTL
       DEF PipelineSpec
=============================================================================
