-------------------------- MODULE EventQueueProofs --------------------------
(* What EventQueue guarantees for every capacity and number of producers.  *)
EXTENDS EventQueue, SequenceTheorems, TLAPS

-----------------------------------------------------------------------------
(* Sequences without repetitions.                                          *)

Entries(s) == {s[i] : i \in DOMAIN s}
Distinct(s) == \A i, j \in DOMAIN s : s[i] = s[j] => i = j

(* A new entry at the end. *)
LEMMA EntriesOfAppend ==
  ASSUME NEW S, NEW s \in Seq(S), NEW e \in S, Distinct(s), e \notin Entries(s)
  PROVE  /\ Entries(Append(s, e)) = Entries(s) \cup {e}
         /\ Distinct(Append(s, e))
<1> DEFINE t == Append(s, e)
<1>1. /\ DOMAIN t = 1 .. Len(s) + 1
      /\ DOMAIN s = 1 .. Len(s)
      /\ Len(s) \in Nat
      /\ \A i \in 1 .. Len(s) : t[i] = s[i]
      /\ t[Len(s) + 1] = e
  BY AppendProperties, LenProperties
<1> HIDE DEF t
<1>2. Entries(t) = Entries(s) \cup {e}
  BY <1>1 DEF Entries
<1>3. \A i \in 1 .. Len(s) : s[i] # e
  BY <1>1 DEF Entries
<1>4. ASSUME NEW i \in DOMAIN t, NEW j \in DOMAIN t, t[i] = t[j]
      PROVE  i = j
  <2>1. CASE i = Len(s) + 1
    BY <1>1, <1>3, <1>4, <2>1
  <2>2. CASE j = Len(s) + 1
    BY <1>1, <1>3, <1>4, <2>2
  <2>3. CASE i \in 1 .. Len(s) /\ j \in 1 .. Len(s)
    BY <1>1, <1>4, <2>3 DEF Distinct
  <2> QED BY <1>1, <2>1, <2>2, <2>3
<1>5. Distinct(t)
  BY <1>4 DEF Distinct
<1> QED BY <1>2, <1>5 DEF t

(* The first entry taken away. *)
LEMMA EntriesOfTail ==
  ASSUME NEW S, NEW s \in Seq(S), s # <<>>, Distinct(s)
  PROVE  /\ Entries(Tail(s)) = Entries(s) \ {Head(s)}
         /\ Distinct(Tail(s))
         /\ Head(s) \in Entries(s)
<1> DEFINE t == Tail(s)
<1>1. /\ DOMAIN s = 1 .. Len(s)
      /\ Len(s) \in Nat \ {0}
      /\ DOMAIN t = 1 .. Len(s) - 1
      /\ \A i \in 1 .. Len(s) - 1 : t[i] = s[i + 1]
      /\ Head(s) = s[1]
  BY HeadTailProperties, LenProperties, EmptySeq
<1> HIDE DEF t
<1>2. Entries(t) \subseteq Entries(s)
  BY <1>1 DEF Entries
<1>3. Head(s) \notin Entries(t)
  BY <1>1 DEF Entries, Distinct
<1>4. ASSUME NEW i \in DOMAIN s, s[i] # Head(s) PROVE s[i] \in Entries(t)
  <2>1. i - 1 \in DOMAIN t /\ t[i - 1] = s[i]
    BY <1>1, <1>4
  <2> QED BY <2>1 DEF Entries
<1>5. Distinct(t)
  BY <1>1 DEF Distinct
<1>6. Head(s) \in Entries(s)
  BY <1>1 DEF Entries
<1> QED BY <1>2, <1>3, <1>4, <1>5, <1>6 DEF t, Entries

-----------------------------------------------------------------------------
(* Type correctness: above all, the queue never exceeds its capacity.      *)
THEOREM TypeCorrect == Spec => []TypeOK
<1>1. Init => TypeOK
  <2> SUFFICES ASSUME Init PROVE TypeOK
    OBVIOUS
  <2>1. queue \in Seq(Frame) /\ Len(queue) <= QUEUE_SIZE /\ used \in Seq(Frame)
    BY EmptySeq, EventQueueAssumption DEF Init
  <2>2. built \in [Producer -> 0 .. MaxFrames]
    BY EventQueueAssumption DEF Init
  <2> QED BY <2>1, <2>2 DEF Init, TypeOK
<1>2. TypeOK /\ [Next]_vars => TypeOK'
  <2> SUFFICES ASSUME TypeOK, [Next]_vars PROVE TypeOK'
    OBVIOUS
  <2>1. /\ queue \in Seq(Frame) /\ Len(queue) \in Nat /\ Len(queue) <= QUEUE_SIZE
        /\ QUEUE_SIZE \in Nat \ {0} /\ MaxFrames \in Nat
    BY EventQueueAssumption, LenProperties DEF TypeOK
  <2>2. ASSUME NEW p \in Producer, pc[p] # "away" PROVE Own(p) \in Frame
    BY <2>2 DEF TypeOK, Own, Frame
  <2>3. ASSUME queue # <<>>
        PROVE  Head(queue) \in Frame /\ Tail(queue) \in Seq(Frame) /\ Len(Tail(queue)) <= QUEUE_SIZE
    BY <2>1, <2>3, HeadTailProperties
  <2>4. ASSUME NEW p \in Producer, QueueSend(p), pc[p] # "away"
        PROVE  /\ queue' \in Seq(Frame) /\ Len(queue') <= QUEUE_SIZE
               /\ pc' \in [Producer -> {"away", "send", "full", "resend"}]
               /\ \A q \in Producer : pc'[q] # "away" => built[q] # 0
    BY <2>1, <2>2, <2>4, AppendProperties DEF QueueSend, TypeOK
  <2>5. ASSUME NEW p \in Producer, Build(p) \/ BuildFails(p) PROVE TypeOK'
    <3>1. built' = [built EXCEPT ![p] = @ + 1] /\ built[p] + 1 \in 1 .. MaxFrames
      BY <2>1, <2>5 DEF Build, BuildFails, TypeOK
    <3>2. heap' \subseteq Frame
      BY <2>5, <3>1 DEF Build, BuildFails, TypeOK, Frame
    <3>3. built' \in [Producer -> 0 .. MaxFrames] /\ built'[p] # 0
      BY <3>1 DEF TypeOK
    <3>4. \A q \in Producer : q # p => built'[q] = built[q]
      BY <3>1 DEF TypeOK
    <3>5. /\ pc' \in [Producer -> {"away", "send", "full", "resend"}]
          /\ \A q \in Producer : q # p => pc'[q] = pc[q]
      BY <2>5 DEF Build, BuildFails, TypeOK
    <3> QED BY <2>5, <3>2, <3>3, <3>4, <3>5 DEF Build, BuildFails, TypeOK
  <2>6. ASSUME NEW p \in Producer, FirstSend(p) PROVE TypeOK'
    <3>1. CASE QueueSend(p)
      BY <2>4, <2>6, <3>1 DEF FirstSend, TypeOK
    <3>2. CASE ~QueueSend(p)
      BY <2>6, <3>2 DEF FirstSend, TypeOK
    <3> QED BY <3>1, <3>2
  <2>7. ASSUME NEW p \in Producer, DropOldest(p) PROVE TypeOK'
    BY <2>3, <2>7 DEF DropOldest, TypeOK
  <2>8. ASSUME NEW p \in Producer, SecondSend(p) PROVE TypeOK'
    <3>1. CASE QueueSend(p)
      <4>1. heap' \subseteq Frame
        BY <2>8 DEF SecondSend, TypeOK
      <4> QED BY <2>4, <2>8, <3>1, <4>1 DEF SecondSend, TypeOK
    <3>2. CASE ~QueueSend(p)
      BY <2>8, <3>2 DEF SecondSend, TypeOK
    <3> QED BY <3>1, <3>2
  <2>9. ASSUME Receive PROVE TypeOK'
    BY <2>3, <2>9 DEF Receive, TypeOK
  <2>10. ASSUME Use PROVE TypeOK'
    BY <2>10, AppendProperties DEF Use, TypeOK
  <2>11. ASSUME Discard PROVE TypeOK'
    BY <2>11 DEF Discard, TypeOK
  <2>12. ASSUME UNCHANGED vars PROVE TypeOK'
    BY <2>12 DEF vars, TypeOK
  <2> QED
    BY <2>5, <2>6, <2>7, <2>8, <2>9, <2>10, <2>11, <2>12 DEF Next, ProducerStep, ConsumerStep
<1> QED BY <1>1, <1>2, PTL DEF Spec

-----------------------------------------------------------------------------
(* Frames are owned.  The invariant to prove also says that a frame on the *)
(* heap has a number its producer has already used, so that the next one   *)
(* is new.                                                                 *)
Numbered == \A f \in heap : f.nr <= built[f.by]

IInv == TypeOK /\ FramesOwned /\ Numbered

(* Hands of different producers hold different frames. *)
LEMMA OwnDiffer ==
  ASSUME NEW p \in Producer, NEW q \in Producer, Own(p) = Own(q) PROVE p = q
  BY DEF Own

(* A producer's hand is emptied, and the others are as they were. *)
LEMMA HandedLess ==
  ASSUME NEW p \in Producer, TypeOK, pc' = [pc EXCEPT ![p] = "away"], built' = built, pc[p] # "away"
  PROVE  Handed' = Handed \ {Own(p)} /\ Own(p) \in Handed
<1>1. \A q \in Producer : pc'[q] # "away" <=> (pc[q] # "away" /\ q # p)
  BY DEF TypeOK
<1>2. \A q \in Producer : Own(q)' = Own(q)
  BY DEF Own
<1>3. Handed' = {Own(q) : q \in {r \in Producer : pc[r] # "away" /\ r # p}}
  BY <1>1, <1>2 DEF Handed
<1>4. \A q \in Producer : q # p => Own(q) # Own(p)
  BY OwnDiffer
<1> QED BY <1>3, <1>4 DEF Handed

(* A producer moves on with its frame in hand. *)
LEMMA HandedSame ==
  ASSUME NEW p \in Producer, TypeOK, pc[p] # "away", built' = built,
         NEW s, s # "away", pc' = [pc EXCEPT ![p] = s]
  PROVE  Handed' = Handed
<1>1. \A q \in Producer : pc'[q] # "away" <=> pc[q] # "away"
  BY DEF TypeOK
<1>2. \A q \in Producer : Own(q)' = Own(q)
  BY DEF Own
<1> QED BY <1>1, <1>2 DEF Handed

(* Every step moves a frame from one owner to another. *)
LEMMA OwnedInductive == IInv /\ TypeOK' /\ [Next]_vars => IInv'
<1> SUFFICES ASSUME IInv, TypeOK', [Next]_vars PROVE FramesOwned' /\ Numbered'
  BY DEF IInv
<1>1. /\ TypeOK
      /\ queue \in Seq(Frame)
      /\ Queued = Entries(queue)
      /\ Queued' = Entries(queue')
      /\ Distinct(queue)
      /\ heap = Queued \cup Handed \cup Received
      /\ Queued \cap Handed = {} /\ Queued \cap Received = {} /\ Handed \cap Received = {}
  BY DEF IInv, TypeOK, FramesOwned, Queued, Entries, Distinct
<1>2. \A q \in Producer : pc[q] # "away" => Own(q) \in Handed /\ Own(q) \in Frame
  BY <1>1 DEF Handed, TypeOK, Own, Frame
<1>3. ASSUME heap' = Entries(queue') \cup Handed' \cup Received',
             Entries(queue') \cap Handed' = {}, Entries(queue') \cap Received' = {},
             Handed' \cap Received' = {}, Distinct(queue')
      PROVE  FramesOwned'
  BY <1>3 DEF FramesOwned, Queued, Entries, Distinct
<1>4. ASSUME heap' \subseteq heap, built' = built PROVE Numbered'
  BY <1>4 DEF IInv, Numbered
<1>5. ASSUME NEW p \in Producer, QueueSend(p), pc[p] # "away", UNCHANGED <<built, in_hand, heap>>
      PROVE  FramesOwned' /\ Numbered'
  <2>1. Handed' = Handed \ {Own(p)}
    BY <1>1, <1>5, HandedLess DEF QueueSend
  <2>2. Own(p) \in Handed /\ Own(p) \in Frame
    BY <1>2, <1>5
  <2>3. Entries(queue') = Entries(queue) \cup {Own(p)} /\ Distinct(queue')
    BY <1>1, <1>5, <2>2, EntriesOfAppend DEF QueueSend
  <2>4. Received' = Received
    BY <1>5 DEF Received
  <2> QED BY <1>1, <1>3, <1>4, <1>5, <2>1, <2>2, <2>3, <2>4
<1>6. ASSUME NEW p \in Producer, Build(p) PROVE FramesOwned' /\ Numbered'
  <2> DEFINE f == [by |-> p, nr |-> built[p] + 1]
  <2>1. /\ built[p] \in Nat /\ built' = [built EXCEPT ![p] = @ + 1]
        /\ heap' = heap \cup {f} /\ pc' = [pc EXCEPT ![p] = "send"] /\ pc[p] = "away"
        /\ UNCHANGED <<queue, in_hand>>
    BY <1>1, <1>6 DEF Build, TypeOK
  <2>2. f \notin heap
    BY <2>1 DEF IInv, Numbered
  <2>3. Handed' = Handed \cup {f}
    <3>1. \A q \in Producer : pc'[q] # "away" <=> (pc[q] # "away" \/ q = p)
      BY <1>1, <2>1 DEF TypeOK
    <3>2. \A q \in Producer : q # p => Own(q)' = Own(q)
      BY <1>1, <2>1 DEF Own, TypeOK
    <3>3. Own(p)' = f
      BY <1>1, <2>1 DEF Own, TypeOK
    <3> QED BY <2>1, <3>1, <3>2, <3>3 DEF Handed
  <2>4. Received' = Received
    BY <2>1 DEF Received
  <2>5. Numbered'
    <3>1. \A q \in Producer : built[q] \in Nat /\ built'[q] \in Nat /\ built[q] <= built'[q]
      BY <1>1, <2>1 DEF TypeOK
    <3>2. built'[p] = built[p] + 1
      BY <1>1, <2>1 DEF TypeOK
    <3>3. \A g \in heap : g.by \in Producer /\ g.nr \in Nat /\ g.nr <= built[g.by]
      BY <1>1 DEF IInv, Numbered, TypeOK, Frame
    <3> QED BY <2>1, <3>1, <3>2, <3>3 DEF Numbered
  <2> QED BY <1>1, <1>3, <2>1, <2>2, <2>3, <2>4, <2>5
<1>7. ASSUME NEW p \in Producer, BuildFails(p) PROVE FramesOwned' /\ Numbered'
  <2>1. /\ built' = [built EXCEPT ![p] = @ + 1] /\ pc[p] = "away"
        /\ UNCHANGED <<queue, pc, in_hand, heap>>
    BY <1>7 DEF BuildFails
  <2>2. \A q \in Producer : pc[q] # "away" => Own(q)' = Own(q)
    BY <1>1, <2>1 DEF Own, TypeOK
  <2>3. Handed' = Handed /\ Received' = Received
    BY <2>1, <2>2 DEF Handed, Received
  <2>4. \A q \in Producer : built[q] \in Nat /\ built'[q] \in Nat /\ built[q] <= built'[q]
    BY <1>1, <2>1 DEF TypeOK
  <2>5. \A g \in heap : g.by \in Producer /\ g.nr \in Nat /\ g.nr <= built[g.by]
    BY <1>1 DEF IInv, Numbered, TypeOK, Frame
  <2>6. Numbered'
    BY <2>1, <2>4, <2>5 DEF Numbered
  <2> QED BY <1>1, <1>3, <2>1, <2>3, <2>6
<1>8. ASSUME NEW p \in Producer, FirstSend(p) PROVE FramesOwned' /\ Numbered'
  <2>1. CASE QueueSend(p)
    BY <1>5, <1>8, <2>1 DEF FirstSend
  <2>2. CASE ~QueueSend(p)
    <3>1. pc[p] # "away" /\ pc' = [pc EXCEPT ![p] = "full"] /\ UNCHANGED <<queue, built, in_hand, heap>>
      BY <1>8, <2>2 DEF FirstSend
    <3>2. Handed' = Handed
      BY <1>1, <3>1, HandedSame
    <3> QED BY <1>1, <1>3, <1>4, <3>1, <3>2 DEF Received
  <2> QED BY <2>1, <2>2
<1>9. ASSUME NEW p \in Producer, DropOldest(p) PROVE FramesOwned' /\ Numbered'
  <2>1. pc[p] # "away" /\ pc' = [pc EXCEPT ![p] = "resend"] /\ UNCHANGED <<built, in_hand>>
    BY <1>9 DEF DropOldest
  <2>2. Handed' = Handed /\ Received' = Received
    BY <1>1, <2>1, HandedSame DEF Received
  <2>3. CASE queue = <<>>
    BY <1>1, <1>3, <1>4, <1>9, <2>1, <2>2, <2>3 DEF DropOldest
  <2>4. CASE queue # <<>>
    <3>1. queue' = Tail(queue) /\ heap' = heap \ {Head(queue)}
      BY <1>9, <2>4 DEF DropOldest
    <3>2. /\ Entries(queue') = Entries(queue) \ {Head(queue)} /\ Distinct(queue')
          /\ Head(queue) \in Entries(queue)
      BY <1>1, <2>4, <3>1, EntriesOfTail
    <3> QED BY <1>1, <1>3, <1>4, <2>1, <2>2, <3>1, <3>2
  <2> QED BY <2>3, <2>4
<1>10. ASSUME NEW p \in Producer, SecondSend(p) PROVE FramesOwned' /\ Numbered'
  <2>1. CASE QueueSend(p) /\ UNCHANGED heap
    BY <1>5, <1>10, <2>1 DEF SecondSend
  <2>2. CASE ~(QueueSend(p) /\ UNCHANGED heap)
    <3>1. /\ pc[p] # "away" /\ pc' = [pc EXCEPT ![p] = "away"] /\ UNCHANGED <<queue, built, in_hand>>
          /\ heap' = heap \ {Own(p)}
      BY <1>10, <2>2 DEF SecondSend
    <3>2. Handed' = Handed \ {Own(p)} /\ Own(p) \in Handed
      BY <1>1, <3>1, HandedLess
    <3> QED BY <1>1, <1>3, <1>4, <3>1, <3>2 DEF Received
  <2> QED BY <2>1, <2>2
<1>11. ASSUME Receive PROVE FramesOwned' /\ Numbered'
  <2>1. /\ queue # <<>> /\ in_hand = NoFrame /\ in_hand' = Head(queue) /\ queue' = Tail(queue)
        /\ UNCHANGED <<pc, built, heap>>
    BY <1>11 DEF Receive
  <2>2. /\ Entries(queue') = Entries(queue) \ {Head(queue)} /\ Distinct(queue')
        /\ Head(queue) \in Entries(queue)
    BY <1>1, <2>1, EntriesOfTail
  <2>3. Handed' = Handed
    BY <2>1 DEF Handed, Own
  <2>4. Head(queue) # NoFrame
    BY <1>1, <2>1, HeadTailProperties, EventQueueAssumption
  <2>5. Received = {} /\ Received' = {Head(queue)}
    BY <2>1, <2>4 DEF Received
  <2> QED BY <1>1, <1>3, <1>4, <2>1, <2>2, <2>3, <2>5
<1>12. ASSUME Use \/ Discard PROVE FramesOwned' /\ Numbered'
  <2>1. /\ in_hand # NoFrame /\ in_hand' = NoFrame /\ heap' = heap \ {in_hand}
        /\ UNCHANGED <<queue, pc, built>>
    BY <1>12 DEF Use, Discard
  <2>2. Handed' = Handed /\ Received = {in_hand} /\ Received' = {}
    BY <2>1 DEF Handed, Own, Received
  <2> QED BY <1>1, <1>3, <1>4, <2>1, <2>2
<1>13. ASSUME UNCHANGED vars PROVE FramesOwned' /\ Numbered'
  <2>1. UNCHANGED <<queue, pc, built, in_hand, heap>>
    BY <1>13 DEF vars
  <2>2. Handed' = Handed /\ Received' = Received
    BY <2>1 DEF Handed, Own, Received
  <2> QED BY <1>1, <1>3, <1>4, <2>1, <2>2
<1> QED
  BY <1>6, <1>7, <1>8, <1>9, <1>10, <1>11, <1>12, <1>13 DEF Next, ProducerStep, ConsumerStep

(* Every frame on the heap has one owner, and every owned frame is there.  *)
THEOREM FramesOwnedHolds == Spec => []FramesOwned
<1>1. Init => FramesOwned /\ Numbered
  <2> SUFFICES ASSUME Init PROVE FramesOwned /\ Numbered
    OBVIOUS
  <2>1. Queued = {} /\ Handed = {} /\ Received = {} /\ heap = {} /\ DOMAIN queue = {}
    BY DEF Init, Queued, Handed, Received
  <2> QED BY <2>1 DEF FramesOwned, Numbered
<1>2. TypeOK /\ Init => IInv
  BY <1>1 DEF IInv
<1>3. IInv /\ TypeOK' /\ [Next]_vars => IInv'
  BY OwnedInductive
<1>4. Spec => []IInv
  BY <1>2, <1>3, TypeCorrect, PTL DEF Spec
<1>5. IInv => FramesOwned
  BY DEF IInv
<1> QED BY <1>4, <1>5, PTL

(* A producer that is alone at its queue never loses its newest frame.     *)
THEOREM RoomTakenByOthersHolds == Spec => []RoomTakenByOthers
<1>1. Init => RoomTakenByOthers
  BY DEF Init, RoomTakenByOthers
<1>2. TypeOK /\ TypeOK' /\ RoomTakenByOthers /\ [Next]_vars => RoomTakenByOthers'
  <2> SUFFICES ASSUME TypeOK, TypeOK', RoomTakenByOthers, [Next]_vars,
                      NEW p \in Producer, pc'[p] = "resend", Len(queue') = QUEUE_SIZE
               PROVE  queue'[Len(queue')].by # p
    BY DEF RoomTakenByOthers
  <2>1. /\ queue \in Seq(Frame) /\ Len(queue) \in Nat /\ Len(queue) <= QUEUE_SIZE
        /\ QUEUE_SIZE \in Nat \ {0}
        /\ pc \in [Producer -> {"away", "send", "full", "resend"}]
    BY EventQueueAssumption, LenProperties DEF TypeOK
  <2>2. pc[p] = "resend" /\ Len(queue) = QUEUE_SIZE => queue[Len(queue)].by # p
    BY DEF RoomTakenByOthers
  <2>3. ASSUME queue # <<>> PROVE Len(Tail(queue)) = Len(queue) - 1
    BY <2>1, <2>3, HeadTailProperties
  <2>4. ASSUME NEW q \in Producer, QueueSend(q) PROVE queue'[Len(queue')].by # p
    <3>1. pc' = [pc EXCEPT ![q] = "away"] /\ queue' = Append(queue, Own(q))
      BY <2>4 DEF QueueSend
    <3>2. q # p
      BY <2>1, <3>1
    <3>3. queue'[Len(queue')] = Own(q)
      BY <2>1, <3>1, AppendProperties
    <3> QED BY <3>2, <3>3 DEF Own
  <2>5. ASSUME queue' = queue, pc'[p] = pc[p] PROVE queue'[Len(queue')].by # p
    BY <2>2, <2>5
  <2>6. ASSUME NEW q \in Producer, Build(q) \/ BuildFails(q) PROVE queue'[Len(queue')].by # p
    BY <2>1, <2>5, <2>6 DEF Build, BuildFails
  <2>7. ASSUME NEW q \in Producer, FirstSend(q) PROVE queue'[Len(queue')].by # p
    BY <2>1, <2>4, <2>5, <2>7 DEF FirstSend
  <2>8. ASSUME NEW q \in Producer, DropOldest(q) PROVE queue'[Len(queue')].by # p
    <3>1. Len(queue') < QUEUE_SIZE
      BY <2>1, <2>3, <2>8 DEF DropOldest
    <3> QED BY <2>1, <3>1
  <2>9. ASSUME NEW q \in Producer, SecondSend(q) PROVE queue'[Len(queue')].by # p
    BY <2>1, <2>4, <2>5, <2>9 DEF SecondSend
  <2>10. ASSUME Receive PROVE queue'[Len(queue')].by # p
    BY <2>1, <2>3, <2>10 DEF Receive
  <2>11. ASSUME Use \/ Discard \/ UNCHANGED vars PROVE queue'[Len(queue')].by # p
    BY <2>5, <2>11 DEF Use, Discard, vars
  <2> QED
    BY <2>6, <2>7, <2>8, <2>9, <2>10, <2>11 DEF Next, ProducerStep, ConsumerStep
<1> QED BY <1>1, <1>2, TypeCorrect, PTL DEF Spec

-----------------------------------------------------------------------------
(* The queue implements a lossy channel.                                   *)

(* Taking away the first entry of a sequence, as a removal. *)
LEMMA RemoveFirst ==
  ASSUME NEW S, NEW s \in Seq(S), s # <<>>
  PROVE  Channel!RemoveAt(s, 1) = Tail(s) /\ 1 \in DOMAIN s
<1>1. SubSeq(s, 1, 0) = <<>>
  BY SubSeqEmpty
<1>2. SubSeq(s, 2, Len(s)) = Tail(s)
  BY TailIsSubSeq
<1>3. Tail(s) \in Seq(S) /\ Len(s) \in Nat \ {0} /\ DOMAIN s = 1 .. Len(s)
  BY HeadTailProperties, EmptySeq, LenProperties
<1>4. <<>> \o Tail(s) = Tail(s)
  BY <1>3, ConcatEmptySeq
<1> QED BY <1>1, <1>2, <1>3, <1>4 DEF Channel!RemoveAt

(* A first entry put before a sequence: what is behind it is that sequence. *)
LEMMA BehindFirst ==
  ASSUME NEW S, NEW e \in S, NEW q \in Seq(S)
  PROVE  LET s == <<e>> \o q
         IN  /\ s \in Seq(S)
             /\ Len(s) = Len(q) + 1
             /\ s # <<>>
             /\ Head(s) = e
             /\ Tail(s) = q
<1> DEFINE s == <<e>> \o q
<1>1. <<e>> \in Seq(S) /\ Len(<<e>>) = 1 /\ <<e>>[1] = e
  BY IsASeq
<1>2. /\ s \in Seq(S)
      /\ Len(s) = Len(q) + 1
      /\ Len(q) \in Nat
      /\ s[1] = e
      /\ \A i \in 1 .. Len(q) : s[i + 1] = q[i]
  BY <1>1, ConcatProperties, LenProperties
<1> HIDE DEF s
<1>3. s # <<>>
  BY <1>2, EmptySeq
<1>4. Head(s) = e
  BY <1>2, <1>3
<1>5. Tail(s) \in Seq(S) /\ Len(Tail(s)) = Len(q) /\ \A i \in 1 .. Len(q) : Tail(s)[i] = q[i]
  BY <1>2, <1>3, HeadTailProperties
<1>6. Tail(s) = q
  BY <1>5, SeqEqual
<1> QED BY <1>2, <1>3, <1>4, <1>6 DEF s

(* Taking away the entry after the first one, as a removal. *)
LEMMA RemoveSecond ==
  ASSUME NEW S, NEW e \in S, NEW q \in Seq(S), q # <<>>
  PROVE  Channel!RemoveAt(<<e>> \o q, 2) = <<e>> \o Tail(q) /\ 2 \in DOMAIN (<<e>> \o q)
<1> DEFINE s == <<e>> \o q
<1>1. <<e>> \in Seq(S) /\ Len(<<e>>) = 1
  BY IsASeq
<1>2. s \in Seq(S) /\ Len(s) = Len(q) + 1 /\ Len(q) \in Nat \ {0} /\ DOMAIN s = 1 .. Len(s)
  BY <1>1, ConcatProperties, LenProperties, EmptySeq
<1>3. SubSeq(s, 1, 1) = <<e>>
  <2>1. SubSeq(s, 1, 1) = SubSeq(<<e>>, 1, 1)
    BY <1>1, SubSeqOfConcat1
  <2>2. SubSeq(<<e>>, 1, 1) = <<e>>
    BY <1>1, SubSeqFull
  <2> QED BY <2>1, <2>2
<1>4. SubSeq(s, 3, Len(s)) = Tail(q)
  <2>1. Tail(q) = SubSeq(q, 2, Len(q))
    BY TailIsSubSeq
  <2>2. CASE Len(q) = 1
    BY <1>2, <2>1, <2>2, SubSeqEmpty
  <2>3. CASE Len(q) > 1
    <3>1. /\ 3 \in Len(<<e>>) + 1 .. Len(<<e>>) + Len(q)
          /\ Len(s) \in Len(<<e>>) + 1 .. Len(<<e>>) + Len(q)
          /\ 3 - Len(<<e>>) = 2
          /\ Len(s) - Len(<<e>>) = Len(q)
      BY <1>1, <1>2, <2>3
    <3>2. SubSeq(s, 3, Len(s)) = SubSeq(q, 2, Len(q))
      BY <1>1, <3>1, SubSeqOfConcat2
    <3> QED BY <2>1, <3>2
  <2> QED BY <1>2, <2>2, <2>3
<1>5. 2 \in DOMAIN s
  BY <1>2
<1>6. Channel!RemoveAt(s, 2) = SubSeq(s, 1, 1) \o SubSeq(s, 3, Len(s))
  BY DEF Channel!RemoveAt
<1> QED BY <1>3, <1>4, <1>5, <1>6

(* The frames on their way, as the abstract channel sees them. *)
Transit == (IF in_hand = NoFrame THEN <<>> ELSE <<in_hand>>) \o queue

(* Every step puts, loses or delivers one frame, or changes nothing that   *)
(* the channel shows.                                                      *)
LEMMA ChannelStep == TypeOK /\ [Next]_vars => [Channel!Next]_<<Transit, used>>
<1> SUFFICES ASSUME TypeOK, [Next]_vars PROVE Channel!Next \/ UNCHANGED <<Transit, used>>
  OBVIOUS
<1> DEFINE pre == IF in_hand = NoFrame THEN <<>> ELSE <<in_hand>>
<1>1. /\ queue \in Seq(Frame) /\ pre \in Seq(Frame) /\ Transit = pre \o queue
      /\ Transit \in Seq(Frame) /\ used \in Seq(Frame)
  BY EmptySeq, IsASeq, ConcatProperties DEF TypeOK, Transit
<1>2. ASSUME NEW p \in Producer, QueueSend(p), pc[p] # "away", UNCHANGED <<in_hand, used>>
      PROVE  Channel!Next
  <2>1. Own(p) \in Frame
    BY <1>2 DEF TypeOK, Own, Frame
  <2>2. queue' = Append(queue, Own(p)) /\ Transit' = pre \o queue'
    BY <1>2 DEF QueueSend, Transit
  <2>3. queue' = queue \o <<Own(p)>> /\ <<Own(p)>> \in Seq(Frame)
    BY <1>1, <2>1, <2>2, AppendIsConcat, IsASeq
  <2>4. Transit' = Transit \o <<Own(p)>>
    BY <1>1, <2>2, <2>3, ConcatAssociative
  <2>5. Transit' = Append(Transit, Own(p))
    BY <1>1, <2>1, <2>4, AppendIsConcat
  <2> QED BY <1>2, <2>1, <2>5 DEF Channel!Next, Channel!Put, Transit
<1>3. ASSUME NEW p \in Producer, DropOldest(p) PROVE Channel!Next \/ UNCHANGED <<Transit, used>>
  <2>1. UNCHANGED <<in_hand, used>>
    BY <1>3 DEF DropOldest
  <2>2. CASE queue = <<>>
    BY <1>3, <2>1, <2>2 DEF DropOldest, Transit
  <2>3. CASE queue # <<>> /\ in_hand = NoFrame
    <3>1. queue' = Tail(queue) /\ Tail(queue) \in Seq(Frame)
      BY <1>1, <1>3, <2>3, HeadTailProperties DEF DropOldest
    <3>2. Transit = queue /\ Transit' = Tail(queue)
      BY <1>1, <2>1, <2>3, <3>1, ConcatEmptySeq DEF Transit
    <3>3. Transit' = Channel!RemoveAt(Transit, 1) /\ 1 \in DOMAIN Transit
      BY <1>1, <2>3, <3>2, RemoveFirst
    <3> QED BY <2>1, <3>3 DEF Channel!Next, Channel!Lose, Transit
  <2>4. CASE queue # <<>> /\ in_hand # NoFrame
    <3>1. queue' = Tail(queue) /\ in_hand \in Frame
      BY <1>3, <2>4 DEF DropOldest, TypeOK
    <3>2. Transit = <<in_hand>> \o queue /\ Transit' = <<in_hand>> \o Tail(queue)
      BY <2>1, <2>4, <3>1 DEF Transit
    <3>3. Transit' = Channel!RemoveAt(Transit, 2) /\ 2 \in DOMAIN Transit
      BY <1>1, <2>4, <3>1, <3>2, RemoveSecond
    <3> QED BY <2>1, <3>3 DEF Channel!Next, Channel!Lose, Transit
  <2> QED BY <2>2, <2>3, <2>4
<1>4. ASSUME Receive PROVE UNCHANGED <<Transit, used>>
  <2>1. /\ in_hand = NoFrame /\ queue # <<>> /\ in_hand' = Head(queue) /\ queue' = Tail(queue)
        /\ used' = used
    BY <1>4 DEF Receive
  <2>2. Head(queue) \in Frame /\ Tail(queue) \in Seq(Frame) /\ Head(queue) # NoFrame
    BY <1>1, <2>1, HeadTailProperties, EventQueueAssumption
  <2>3. Transit' = <<Head(queue)>> \o Tail(queue) /\ Transit = queue
    BY <1>1, <2>1, <2>2, ConcatEmptySeq DEF Transit
  <2>4. <<Head(queue)>> \o Tail(queue) = queue
    <3> DEFINE s == <<Head(queue)>> \o Tail(queue)
    <3>1. /\ s \in Seq(Frame) /\ Len(s) = Len(Tail(queue)) + 1
          /\ s[1] = Head(queue)
          /\ \A i \in 1 .. Len(Tail(queue)) : s[i + 1] = Tail(queue)[i]
      <4>1. <<Head(queue)>> \in Seq(Frame) /\ Len(<<Head(queue)>>) = 1
        BY <2>2, IsASeq
      <4> QED BY <2>2, <4>1, ConcatProperties, LenProperties
    <3>2. /\ Len(Tail(queue)) = Len(queue) - 1 /\ Len(queue) \in Nat \ {0}
          /\ \A i \in 1 .. Len(Tail(queue)) : Tail(queue)[i] = queue[i + 1]
          /\ Head(queue) = queue[1]
      BY <1>1, <2>1, HeadTailProperties, LenProperties, EmptySeq
    <3> HIDE DEF s
    <3>3. \A i \in 1 .. Len(s) : s[i] = queue[i]
      <4> SUFFICES ASSUME NEW i \in 1 .. Len(s), i # 1 PROVE s[i] = queue[i]
        BY <3>1, <3>2
      <4>1. i - 1 \in 1 .. Len(Tail(queue)) /\ (i - 1) + 1 = i
        BY <3>1, <3>2
      <4> QED BY <3>1, <3>2, <4>1
    <3>4. s = queue
      BY <1>1, <3>1, <3>2, <3>3, SeqEqual
    <3> QED BY <3>4 DEF s
  <2> QED BY <2>1, <2>3, <2>4
<1>5. ASSUME Use \/ Discard PROVE Channel!Next
  <2>1. in_hand # NoFrame /\ in_hand \in Frame /\ in_hand' = NoFrame /\ queue' = queue
    BY <1>5 DEF Use, Discard, TypeOK
  <2>2. Transit = <<in_hand>> \o queue
    BY <2>1 DEF Transit
  <2>3. Transit' = queue
    BY <1>1, <2>1, ConcatEmptySeq DEF Transit
  <2>4. Transit # <<>> /\ Head(Transit) = in_hand /\ Tail(Transit) = queue
    BY <1>1, <2>1, <2>2, BehindFirst
  <2>5. CASE Use
    BY <2>3, <2>4, <2>5 DEF Use, Channel!Next, Channel!Deliver, Transit
  <2>6. CASE Discard
    <3>1. Transit' = Channel!RemoveAt(Transit, 1) /\ 1 \in DOMAIN Transit
      BY <1>1, <2>3, <2>4, RemoveFirst
    <3> QED BY <2>6, <3>1 DEF Discard, Channel!Next, Channel!Lose, Transit
  <2> QED BY <1>5, <2>5, <2>6
<1>6. ASSUME UNCHANGED <<queue, in_hand, used>> PROVE UNCHANGED <<Transit, used>>
  BY <1>6 DEF Transit
<1>7. ASSUME NEW p \in Producer, Build(p) \/ BuildFails(p) PROVE UNCHANGED <<queue, in_hand, used>>
  BY <1>7 DEF Build, BuildFails
<1>8. ASSUME NEW p \in Producer, FirstSend(p) \/ SecondSend(p)
      PROVE  Channel!Next \/ UNCHANGED <<queue, in_hand, used>>
  BY <1>2, <1>8 DEF FirstSend, SecondSend
<1>9. ASSUME UNCHANGED vars PROVE UNCHANGED <<queue, in_hand, used>>
  BY <1>9 DEF vars
<1> QED
  BY <1>3, <1>4, <1>5, <1>6, <1>7, <1>8, <1>9 DEF Next, ProducerStep, ConsumerStep

(* The queue with its three-step send and its receiver implements a lossy  *)
(* channel: frames are lost, but none is delivered twice or out of order.  *)
THEOREM ImplementsLossyChannel == Spec => IsLossyChannel
<1>1. Init => Channel!Init
  <2> SUFFICES ASSUME Init PROVE Channel!Init
    OBVIOUS
  <2>1. <<>> \o <<>> = <<>>
    BY EmptySeq, ConcatEmptySeq
  <2> QED BY <2>1 DEF Init, Channel!Init
<1>2. TypeOK /\ [Next]_vars => [Channel!Next]_<<Transit, used>>
  BY ChannelStep
<1>3. [Channel!Next]_<<Transit, used>>
        => [Channel!Next]_<<(IF in_hand = NoFrame THEN <<>> ELSE <<in_hand>>) \o queue, used>>
  BY DEF Transit
<1> QED BY <1>1, <1>2, <1>3, TypeCorrect, PTL DEF Spec, IsLossyChannel, Channel!Spec
=============================================================================
