----------------------------- MODULE EventQueue -----------------------------
(***************************************************************************)
(* The bounded frame queues of the firmware (src/send_task.c, tcp_client.c *)
(* and command_dispatcher.c).  Tasks hand over heap-allocated frames with  *)
(* three separate operations on a FreeRTOS queue: send; if it is full,     *)
(* receive the oldest frame and free it; send again, else free the new     *)
(* frame.  Other tasks run in between.  One task at the other end receives *)
(* a frame, uses it and frees it.                                          *)
(*                                                                         *)
(* send_queue has every event source as a producer and send_task as the    *)
(* consumer; cmd_queue has tcp_client_task as its only producer and the    *)
(* dispatcher as the consumer.  The two differ in nothing else.            *)
(***************************************************************************)
EXTENDS Naturals, Sequences, FiniteSets

CONSTANTS
  Producer,   \* tasks and interrupt handlers that hand over frames
  QUEUE_SIZE, \* capacity of the queue: 64 in the code
  MaxFrames,  \* bound on the frames a producer builds in a behaviour
  NoFrame     \* no frame in a hand

(* Frames are numbered by producer. *)
Frame == [by : Producer, nr : 1 .. MaxFrames]

ASSUME EventQueueAssumption ==
  /\ QUEUE_SIZE \in Nat \ {0}
  /\ MaxFrames \in Nat
  /\ NoFrame \notin Frame

VARIABLES
  queue,      \* contents of the FreeRTOS queue
  pc,         \* per producer, where it is in send_event
  built,      \* per producer, how many frames it has tried to build
  in_hand,    \* the frame the consumer received and has not freed, or NoFrame
  heap,       \* frames allocated and not freed
  used        \* history: frames that were sent to the host, or handled

vars == <<queue, pc, built, in_hand, heap, used>>

(* The frame a producer is handing over. *)
Own(p) == [by |-> p, nr |-> built[p]]

Init ==
  /\ queue = <<>>
  /\ pc = [p \in Producer |-> "away"]
  /\ built = [p \in Producer |-> 0]
  /\ in_hand = NoFrame
  /\ heap = {}
  /\ used = <<>>

-----------------------------------------------------------------------------
(* Producers: send_event, and the receive loop of tcp_client_task.         *)

(* malloc succeeds. *)
Build(p) ==
  /\ pc[p] = "away"
  /\ built[p] < MaxFrames
  /\ built' = [built EXCEPT ![p] = @ + 1]
  /\ heap' = heap \cup {[by |-> p, nr |-> built[p] + 1]}
  /\ pc' = [pc EXCEPT ![p] = "send"]
  /\ UNCHANGED <<queue, in_hand, used>>

(* malloc fails: the event or command is skipped. *)
BuildFails(p) ==
  /\ pc[p] = "away"
  /\ built[p] < MaxFrames
  /\ built' = [built EXCEPT ![p] = @ + 1]
  /\ UNCHANGED <<queue, pc, in_hand, heap, used>>

(* xQueueSend without waiting, when there is room. *)
QueueSend(p) ==
  /\ Len(queue) < QUEUE_SIZE
  /\ queue' = Append(queue, Own(p))
  /\ pc' = [pc EXCEPT ![p] = "away"]

FirstSend(p) ==
  /\ pc[p] = "send"
  /\ \/ QueueSend(p)
     \/ /\ Len(queue) = QUEUE_SIZE
        /\ pc' = [pc EXCEPT ![p] = "full"]
        /\ UNCHANGED queue
  /\ UNCHANGED <<built, in_hand, heap, used>>

(* Variants with a fault, here and below, are named after it: no run uses  *)
(* them as they stand; substituted for the definition that follows, each   *)
(* breaks a property.                                                      *)
DropOldestPeeks(p) ==
  /\ pc[p] = "full"
  /\ pc' = [pc EXCEPT ![p] = "resend"]
  /\ UNCHANGED <<queue, built, in_hand, heap, used>>

(* Receive the oldest frame, if the queue is not empty by now, and free it. *)
DropOldest(p) ==
  /\ pc[p] = "full"
  /\ IF queue = <<>> THEN UNCHANGED <<queue, heap>>
     ELSE queue' = Tail(queue) /\ heap' = heap \ {Head(queue)}
  /\ pc' = [pc EXCEPT ![p] = "resend"]
  /\ UNCHANGED <<built, in_hand, used>>

SecondSendLeaks(p) ==
  /\ pc[p] = "resend"
  /\ \/ QueueSend(p) /\ UNCHANGED heap
     \/ /\ Len(queue) = QUEUE_SIZE
        /\ pc' = [pc EXCEPT ![p] = "away"]
        /\ UNCHANGED <<queue, heap>>
  /\ UNCHANGED <<built, in_hand, used>>

(* Send again; if another producer took the room, free the new frame. *)
SecondSend(p) ==
  /\ pc[p] = "resend"
  /\ \/ QueueSend(p) /\ UNCHANGED heap
     \/ /\ Len(queue) = QUEUE_SIZE
        /\ heap' = heap \ {Own(p)}
        /\ pc' = [pc EXCEPT ![p] = "away"]
        /\ UNCHANGED queue
  /\ UNCHANGED <<built, in_hand, used>>

ProducerStep(p) == FirstSend(p) \/ DropOldest(p) \/ SecondSend(p)

-----------------------------------------------------------------------------
(* The consumer: send_task, or command_dispatcher_task.                    *)

Receive ==
  /\ in_hand = NoFrame
  /\ queue # <<>>
  /\ in_hand' = Head(queue)
  /\ queue' = Tail(queue)
  /\ UNCHANGED <<pc, built, heap, used>>

(* send() takes the frame, or handle_command() has handled it. *)
Use ==
  /\ in_hand # NoFrame
  /\ used' = Append(used, in_hand)
  /\ heap' = heap \ {in_hand}
  /\ in_hand' = NoFrame
  /\ UNCHANGED <<queue, pc, built>>

DiscardRequeues ==
  /\ in_hand # NoFrame
  /\ Len(queue) < QUEUE_SIZE
  /\ queue' = Append(queue, in_hand)
  /\ in_hand' = NoFrame
  /\ UNCHANGED <<pc, built, heap, used>>

(* No connection, or send() fails: the frame is dropped. *)
Discard ==
  /\ in_hand # NoFrame
  /\ heap' = heap \ {in_hand}
  /\ in_hand' = NoFrame
  /\ UNCHANGED <<queue, pc, built, used>>

ConsumerStep == Receive \/ Use \/ Discard

-----------------------------------------------------------------------------
Next ==
  \/ \E p \in Producer : Build(p) \/ BuildFails(p) \/ ProducerStep(p)
  \/ ConsumerStep

Spec == Init /\ [][Next]_vars

(* No operation of a producer waits, and the consumer's task is scheduled  *)
(* again and again: send() and every handler of a command end.             *)
FairSpec == Spec /\ WF_vars(ConsumerStep) /\ \A p \in Producer : WF_vars(ProducerStep(p))

-----------------------------------------------------------------------------
(* Every variable stays in its range; the queue within its capacity.       *)
TypeOK ==
  /\ queue \in Seq(Frame)
  /\ Len(queue) <= QUEUE_SIZE
  /\ pc \in [Producer -> {"away", "send", "full", "resend"}]
  /\ built \in [Producer -> 0 .. MaxFrames]
  /\ \A p \in Producer : pc[p] # "away" => built[p] # 0
  /\ in_hand \in Frame \cup {NoFrame}
  /\ heap \subseteq Frame
  /\ used \in Seq(Frame)

(* The frames in the queue, and in the hands of the producers and of the   *)
(* consumer.                                                               *)
Queued    == {queue[i] : i \in DOMAIN queue}
Handed    == {Own(p) : p \in {q \in Producer : pc[q] # "away"}}
Received  == IF in_hand = NoFrame THEN {} ELSE {in_hand}

(* Every allocated frame is in exactly one place, the queue, the hand of   *)
(* its producer or that of the consumer, and no place holds a frame that   *)
(* was freed: nothing leaks, and nothing is freed twice or used after.     *)
FramesOwned ==
  /\ heap = Queued \cup Handed \cup Received
  /\ Queued \cap Handed = {}
  /\ Queued \cap Received = {}
  /\ Handed \cap Received = {}
  /\ \A i, j \in DOMAIN queue : queue[i] = queue[j] => i = j

(* send_event drops the new frame only when another producer took the room *)
(* that it had made: a task that is alone at its queue, as tcp_client_task *)
(* is at cmd_queue, never loses the newest frame.                          *)
RoomTakenByOthers ==
  \A p \in Producer : pc[p] = "resend" /\ Len(queue) = QUEUE_SIZE
    => queue[Len(queue)].by # p

(* The channel that a queue with both its ends implements: in transit is   *)
(* what the consumer holds, then what is queued.                           *)
Channel == INSTANCE LossyChannel WITH
  transit   <- (IF in_hand = NoFrame THEN <<>> ELSE <<in_hand>>) \o queue,
  delivered <- used

(* The queue with both its ends is a lossy channel: no frame is used twice *)
(* or out of order, whatever is dropped on the way.                        *)
IsLossyChannel == Channel!Spec

(* Every frame is used or dropped in the end, and its memory is returned. *)
EveryFrameFreed == \A f \in Frame : f \in heap ~> f \notin heap
=============================================================================
