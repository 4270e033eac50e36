-------------------------- MODULE StreamContract --------------------------
(***************************************************************************)
(* What the serial link promises to the tasks that hand it messages, one   *)
(* queue per sender: messages are taken in the order they were posted, the *)
(* head stays where it is while it is being offered to the module, and a   *)
(* request leaves the queue only after it has been written to the line at  *)
(* least once.  It says nothing of marks, timers or answers.               *)
(***************************************************************************)
EXTENDS Naturals, Sequences

CONSTANTS Streams,   (* the senders that share the line                   *)
          Message,   (* what they may post                                *)
          Droppable, (* the messages that may be discarded unwritten      *)
          QueueLen   (* the capacity of each sender's queue               *)

VARIABLES queue,     (* queue[s]: what sender s posted, oldest first      *)
          written    (* written[s]: the head of queue[s] was written      *)

vars == <<queue, written>>

Init ==
    /\ queue   = [s \in Streams |-> <<>>]
    /\ written = [s \in Streams |-> FALSE]

Post(s, m) ==
    /\ Len(queue[s]) < QueueLen
    /\ queue' = [queue EXCEPT ![s] = Append(@, m)]
    /\ UNCHANGED written

Offer(s) ==
    /\ queue[s] # <<>>
    /\ written' = [written EXCEPT ![s] = TRUE]
    /\ UNCHANGED queue

Discard(s) ==
    /\ queue[s] # <<>>
    /\ written[s] \/ Head(queue[s]) \in Droppable
    /\ queue'   = [queue EXCEPT ![s] = Tail(@)]
    /\ written' = [written EXCEPT ![s] = FALSE]

Next ==
    \E s \in Streams :
        \/ \E m \in Message : Post(s, m)
        \/ Offer(s)
        \/ Discard(s)

Spec == Init /\ [][Next]_vars
===========================================================================
