-------------------------------- MODULE Fifo --------------------------------
(***************************************************************************)
(* What conque<T> of system/conque.h promises: a first-in first-out queue  *)
(* whose operations take effect at one instant each.  A batch of values    *)
(* goes in as a whole.  A dequeue fails, and empty() says yes, only when   *)
(* the queue is empty at that instant.                                     *)
(***************************************************************************)
EXTENDS Sequences

CONSTANTS Consumers, Values,
          None,    \* a consumer that has no answer yet
          Failed,  \* dequeue returned false, or empty() returned true
          NonEmpty \* empty() returned false

VARIABLES queue,   \* what is in the queue
          answer   \* the latest answer of each consumer's operation

vars == <<queue, answer>>

Init == /\ queue = <<>>
        /\ answer = [c \in Consumers |-> None]

Enqueue(vs) == /\ queue' = queue \o vs
               /\ UNCHANGED answer

Dequeue(c) ==
  \/ /\ queue # <<>>
     /\ queue' = Tail(queue)
     /\ answer' = [answer EXCEPT ![c] = Head(queue)]
  \/ /\ queue = <<>>
     /\ answer' = [answer EXCEPT ![c] = Failed]
     /\ UNCHANGED queue

Empty(c) == /\ answer' = [answer EXCEPT ![c] = IF queue = <<>> THEN Failed
                                                               ELSE NonEmpty]
            /\ UNCHANGED queue

\* The consumer starts another operation.
Call(c) == /\ answer' = [answer EXCEPT ![c] = None]
           /\ UNCHANGED queue

CONSTANT Batches   \* the sequences of values an enqueue may be given

Next == \/ \E vs \in Batches : Enqueue(vs)
        \/ \E c \in Consumers : Dequeue(c) \/ Empty(c) \/ Call(c)

Spec == Init /\ [][Next]_vars
=============================================================================
