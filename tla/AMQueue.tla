------------------------------- MODULE AMQueue -------------------------------
(***************************************************************************)
(* AMQueueImplP of TinyOS as compiled into the nodes of final/: the queue  *)
(* through which the N AMSender components of a node share one radio.      *)
(*                                                                         *)
(* queue[c] is the message_t sender c has handed over, current the sender  *)
(* whose message the radio has (N when there is none).  The radio reports  *)
(* sendDone; the queue clears the slot, hands over the next message round  *)
(* robin, and calls the sender back.  When the radio refuses the next      *)
(* message at once, errorTask answers for it later.  Nobody in this        *)
(* repository calls cancel, so cancelMask is zero and CancelTask never     *)
(* runs.                                                                   *)
(*                                                                         *)
(* All of this runs in tasks.  The callback is cut off as a step of its    *)
(* own (told), because the sender's handler may call send again.           *)
(***************************************************************************)
EXTENDS Naturals

CONSTANTS N,              \* number of senders
          Buffers,        \* the message_t variables of the program
          NoMsg,          \* the null pointer
          RadioFails      \* the radio may refuse a message at once

ASSUME QueueAssumption == /\ N \in Nat \ {0}
                          /\ NoMsg \notin Buffers
                          /\ RadioFails \in BOOLEAN

Senders == 0 .. N - 1

VARIABLES queue, current,
          errorTask,      \* errorTask is in the scheduler's queue
          radio,          \* the message the radio is sending, or NoMsg
          told            \* the sender whose sendDone handler runs, or N

queueVars == <<queue, current, errorTask, radio, told>>

QueueTypeOK == /\ queue \in [Senders -> Buffers \cup {NoMsg}]
               /\ current \in 0 .. N
               /\ errorTask \in BOOLEAN
               /\ radio \in Buffers \cup {NoMsg}
               /\ told \in 0 .. N

QueueInit == /\ queue = [c \in Senders |-> NoMsg]
             /\ current = N
             /\ errorTask = FALSE
             /\ radio = NoMsg
             /\ told = N

----------------------------------------------------------------------------
(* Send.send, called from a task or from a sendDone handler.               *)

\* With nothing to send the message goes to the radio within the call.
SendAccepted(c, m) ==
  /\ queue[c] = NoMsg
  /\ queue' = [queue EXCEPT ![c] = m]
  /\ \/ /\ current = N
        /\ current' = c
        /\ radio' = m
     \/ /\ current # N
        /\ UNCHANGED <<current, radio>>
  /\ UNCHANGED <<errorTask, told>>

SendBusy(c) == queue[c] # NoMsg /\ UNCHANGED queueVars        \* EBUSY

\* The radio's error is returned and the slot cleared again.
SendFails(c) == /\ RadioFails
                /\ queue[c] = NoMsg /\ current = N
                /\ UNCHANGED queueVars

SendRefused(c) == SendBusy(c) \/ SendFails(c)

----------------------------------------------------------------------------
(* AMSend.sendDone of the radio, errorTask, and Send.sendDone              *)

\* The i-th slot after the current one, cyclically.
SlotAfter(i) == IF current + i < N THEN current + i ELSE current + i - N

\* Mutant of NextPacket: the search begins at slot 0.
NextPacketFromZero(q) ==
  \/ \E s \in Senders : /\ q[s] # NoMsg
                        /\ \A r \in Senders : r < s => q[r] = NoMsg
                        /\ current' = s
  \/ /\ \A s \in Senders : q[s] = NoMsg
     /\ current' = N

\* nextPacket on the queue q: the first full slot after the current one.
NextPacket(q) ==
  \/ \E i \in 1 .. N : /\ q[SlotAfter(i)] # NoMsg
                       /\ \A j \in 1 .. i - 1 : q[SlotAfter(j)] = NoMsg
                       /\ current' = SlotAfter(i)
  \/ /\ \A s \in Senders : q[s] = NoMsg
     /\ current' = N

\* Mutant of TryToSend: a message the radio refuses is not answered for.
TryToSendOnce(q) ==
  /\ NextPacket(q)
  /\ \/ /\ current' < N
        /\ radio' = q[current']
     \/ /\ current' = N \/ RadioFails
        /\ radio' = NoMsg
  /\ errorTask' = FALSE

TryToSend(q) ==
  /\ NextPacket(q)
  /\ \/ /\ current' < N
        /\ radio' = q[current']
        /\ errorTask' = FALSE
     \/ /\ current' < N /\ RadioFails
        /\ radio' = NoMsg
        /\ errorTask' = TRUE
     \/ /\ current' = N
        /\ radio' = NoMsg
        /\ errorTask' = FALSE

\* Mutants of SendDone: the slot is never cleared, or after the next is chosen.
SendDoneKeepsSlot(c) == /\ UNCHANGED queue
                        /\ TryToSend(queue)
                        /\ told' = c

SendDoneClearsLate(c) == /\ queue' = [queue EXCEPT ![c] = NoMsg]
                         /\ TryToSend(queue)
                         /\ told' = c

SendDone(c) == /\ queue' = [queue EXCEPT ![c] = NoMsg]
               /\ TryToSend(queue')
               /\ told' = c

\* A report for another message than the current one is ignored.
RadioSendDone ==
  /\ told = N /\ radio # NoMsg
  /\ IF current < N /\ queue[current] = radio
     THEN SendDone(current)
     ELSE radio' = NoMsg /\ UNCHANGED <<queue, current, errorTask, told>>

ErrorTask == told = N /\ errorTask /\ SendDone(current)

HandlerReturns == /\ told # N
                  /\ told' = N
                  /\ UNCHANGED <<queue, current, errorTask, radio>>

----------------------------------------------------------------------------
QueueNext == \/ \E c \in Senders :
                  SendRefused(c) \/ \E m \in Buffers : SendAccepted(c, m)
             \/ RadioSendDone \/ ErrorTask \/ HandlerReturns

\* The radio reports every message it took; tasks and handlers run and end.
QueueFairness == /\ WF_queueVars(RadioSendDone)
                 /\ WF_queueVars(ErrorTask)
                 /\ WF_queueVars(HandlerReturns)

QueueSpec == QueueInit /\ [][QueueNext]_queueVars /\ QueueFairness

----------------------------------------------------------------------------
\* The current message is with the radio, or errorTask will answer for it:
\* one of the two, so that no message is forgotten and none answered twice.
CurrentIsServed ==
  current < N => /\ queue[current] # NoMsg
                 /\ \/ radio = queue[current] /\ ~errorTask
                    \/ radio = NoMsg /\ errorTask

\* The queue is at rest only when no slot is full and the radio has nothing.
RestsWhenEmpty ==
  current = N => /\ \A c \in Senders : queue[c] = NoMsg
                 /\ radio = NoMsg /\ ~errorTask

QueueInv == QueueTypeOK /\ CurrentIsServed /\ RestsWhenEmpty

Pending == {c \in Senders : queue[c] # NoMsg}

Slots == INSTANCE SendSlots WITH Nobody <- N, pending <- Pending

\* Senders that share the radio see one slot each, and every accepted send is
\* answered once, also while others send without pause or the radio refuses.
ImplementsSlots == Slots!SlotSpec
=============================================================================
