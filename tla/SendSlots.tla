------------------------------ MODULE SendSlots ------------------------------
(***************************************************************************)
(* What the send queue of the radio promises to the senders that share it: *)
(* each has one slot; a send is accepted only when the slot is free; every *)
(* accepted send is answered by exactly one sendDone, whoever else sends.  *)
(***************************************************************************)
CONSTANTS Senders, Nobody

VARIABLES pending,        \* senders whose accepted send is not yet answered
          told            \* the sender whose sendDone handler runs, or Nobody

slotVars == <<pending, told>>

SlotInit == pending = {} /\ told = Nobody

AcceptSend(c) == /\ c \notin pending
                 /\ pending' = pending \cup {c}
                 /\ UNCHANGED told

\* The slot is free again when the handler runs: it may send at once.
Tell(c) == /\ told = Nobody /\ c \in pending
           /\ pending' = pending \ {c}
           /\ told' = c

Told == /\ told # Nobody
        /\ told' = Nobody
        /\ UNCHANGED pending

SlotNext == Told \/ \E c \in Senders : AcceptSend(c) \/ Tell(c)

SlotSafety == SlotInit /\ [][SlotNext]_slotVars

SlotSpec == SlotSafety /\ WF_slotVars(Told) /\ \A c \in Senders : SF_slotVars(Tell(c))
=============================================================================
