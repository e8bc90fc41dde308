--------------------------- MODULE RelayNodeProofs ---------------------------
(***************************************************************************)
(* First the send queue, for any number of senders: its invariant, and     *)
(* that it keeps the promise of SendSlots (the safety part).  The step     *)
(* lemmas are stated for the operations, not for QueueNext, so that they   *)
(* can be cited for a node that uses the queue; and that the round robin   *)
(* serves everybody in turn.  Then the relay on top of it, for every bound *)
(* on sequence numbers: its invariant, that busy_radio is set only while a *)
(* callback is to come, that it leaves the promise of the queue intact,    *)
(* and that its steps are steps of the relays of CommandNetwork.           *)
(***************************************************************************)
EXTENDS RelayNode, TLAPS

\* A slot found by the round-robin search is a slot.
LEMMA SlotAfterType ==
  ASSUME current \in Senders, NEW i \in 1 .. N
  PROVE  SlotAfter(i) \in Senders
  BY QueueAssumption DEF Senders, SlotAfter

\* The search ends at a full slot, or nowhere when all slots are empty.
LEMMA NextPacketFinds ==
  ASSUME NEW q, current \in Senders, NextPacket(q)
  PROVE  \/ current' \in Senders /\ q[current'] # NoMsg
         \/ current' = N /\ \A s \in Senders : q[s] = NoMsg
  BY SlotAfterType DEF NextPacket

\* Accepting a send keeps the invariant.
LEMMA SendAcceptedInv ==
  ASSUME QueueInv, NEW c \in Senders, NEW m \in Buffers, SendAccepted(c, m)
  PROVE  QueueInv'
<1>1. /\ queue' = [queue EXCEPT ![c] = m] /\ queue \in [Senders -> Buffers \cup {NoMsg}]
      /\ m # NoMsg /\ queue[c] = NoMsg
      /\ errorTask' = errorTask /\ told' = told
  BY QueueAssumption DEF SendAccepted, QueueInv, QueueTypeOK
<1>2. queue' \in [Senders -> Buffers \cup {NoMsg}] /\ queue'[c] = m
      /\ \A s \in Senders \ {c} : queue'[s] = queue[s]
  BY <1>1
<1>3. c \in 0 .. N /\ c < N /\ c # N
  BY QueueAssumption DEF Senders
<1>4. CASE current = N
  <2>1. current' = c /\ radio' = m /\ radio = NoMsg /\ ~errorTask
    BY <1>1, <1>4, QueueAssumption DEF SendAccepted, QueueInv, RestsWhenEmpty
  <2> QED
    BY <1>1, <1>2, <1>3, <2>1
    DEF QueueInv, QueueTypeOK, CurrentIsServed, RestsWhenEmpty
<1>5. CASE current # N
  <2>1. current' = current /\ radio' = radio
    BY <1>5 DEF SendAccepted
  <2>2. current \in Senders /\ current < N
    BY <1>5, QueueAssumption DEF QueueInv, QueueTypeOK, Senders
  <2>3. queue[current] # NoMsg
    BY <2>2 DEF QueueInv, CurrentIsServed
  <2>4. queue'[current] = queue[current]
    BY <1>1, <1>2, <2>2, <2>3
  <2> QED
    BY <1>1, <1>2, <1>5, <2>1, <2>4
    DEF QueueInv, QueueTypeOK, CurrentIsServed, RestsWhenEmpty
<1> QED
  BY <1>4, <1>5

\* So does answering the current sender, whether its message was sent or not.
LEMMA SendDoneInv ==
  ASSUME QueueInv, current < N, SendDone(current)
  PROVE  QueueInv'
<1>1. current \in Senders /\ queue \in [Senders -> Buffers \cup {NoMsg}]
  BY QueueAssumption DEF QueueInv, QueueTypeOK, Senders
<1>2. queue' \in [Senders -> Buffers \cup {NoMsg}] /\ told' \in 0 .. N
  BY <1>1, QueueAssumption DEF SendDone, Senders
<1>3. \/ current' \in Senders /\ queue'[current'] # NoMsg
      \/ current' = N /\ \A s \in Senders : queue'[s] = NoMsg
  BY <1>1, NextPacketFinds DEF SendDone, TryToSend
<1>4. CASE current' \in Senders /\ queue'[current'] # NoMsg
  <2>1. current' \in 0 .. N /\ current' < N /\ current' # N
    BY <1>4, QueueAssumption DEF Senders
  <2>2. queue'[current'] \in Buffers
    BY <1>2, <1>4
  <2>3. \/ radio' = queue'[current'] /\ errorTask' = FALSE
        \/ radio' = NoMsg /\ errorTask' = TRUE
    BY <2>1 DEF SendDone, TryToSend
  <2> QED
    BY <1>2, <1>4, <2>1, <2>2, <2>3
    DEF QueueInv, QueueTypeOK, CurrentIsServed, RestsWhenEmpty
<1>5. CASE current' = N /\ \A s \in Senders : queue'[s] = NoMsg
  <2>1. current' \in 0 .. N /\ ~(current' < N)
    BY <1>5, QueueAssumption
  <2>2. radio' = NoMsg /\ errorTask' = FALSE
    BY <2>1 DEF SendDone, TryToSend
  <2> QED
    BY <1>2, <1>5, <2>1, <2>2
    DEF QueueInv, QueueTypeOK, CurrentIsServed, RestsWhenEmpty
<1> QED
  BY <1>3, <1>4, <1>5

\* A report of the radio is always one for the current message.
LEMMA ReportIsForCurrent ==
  ASSUME QueueInv, RadioSendDone \/ ErrorTask
  PROVE  /\ told = N /\ current < N /\ queue[current] # NoMsg
         /\ SendDone(current)
<1>1. radio # NoMsg \/ errorTask
  BY DEF RadioSendDone, ErrorTask
<1>2. current # N
  BY <1>1 DEF QueueInv, RestsWhenEmpty
<1>3. current < N
  BY <1>2, QueueAssumption DEF QueueInv, QueueTypeOK
<1>4. queue[current] # NoMsg /\ (radio # NoMsg => queue[current] = radio)
  BY <1>3 DEF QueueInv, CurrentIsServed
<1> QED
  BY <1>3, <1>4 DEF RadioSendDone, ErrorTask

\* The end of a handler, and a refused send, touch nothing of the invariant.
LEMMA QuietStepInv ==
  ASSUME QueueInv, HandlerReturns \/ UNCHANGED queueVars
  PROVE  QueueInv'
  BY QueueAssumption DEF QueueInv, HandlerReturns, queueVars, QueueTypeOK, CurrentIsServed, RestsWhenEmpty

\* Initially the queue rests.
LEMMA QueueInitInv ==
  ASSUME QueueInit
  PROVE  QueueInv
<1>1. N \in 0 .. N /\ ~(N < N)
  BY QueueAssumption
<1>2. \A c \in Senders : queue[c] = NoMsg
  BY DEF QueueInit
<1>3. QueueTypeOK
  BY <1>1 DEF QueueInit, QueueTypeOK
<1> QED
  BY <1>1, <1>2, <1>3 DEF QueueInit, QueueInv, CurrentIsServed, RestsWhenEmpty

\* Every step of the queue keeps the invariant.
LEMMA QueueStepInv ==
  ASSUME QueueInv, [QueueNext]_queueVars
  PROVE  QueueInv'
<1>1. CASE \E c \in Senders : SendRefused(c)
  BY <1>1, QuietStepInv DEF SendRefused, SendBusy, SendFails
<1>2. CASE \E c \in Senders, m \in Buffers : SendAccepted(c, m)
  BY <1>2, SendAcceptedInv
<1>3. CASE RadioSendDone \/ ErrorTask
  BY <1>3, ReportIsForCurrent, SendDoneInv
<1>4. CASE HandlerReturns \/ UNCHANGED queueVars
  BY <1>4, QuietStepInv
<1> QED
  BY <1>1, <1>2, <1>3, <1>4 DEF QueueNext

\* The queue never forgets a message and never rests while one waits, for any
\* number of senders.
THEOREM QueueInvariant == QueueSpec => []QueueInv
<1>1. QueueInit => QueueInv
  BY QueueInitInv
<1>2. QueueInv /\ [QueueNext]_queueVars => QueueInv'
  BY QueueStepInv
<1> QED
  BY <1>1, <1>2, PTL DEF QueueSpec

----------------------------------------------------------------------------
(* The steps, seen by the senders.                                         *)

\* An accepted send takes the sender's slot.
LEMMA SendAcceptedMaps ==
  ASSUME QueueInv, NEW c \in Senders, NEW m \in Buffers, SendAccepted(c, m)
  PROVE  Slots!AcceptSend(c)
<1>1. c \notin Pending /\ told' = told
  BY DEF SendAccepted, Pending
<1>2. /\ queue' = [queue EXCEPT ![c] = m] /\ queue \in [Senders -> Buffers \cup {NoMsg}]
      /\ m # NoMsg
  BY QueueAssumption DEF SendAccepted, QueueInv, QueueTypeOK
<1>3. Pending' = Pending \cup {c}
  BY <1>2 DEF Pending
<1> QED
  BY <1>1, <1>3 DEF Slots!AcceptSend

\* A report, good or bad, frees one slot and tells its sender.
LEMMA ReportMaps ==
  ASSUME QueueInv, RadioSendDone \/ ErrorTask
  PROVE  \E c \in Senders : Slots!Tell(c)
<1>1. told = N /\ current < N /\ queue[current] # NoMsg /\ SendDone(current)
  BY ReportIsForCurrent
<1>2. current \in Senders /\ queue \in [Senders -> Buffers \cup {NoMsg}]
  BY <1>1, QueueAssumption DEF QueueInv, QueueTypeOK, Senders
<1>3. queue' = [queue EXCEPT ![current] = NoMsg] /\ told' = current
  BY <1>1 DEF SendDone
<1>4. current \in Pending /\ Pending' = Pending \ {current}
  BY <1>1, <1>2, <1>3 DEF Pending
<1> QED
  BY <1>1, <1>2, <1>3, <1>4 DEF Slots!Tell

\* The end of the sender's handler.
LEMMA ReturnMaps ==
  ASSUME HandlerReturns
  PROVE  Slots!Told
  BY DEF HandlerReturns, Slots!Told, Pending

\* A refused send is not seen.
LEMMA RefusedMaps ==
  ASSUME UNCHANGED queueVars
  PROVE  UNCHANGED Slots!slotVars
  BY DEF queueVars, Slots!slotVars, Pending

\* Initially no slot is taken.
LEMMA QueueInitMaps ==
  ASSUME QueueInit
  PROVE  Slots!SlotInit
  BY DEF QueueInit, Slots!SlotInit, Pending

\* Every step of the queue is a step of SendSlots or none.
LEMMA QueueStepMaps ==
  ASSUME QueueInv, [QueueNext]_queueVars
  PROVE  [Slots!SlotNext]_Slots!slotVars
<1>1. CASE \E c \in Senders : SendRefused(c)
  BY <1>1, RefusedMaps DEF SendRefused, SendBusy, SendFails
<1>2. CASE \E c \in Senders, m \in Buffers : SendAccepted(c, m)
  BY <1>2, SendAcceptedMaps DEF Slots!SlotNext
<1>3. CASE RadioSendDone \/ ErrorTask
  BY <1>3, ReportMaps DEF Slots!SlotNext
<1>4. CASE HandlerReturns
  BY <1>4, ReturnMaps DEF Slots!SlotNext
<1>5. CASE UNCHANGED queueVars
  BY <1>5, RefusedMaps
<1> QED
  BY <1>1, <1>2, <1>3, <1>4, <1>5 DEF QueueNext

\* Senders see one slot each and exactly one sendDone per accepted send.
THEOREM QueueImplementsSlots == QueueSpec => Slots!SlotSafety
<1>1. QueueInit => Slots!SlotInit
  BY QueueInitMaps
<1>2. QueueInv /\ [QueueNext]_queueVars => [Slots!SlotNext]_Slots!slotVars
  BY QueueStepMaps
<1> QED
  BY <1>1, <1>2, QueueInvariant, PTL DEF QueueSpec, Slots!SlotSafety

----------------------------------------------------------------------------
(* Turns.                                                                  *)

\* How many slots after a the slot c is, cyclically.
Ahead(a, c) == IF c > a THEN c - a ELSE c - a + N

\* While a sender waits, every report brings its turn closer, and nothing else
\* moves the turn: at most N - 1 reports to others come before its own.
ServedInTurn ==
  [][\A c \in Pending \cap Pending' :
       IF RadioSendDone \/ ErrorTask
       THEN c = current' \/ Ahead(current', c) < Ahead(current, c)
       ELSE UNCHANGED current]_queueVars

\* The i-th slot after the current one is i ahead of it, and every slot is there.
LEMMA AheadOfSlots ==
  ASSUME current \in Senders
  PROVE  \A c \in Senders : /\ Ahead(current, c) \in 1 .. N
                            /\ SlotAfter(Ahead(current, c)) = c
  BY QueueAssumption DEF Senders, SlotAfter, Ahead

\* Between a slot and a later one there is less way than from before it.
LEMMA AheadGrowsLess ==
  ASSUME current \in Senders, NEW i \in 1 .. N, NEW c \in Senders,
         i < Ahead(current, c)
  PROVE  Ahead(SlotAfter(i), c) < Ahead(current, c)
  BY QueueAssumption DEF Senders, SlotAfter, Ahead

\* A report moves the turn to the first full slot, and not beyond c.
LEMMA ReportComesCloser ==
  ASSUME QueueInv, RadioSendDone \/ ErrorTask, NEW c \in Pending'
  PROVE  c = current' \/ Ahead(current', c) < Ahead(current, c)
<1>1. current < N /\ SendDone(current)
  BY ReportIsForCurrent
<1>2. current \in Senders /\ c \in Senders /\ queue'[c] # NoMsg
  BY <1>1, QueueAssumption DEF QueueInv, QueueTypeOK, Senders, Pending
<1>3. PICK i \in 1 .. N : /\ \A j \in 1 .. i - 1 : queue'[SlotAfter(j)] = NoMsg
                          /\ current' = SlotAfter(i)
  BY <1>1, <1>2 DEF SendDone, TryToSend, NextPacket
<1> DEFINE k == Ahead(current, c)
<1>4. k \in 1 .. N /\ SlotAfter(k) = c
  BY <1>2, AheadOfSlots
<1>5. ~(k < i)
  BY <1>2, <1>3, <1>4, QueueAssumption
<1>6. CASE k = i
  BY <1>3, <1>4, <1>6
<1>7. CASE i < k
  BY <1>2, <1>3, <1>7, AheadGrowsLess
<1> QED
  BY <1>4, <1>5, <1>6, <1>7, QueueAssumption

\* No sender that waits is passed over: its turn comes after at most N - 1
\* others, whatever is sent meanwhile and whatever the radio refuses.
THEOREM QueueServesInTurn == QueueSpec => ServedInTurn
<1>1. ASSUME QueueInv, [QueueNext]_queueVars, NEW c \in Pending \cap Pending',
             ~(RadioSendDone \/ ErrorTask)
      PROVE  UNCHANGED current
  <2>1. current # N
    BY <1>1 DEF QueueInv, RestsWhenEmpty, Pending
  <2> QED
    BY <1>1, <2>1 DEF QueueNext, SendRefused, SendBusy, SendFails, SendAccepted,
                      HandlerReturns, queueVars
<1>2. QueueInv /\ [QueueNext]_queueVars =>
        [\A c \in Pending \cap Pending' :
           IF RadioSendDone \/ ErrorTask
           THEN c = current' \/ Ahead(current', c) < Ahead(current, c)
           ELSE UNCHANGED current]_queueVars
  BY <1>1, ReportComesCloser
<1> QED
  BY <1>2, QueueInvariant, PTL DEF QueueSpec, ServedInTurn

-----------------------------------------------------------------------------
(* The relay.                                                              *)

\* Both senders of the relay are senders of the queue, both packets buffers.
LEMMA RelaySenders ==
  /\ CAR \in Senders /\ DATA \in Senders
  /\ "car_packet" \in Buffers /\ "data_packet" \in Buffers
  BY RelayAssumption DEF CAR, DATA, Senders

\* What a frame heard does to the queue: one accepted send at most.
LEMMA HeardUsesQueue ==
  ASSUME Hears
  PROVE  \/ \E c \in Senders, m \in Buffers : SendAccepted(c, m)
         \/ UNCHANGED queueVars
  BY RelaySenders
  DEF Hears, Receive, TakeCarFrame, SkipCarFrame, DataReceive, SendRefused, SendBusy,
      SendFails

\* What any step of the relay does to the queue: a step of the queue or none.
LEMMA StepUsesQueue ==
  ASSUME [Next]_vars
  PROVE  [QueueNext]_queueVars
<1>1. CASE \E err \in {"SUCCESS", "FAIL"} : StartDone(err)
  BY <1>1 DEF StartDone
<1>2. CASE Hears
  BY <1>2, HeardUsesQueue DEF QueueNext
<1>3. CASE RelaySendDone
  BY <1>3 DEF RelaySendDone, QueueNext
<1>4. CASE QueueRuns
  BY <1>4 DEF QueueRuns, QueueNext
<1>5. CASE UNCHANGED vars
  BY <1>5 DEF vars
<1> QED
  BY <1>1, <1>2, <1>3, <1>4, <1>5 DEF Next

\* A command frame keeps the relay's own variables in their types, and pktID
\* behind the packet: the packet is overwritten only by newer frames.
LEMMA ReceiveInv ==
  ASSUME RelayInv, NEW s \in Seqs, NEW reset \in BOOLEAN, Receive(s, reset)
  PROVE  /\ started' \in BOOLEAN /\ busy_radio' \in BOOLEAN
         /\ pktID' \in Seqs /\ packetSeq' \in Seqs
         /\ pktID' <= packetSeq'
<1> DEFINE id == IF reset THEN 0 ELSE pktID
<1>1. id \in Seqs /\ id <= packetSeq
  BY RelayAssumption DEF RelayInv, TypeOK, SuppressesOnlyOlder, Seqs
<1>2. TakeCarFrame(s, id) \/ SkipCarFrame(s, id)
  BY DEF Receive
<1>3. started' = started
  BY DEF Receive
<1>4. started \in BOOLEAN /\ busy_radio \in BOOLEAN /\ packetSeq \in Seqs
  BY DEF RelayInv, TypeOK
<1> HIDE DEF id
<1>5. CASE TakeCarFrame(s, id)
  <2>1. /\ s > id /\ packetSeq' = s
        /\ pktID' = id \/ pktID' = s
        /\ busy_radio' = busy_radio \/ busy_radio' = TRUE
    BY <1>5 DEF TakeCarFrame
  <2>2. busy_radio' \in BOOLEAN
    BY <1>4, <2>1
  <2> QED
    BY <1>1, <1>3, <1>4, <2>1, <2>2 DEF Seqs
<1>6. CASE SkipCarFrame(s, id)
  BY <1>1, <1>3, <1>4, <1>6 DEF SkipCarFrame
<1> QED
  BY <1>2, <1>5, <1>6

\* Every step keeps the relay's invariant.
LEMMA RelayStep ==
  ASSUME RelayInv, [Next]_vars
  PROVE  RelayInv'
<1>1. QueueInv'
  BY StepUsesQueue, QueueStepInv DEF RelayInv
<1>2. QueueTypeOK'
  BY <1>1 DEF QueueInv
<1>3. /\ started \in BOOLEAN /\ busy_radio \in BOOLEAN
      /\ pktID \in Seqs /\ packetSeq \in Seqs /\ pktID <= packetSeq
  BY DEF RelayInv, TypeOK, SuppressesOnlyOlder
<1>4. /\ started' \in BOOLEAN /\ busy_radio' \in BOOLEAN
      /\ pktID' \in Seqs /\ packetSeq' \in Seqs /\ pktID' <= packetSeq'
  <2>1. CASE \E err \in {"SUCCESS", "FAIL"} : StartDone(err)
    BY <1>3, <2>1 DEF StartDone
  <2>2. CASE \E s \in Seqs, reset \in BOOLEAN : Receive(s, reset)
    BY <2>2, ReceiveInv
  <2>3. CASE DataReceive
    <3>1. /\ UNCHANGED <<started, pktID, packetSeq>>
          /\ busy_radio' = busy_radio \/ busy_radio' = TRUE
      BY <2>3 DEF DataReceive
    <3>2. busy_radio' \in BOOLEAN
      BY <1>3, <3>1
    <3> QED
      BY <1>3, <3>1, <3>2
  <2>4. CASE RelaySendDone
    BY <1>3, <2>4 DEF RelaySendDone
  <2>5. CASE QueueRuns \/ UNCHANGED vars
    BY <1>3, <2>5 DEF QueueRuns, vars, relayVars
  <2> QED
    BY <2>1, <2>2, <2>3, <2>4, <2>5 DEF Next, Hears
<1> QED
  BY <1>1, <1>2, <1>4 DEF RelayInv, TypeOK, SuppressesOnlyOlder

\* Initially nothing has been heard.
LEMMA RelayInit ==
  ASSUME Init
  PROVE  RelayInv
<1>1. QueueInv
  BY QueueInitInv DEF Init
<1>2. QueueTypeOK
  BY <1>1 DEF QueueInv
<1>3. started \in BOOLEAN /\ busy_radio \in BOOLEAN
  BY DEF Init
<1>4. pktID = 0 /\ packetSeq = 0 /\ 0 \in Seqs
  BY RelayAssumption DEF Init, Seqs
<1> QED
  BY <1>1, <1>2, <1>3, <1>4 DEF RelayInv, TypeOK, SuppressesOnlyOlder

\* The relay's invariant, also with a radio that refuses messages.
THEOREM RelayInvariant == Spec => []RelayInv
<1>1. Init => RelayInv
  BY RelayInit
<1>2. RelayInv /\ [Next]_vars => RelayInv'
  BY RelayStep
<1> QED
  BY <1>1, <1>2, PTL DEF Spec

\* pktID never runs ahead of the packet.
THEOREM SuppressionIsSound == Spec => []SuppressesOnlyOlder
<1>1. RelayInv => SuppressesOnlyOlder
  BY DEF RelayInv
<1> QED
  BY <1>1, RelayInvariant, PTL

----------------------------------------------------------------------------
(* busy_radio                                                              *)

\* A refused send of a radio that refuses nothing finds the slot full.
LEMMA RefusedMeansPending ==
  ASSUME ~RadioFails, NEW c \in Senders, SendRefused(c)
  PROVE  Pending' # {}
  BY DEF SendRefused, SendFails, SendBusy, queueVars, Pending

\* An accepted send leaves something pending.
LEMMA AcceptedMeansPending ==
  ASSUME QueueInv, NEW c \in Senders, NEW m \in Buffers, SendAccepted(c, m)
  PROVE  Pending' # {}
  BY SendAcceptedMaps DEF Slots!AcceptSend

\* Hearing a frame can set busy_radio only with a send pending.
LEMMA HeardBusy ==
  ASSUME RelayInv, BusyMeansPending, ~RadioFails, Hears
  PROVE  BusyMeansPending'
<1>1. QueueInv
  BY DEF RelayInv
<1>2. \/ \E c \in Senders, m \in Buffers : SendAccepted(c, m)
      \/ \E c \in Senders : SendRefused(c)
      \/ UNCHANGED <<busy_radio, queueVars>>
  BY RelaySenders DEF Hears, Receive, TakeCarFrame, SkipCarFrame, DataReceive
<1>3. CASE \E c \in Senders, m \in Buffers : SendAccepted(c, m)
  BY <1>1, <1>3, AcceptedMeansPending DEF BusyMeansPending
<1>4. CASE \E c \in Senders : SendRefused(c)
  BY <1>4, RefusedMeansPending DEF BusyMeansPending
<1>5. CASE UNCHANGED <<busy_radio, queueVars>>
  BY <1>5 DEF BusyMeansPending, Pending, queueVars
<1> QED
  BY <1>2, <1>3, <1>4, <1>5

\* busy_radio is set only while a callback, which clears it, is to come.
THEOREM BusyOnlyWhilePending == ~RadioFails => (Spec => []BusyMeansPending)
<1> SUFFICES ASSUME ~RadioFails PROVE Spec => []BusyMeansPending
  OBVIOUS
<1>1. Init => BusyMeansPending
  BY DEF Init, BusyMeansPending
<1>2. RelayInv /\ BusyMeansPending /\ [Next]_vars => BusyMeansPending'
  <2> SUFFICES ASSUME RelayInv, BusyMeansPending, [Next]_vars PROVE BusyMeansPending'
    OBVIOUS
  <2>1. CASE \E err \in {"SUCCESS", "FAIL"} : StartDone(err)
    BY <2>1 DEF StartDone, BusyMeansPending, Pending, queueVars
  <2>2. CASE Hears
    BY <2>2, HeardBusy
  <2>3. CASE RelaySendDone
    BY <2>3 DEF RelaySendDone, BusyMeansPending
  <2>4. CASE QueueRuns
    <3>1. \E c \in Senders : Slots!Tell(c)
      BY <2>4, ReportMaps DEF QueueRuns, RelayInv
    <3>2. told' # N
      BY <3>1, RelayAssumption DEF Slots!Tell, Senders
    <3> QED
      BY <3>2 DEF BusyMeansPending
  <2>5. CASE UNCHANGED vars
    BY <2>5 DEF vars, relayVars, queueVars, BusyMeansPending, Pending
  <2> QED
    BY <2>1, <2>2, <2>3, <2>4, <2>5 DEF Next
<1> QED
  BY <1>1, <1>2, RelayInvariant, PTL DEF Spec

\* The relay's calls keep the queue's promise to its two senders.
THEOREM RelayUsesSlots == Spec => UsesSlots
<1>1. Init => Slots!SlotInit
  BY QueueInitMaps DEF Init
<1>2. RelayInv /\ [Next]_vars => [Slots!SlotNext]_Slots!slotVars
  BY StepUsesQueue, QueueStepMaps DEF RelayInv
<1> QED
  BY <1>1, <1>2, RelayInvariant, PTL DEF Spec, UsesSlots, Slots!SlotSafety

----------------------------------------------------------------------------
(* The relay in the network of commands.                                   *)

R == "relay"

\* The slot of command frames: a relay that is called back hears nothing.
CarSlot == IF told = CAR THEN "sent"
           ELSE IF queue[CAR] # NoMsg THEN "queued" ELSE "free"

\* A network of this relay alone, of whose frames only the number is looked at.
\* The queue does not know when the radio copies a packet: no copy is under way.
Net == INSTANCE CommandNetwork WITH
         Relays <- {R}, PC <- "pc", CAR <- "car", Link <- {},
         MAX_KEYS <- 0, RX_CAP <- 0, CAREFUL <- FALSE,
         counter <- 0, typed <- << >>, serial <- 0,
         packet <- [n \in {R, "pc"} |-> [seq |-> IF n = R THEN packetSeq ELSE 0]],
         slot <- [n \in {R, "pc"} |-> IF n = R THEN CarSlot ELSE "free"],
         fifo <- [n \in {R, "pc"} |-> [seq |-> 0]], whole <- TRUE,
         busy_radio <- [n \in {R} |-> busy_radio],
         pktID <- [n \in {R} |-> pktID],
         inbox <- [n \in {R, "car"} |-> << >>],
         carSeq <- 0, lastKey <- 0, obeyed <- 0, patient <- FALSE, orderly <- FALSE

\* CopyStarts and Transmit in one.
Sends == /\ CarSlot = "queued" /\ CarSlot' = "sent"
         /\ UNCHANGED <<packetSeq, busy_radio, pktID>>

\* What CommandNetwork lets a relay and its radio do.
NetworkRelay ==
  \/ \E s \in Seqs : \E id \in {0, pktID} : \/ Net!RelayTakes(R, [seq |-> s], id)
                                           \/ Net!RelaySkips(R, [seq |-> s], id)
  \/ Net!DataSendRefused(R) \/ Net!DataSendDone(R)
  \/ Sends \/ Net!SendDone(R)

netRelayVars == <<packetSeq, CarSlot, busy_radio, pktID>>

\* A sender that is called back has a free slot, and sends nothing meanwhile.
ToldIsFree == told = CAR => queue[CAR] = NoMsg

\* A command frame heard.
LEMMA ReceiveInNetwork ==
  ASSUME RelayInv, ~RadioFails, NEW s \in Seqs, NEW reset \in BOOLEAN, Receive(s, reset)
  PROVE  NetworkRelay
<1> DEFINE id == IF reset THEN 0 ELSE pktID
<1>1. /\ TakeCarFrame(s, id) \/ SkipCarFrame(s, id)
      /\ told = N /\ N # CAR /\ id \in {0, pktID} /\ CAR \in Senders
  BY RelaySenders, RelayAssumption DEF Receive, Receives, CAR
<1>2. /\ queue \in [Senders -> Buffers \cup {NoMsg}] /\ "car_packet" # NoMsg
      /\ CarSlot = IF queue[CAR] # NoMsg THEN "queued" ELSE "free"
  BY <1>1, RelaySenders, QueueAssumption DEF RelayInv, QueueInv, QueueTypeOK, CarSlot
<1> HIDE DEF id
<1>3. ASSUME Net!RelayTakes(R, [seq |-> s], id) PROVE NetworkRelay
  BY <1>1, <1>3 DEF NetworkRelay, Net!RelayTakes, Net!Send, Net!Overwrite
<1>4. CASE SkipCarFrame(s, id)
  <2>1. s <= id /\ pktID' = id /\ UNCHANGED <<packetSeq, busy_radio, queueVars>>
    BY <1>4 DEF SkipCarFrame
  <2>2. UNCHANGED CarSlot
    BY <2>1 DEF CarSlot, queueVars
  <2>3. Net!RelaySkips(R, [seq |-> s], id)
    BY <2>1, <2>2 DEF Net!RelaySkips, Net!radioVars
  <2> QED
    BY <1>1, <2>3 DEF NetworkRelay
<1>5. CASE TakeCarFrame(s, id)
  <2>1. s > id /\ packetSeq' = s
    BY <1>5 DEF TakeCarFrame
  <2>2. [n \in {R, "pc"} |-> [seq |-> IF n = R THEN packetSeq' ELSE 0]]
          = [[n \in {R, "pc"} |-> [seq |-> IF n = R THEN packetSeq ELSE 0]]
               EXCEPT ![R] = [seq |-> s]]
    BY <2>1
  <2>3. CASE busy_radio /\ pktID' = id /\ UNCHANGED <<busy_radio, queueVars>>
    <3>1. UNCHANGED CarSlot
      BY <2>3 DEF CarSlot, queueVars
    <3>2. CarSlot # "copying"
      BY <1>2
    <3>3. Net!Overwrite(R, [seq |-> s])
      BY <2>2, <3>2 DEF Net!Overwrite, R
    <3>4. Net!RelayTakes(R, [seq |-> s], id)
      BY <2>1, <2>3, <3>1, <3>3 DEF Net!RelayTakes
    <3> QED
      BY <1>3, <3>4
  <2>4. CASE /\ ~busy_radio /\ SendAccepted(CAR, "car_packet")
             /\ pktID' = id /\ UNCHANGED busy_radio
    <3>1. CarSlot = "free" /\ CarSlot' = "queued"
      BY <1>1, <1>2, <2>4 DEF SendAccepted, CarSlot
    <3>2. Net!Send(R, [seq |-> s], TRUE)
      BY <2>2, <3>1 DEF Net!Send, Net!Overwrite, R
    <3>3. Net!RelayTakes(R, [seq |-> s], id)
      BY <2>1, <2>4, <3>2 DEF Net!RelayTakes
    <3> QED
      BY <1>3, <3>3
  <2>5. CASE ~busy_radio /\ SendRefused(CAR) /\ pktID' = s /\ busy_radio' = TRUE
    <3>1. CarSlot = "queued" /\ CarSlot' = "queued"
      BY <1>1, <1>2, <2>5 DEF SendRefused, SendBusy, SendFails, queueVars, CarSlot
    <3>2. Net!Send(R, [seq |-> s], FALSE)
      BY <2>2, <3>1 DEF Net!Send, Net!Overwrite, R
    <3>3. Net!RelayTakes(R, [seq |-> s], id)
      BY <2>1, <2>5, <3>2 DEF Net!RelayTakes
    <3> QED
      BY <1>3, <3>3
  <2> QED
    BY <1>5, <2>3, <2>4, <2>5 DEF TakeCarFrame
<1> QED
  BY <1>1, <1>4, <1>5

\* A data frame heard is only seen when it sets busy_radio.
LEMMA DataInNetwork ==
  ASSUME RelayInv, DataReceive
  PROVE  NetworkRelay \/ UNCHANGED netRelayVars
<1>1. UNCHANGED <<packetSeq, pktID>> /\ CAR # DATA
  BY DEF DataReceive, CAR, DATA
<1>2. CASE busy_radio /\ UNCHANGED <<busy_radio, queueVars>>
  BY <1>1, <1>2 DEF netRelayVars, CarSlot, queueVars
<1>3. CASE SendAccepted(DATA, "data_packet") /\ UNCHANGED busy_radio
  <2>1. UNCHANGED <<told, queue[CAR]>>
    BY <1>1, <1>3, RelaySenders DEF SendAccepted, RelayInv, QueueInv, QueueTypeOK
  <2> QED
    BY <1>1, <1>3, <2>1 DEF netRelayVars, CarSlot
<1>4. CASE ~busy_radio /\ SendRefused(DATA) /\ busy_radio' = TRUE
  <2>1. UNCHANGED CarSlot
    BY <1>4 DEF SendRefused, SendBusy, SendFails, queueVars, CarSlot
  <2>2. Net!DataSendRefused(R)
    BY <1>1, <1>4, <2>1 DEF Net!DataSendRefused, Net!pcVars, Net!radioVars, Net!carVars
  <2> QED
    BY <2>2 DEF NetworkRelay
<1> QED
  BY <1>2, <1>3, <1>4 DEF DataReceive

\* A report of a command frame is its transmission, one of a data frame is not seen.
LEMMA ReportInNetwork ==
  ASSUME RelayInv, QueueRuns
  PROVE  (NetworkRelay \/ UNCHANGED netRelayVars) /\ ToldIsFree'
<1>1. /\ told = N /\ current < N /\ queue[current] # NoMsg /\ SendDone(current)
      /\ UNCHANGED relayVars
  BY ReportIsForCurrent DEF QueueRuns, RelayInv
<1>2. /\ current \in Senders /\ queue \in [Senders -> Buffers \cup {NoMsg}]
      /\ N # CAR /\ CAR \in Senders
  BY <1>1, QueueAssumption, RelayAssumption, RelaySenders
  DEF RelayInv, QueueInv, QueueTypeOK, Senders, CAR
<1>3. /\ told' = current /\ queue'[current] = NoMsg
      /\ current # CAR => queue'[CAR] = queue[CAR]
  BY <1>1, <1>2 DEF SendDone
<1>4. CASE current # CAR
  BY <1>1, <1>2, <1>3, <1>4 DEF netRelayVars, relayVars, CarSlot, ToldIsFree
<1>5. CASE current = CAR
  <2>1. CarSlot = "queued" /\ CarSlot' = "sent" /\ ToldIsFree'
    BY <1>1, <1>2, <1>3, <1>5 DEF CarSlot, ToldIsFree
  <2>2. Sends
    BY <1>1, <2>1 DEF Sends, relayVars
  <2> QED
    BY <2>1, <2>2 DEF NetworkRelay
<1> QED
  BY <1>4, <1>5

\* A callback frees the slot and clears busy_radio.
LEMMA CallbackInNetwork ==
  ASSUME RelayInv, ToldIsFree, RelaySendDone
  PROVE  NetworkRelay \/ UNCHANGED netRelayVars
<1>1. /\ told # N /\ told' = N /\ busy_radio' = FALSE /\ N # CAR
      /\ UNCHANGED <<queue, pktID, packetSeq>> /\ busy_radio \in BOOLEAN
  BY RelayAssumption DEF RelaySendDone, HandlerReturns, RelayInv, TypeOK, CAR
<1>2. CASE told = CAR
  <2>1. CarSlot = "sent" /\ CarSlot' = "free"
    BY <1>1, <1>2 DEF CarSlot, ToldIsFree
  <2>2. Net!SendDone(R)
    BY <1>1, <2>1 DEF Net!SendDone, Net!pcVars, Net!carVars, R
  <2> QED
    BY <2>2 DEF NetworkRelay
<1>3. CASE told # CAR
  <2>1. UNCHANGED CarSlot
    BY <1>1, <1>3 DEF CarSlot
  <2>2. CASE busy_radio
    <3>1. Net!DataSendDone(R)
      BY <1>1, <2>1, <2>2 DEF Net!DataSendDone, Net!pcVars, Net!radioVars, Net!carVars
    <3> QED
      BY <3>1 DEF NetworkRelay
  <2>3. CASE ~busy_radio
    BY <1>1, <2>1, <2>3 DEF netRelayVars
  <2> QED
    BY <2>2, <2>3
<1> QED
  BY <1>2, <1>3

\* What the relay on its queue of two senders knows (pktID, busy_radio, the
\* number in its packet, whether the slot is full) changes only as in the
\* relays of CommandNetwork, with one slot and data traffic reduced to
\* busy_radio.  When the radio copies the packet is not part of this projection.
THEOREM RelayFitsNetwork == ~RadioFails => (Spec => [][NetworkRelay]_netRelayVars)
<1> SUFFICES ASSUME ~RadioFails PROVE Spec => [][NetworkRelay]_netRelayVars
  OBVIOUS
<1>1. Init => ToldIsFree
  BY RelaySenders DEF Init, QueueInit, ToldIsFree
<1>2. RelayInv /\ ToldIsFree /\ [Next]_vars => ToldIsFree' /\ [NetworkRelay]_netRelayVars
  <2> SUFFICES ASSUME RelayInv, ToldIsFree, [Next]_vars
               PROVE  ToldIsFree' /\ [NetworkRelay]_netRelayVars
    OBVIOUS
  <2>1. CASE (\E err \in {"SUCCESS", "FAIL"} : StartDone(err)) \/ UNCHANGED vars
    BY <2>1 DEF StartDone, vars, relayVars, queueVars, netRelayVars, CarSlot, ToldIsFree
  <2>2. CASE Hears
    <3>1. told = N /\ N # CAR
      BY <2>2, RelayAssumption DEF Hears, Receive, DataReceive, Receives, CAR
    <3>2. told' = told
      BY <2>2, HeardUsesQueue DEF SendAccepted, queueVars
    <3>3. ToldIsFree'
      BY <3>1, <3>2 DEF ToldIsFree
    <3> QED
      BY <2>2, <3>3, ReceiveInNetwork, DataInNetwork DEF Hears
  <2>3. CASE RelaySendDone
    <3>1. ToldIsFree'
      BY <2>3, RelayAssumption DEF RelaySendDone, HandlerReturns, ToldIsFree, CAR
    <3> QED
      BY <2>3, <3>1, CallbackInNetwork
  <2>4. CASE QueueRuns
    BY <2>4, ReportInNetwork
  <2> QED
    BY <2>1, <2>2, <2>3, <2>4 DEF Next
<1> QED
  BY <1>1, <1>2, RelayInvariant, PTL DEF Spec
=============================================================================
