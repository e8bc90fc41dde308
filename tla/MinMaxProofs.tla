---------------------------- MODULE MinMaxProofs -----------------------------
(***************************************************************************)
(* Min/max for any network, any numbers and any loss of frames: nobody     *)
(* invents a number, and the busy flag does not outlive the pending send.  *)
(* For a well-timed flood of a network it can reach: the root knows and    *)
(* prints the true extremes.                                               *)
(***************************************************************************)
EXTENDS MinMax, TLAPS

USE DEF Nums

\* What sendStatus leaves behind is well typed.
LEMMA SendStatusType ==
  ASSUME TypeOK, NEW n \in Nodes, NEW st \in Status, NEW p \in Status, NEW timer \in BOOLEAN,
         SendStatus(n, st, p, timer)
  PROVE  /\ packet' \in [Nodes -> Status]
         /\ busy_radio' \in [Nodes -> BOOLEAN]
         /\ slot' \in [Nodes -> {"free", "queued", "sent"}]
         /\ resendTimer' \in [Nodes -> BOOLEAN]
<1>1. /\ packet' = [packet EXCEPT ![n] = p] \/ packet' = [packet EXCEPT ![n] = st]
      /\ \/ resendTimer' = [resendTimer EXCEPT ![n] = timer]
         \/ resendTimer' = [resendTimer EXCEPT ![n] = TRUE]
      /\ busy_radio' = busy_radio \/ busy_radio' = [busy_radio EXCEPT ![n] = TRUE]
      /\ slot' = slot \/ slot' = [slot EXCEPT ![n] = "queued"]
  BY Zenon DEF SendStatus
<1>2. packet' \in [Nodes -> Status]
  BY <1>1 DEF TypeOK
<1>3. busy_radio' \in [Nodes -> BOOLEAN]
  BY <1>1 DEF TypeOK
<1>4. slot' \in [Nodes -> {"free", "queued", "sent"}]
  BY <1>1 DEF TypeOK
<1>5. resendTimer' \in [Nodes -> BOOLEAN]
  BY <1>1 DEF TypeOK
<1> QED
  BY <1>2, <1>3, <1>4, <1>5

\* Only node n's packet is written, with p or, when n may send, with st.
LEMMA SendStatusPacket ==
  ASSUME TypeOK, NEW n \in Nodes, NEW st, NEW p, NEW timer,
         SendStatus(n, st, p, timer)
  PROVE  /\ \A m \in Nodes \ {n} : packet'[m] = packet[m] /\ slot'[m] = slot[m]
         /\ \/ packet'[n] = p /\ slot'[n] = slot[n]
            \/ packet'[n] = st /\ serial_received[n]
  BY DEF SendStatus, TypeOK

\* The better of two statuses, on both ends, is well typed.
LEMMA MergedType ==
  ASSUME NEW f \in Status, NEW s \in Status
  PROVE  Merged(f, s) \in Status
  BY DEF Merged, Status

\* Initially nothing has been heard and no number given.
LEMMA InitInv == Init => MinMaxInv
<1> SUFFICES ASSUME Init PROVE MinMaxInv
  OBVIOUS
<1>1. Both(0) \in Status /\ Both(1) \in Status
  BY MinMaxAssumption DEF Both, Status
<1>2. /\ radioOn \in [Nodes -> BOOLEAN] /\ serial_received \in [Nodes -> BOOLEAN]
      /\ busy_radio \in [Nodes -> BOOLEAN]
      /\ resendTimer \in [Nodes -> BOOLEAN] /\ sendTimer \in [Nodes -> BOOLEAN]
      /\ slot \in [Nodes -> {"free", "queued", "sent"}]
  BY Zenon DEF Init
<1>3. /\ status \in [Nodes -> Status] /\ packet \in [Nodes -> Status]
      /\ heard \in [Nodes -> SUBSET Status]
      /\ last_status \in Status /\ report \in Status /\ result_sent \in BOOLEAN
  BY <1>1 DEF Init
<1>4. /\ stale_count \in [Nodes -> 0 .. STALE_CAP]
      /\ status_stable_count \in 0 .. STABLE_THD /\ time_count \in 0 .. END_TIME
  BY MinMaxAssumption DEF Init
<1>5. TypeOK
  BY <1>2, <1>3, <1>4 DEF TypeOK
<1> QED
  BY <1>5 DEF Init, MinMaxInv, OnlyGivenNumbers, OwnNumberKnown, Numbered

----------------------------------------------------------------------------
\* Types.
LEMMA TypeStep ==
  ASSUME TypeOK, Next
  PROVE  TypeOK'
<1> USE DEF Status
<1>1. ASSUME NEW n \in Nodes, StartDone(n) PROVE TypeOK'
  BY <1>1 DEF StartDone, TypeOK, sendVars, rootVars
<1>2. ASSUME NEW n \in Nodes, SerialReceive(n) PROVE TypeOK'
  <2>1. Number[n] \in Nums /\ (Number[n] + 1) % NUM_MOD \in Nums
    BY MinMaxAssumption
  <2>2. Both(Number[n]) \in Status /\ Both((Number[n] + 1) % NUM_MOD) \in Status
    BY <2>1 DEF Both
  <2> QED
    BY <1>2, <2>2 DEF SerialReceive, Starts, TypeOK, sendVars
<1>3. ASSUME NEW n \in Nodes, SendTimerFired(n) PROVE TypeOK'
  <2>1. status[n] \in Status /\ packet[n] \in Status /\ resendTimer[n] \in BOOLEAN
    BY DEF TypeOK
  <2> QED
    BY <1>3, <2>1, SendStatusType DEF SendTimerFired, TypeOK, rootVars
<1>4. ASSUME NEW n \in Nodes, ResendTimerFired(n) PROVE TypeOK'
  <2>1. status[n] \in Status /\ packet[n] \in Status
    BY DEF TypeOK
  <2> QED
    BY <1>4, <2>1, SendStatusType DEF ResendTimerFired, TypeOK, rootVars
<1>5. ASSUME NEW n \in Nodes, NEW f \in heard[n], Receive(n, f) PROVE TypeOK'
  <2>1. /\ f \in Status /\ status[n] \in Status /\ resendTimer[n] \in BOOLEAN
        /\ stale_count[n] \in 0 .. STALE_CAP
    BY DEF TypeOK
  <2>2. Merged(f, status[n]) \in Status
    BY <2>1, MergedType
  <2>3. /\ packet' \in [Nodes -> Status] /\ busy_radio' \in [Nodes -> BOOLEAN]
        /\ slot' \in [Nodes -> {"free", "queued", "sent"}]
        /\ resendTimer' \in [Nodes -> BOOLEAN]
    <3>1. CASE Answers(n, f)
      BY <1>5, <2>1, <2>2, <3>1, SendStatusType DEF Receive
    <3>2. CASE ~Answers(n, f)
      <4>1. /\ packet' = [packet EXCEPT ![n] = f]
            /\ busy_radio' = busy_radio /\ slot' = slot /\ resendTimer' = resendTimer
        BY <1>5, <3>2 DEF Receive
      <4> QED
        BY <2>1, <4>1 DEF TypeOK
    <3> QED
      BY <3>1, <3>2
  <2>4. Capped(stale_count[n], STALE_CAP) \in 0 .. STALE_CAP /\ 0 \in 0 .. STALE_CAP
    BY <2>1, MinMaxAssumption DEF Capped
  <2>5. stale_count' \in [Nodes -> 0 .. STALE_CAP]
    BY <1>5, <2>1, <2>4 DEF Receive, TypeOK
  <2>6. status' \in [Nodes -> Status] /\ heard' \in [Nodes -> SUBSET Status]
    BY <1>5, <2>2 DEF Receive, TypeOK
  <2> QED
    BY <1>5, <2>3, <2>5, <2>6 DEF Receive, TypeOK, rootVars
<1>6. ASSUME NEW n \in Nodes, Transmit(n) PROVE TypeOK'
  <2>1. packet[n] \in Status
    BY DEF TypeOK
  <2>2. heard' \in [Nodes -> SUBSET Status]
    BY <1>6, <2>1 DEF Transmit, TypeOK
  <2> QED
    BY <1>6, <2>2 DEF Transmit, TypeOK, rootVars
<1>7. ASSUME NEW n \in Nodes, SendDone(n) PROVE TypeOK'
  BY <1>7 DEF SendDone, TypeOK, rootVars
<1>8. CASE MilliTimerFired
  <2>1. status[ROOT_NODE_ID] \in Status
    BY MinMaxAssumption DEF TypeOK
  <2>2. /\ Capped(time_count, END_TIME) \in 0 .. END_TIME
        /\ Capped(status_stable_count, STABLE_THD) \in 0 .. STABLE_THD
        /\ 0 \in 0 .. STABLE_THD
    BY MinMaxAssumption DEF TypeOK, Capped
  <2>3. last_status' \in Status /\ report' \in Status /\ result_sent' \in BOOLEAN
    BY <1>8, <2>1 DEF MilliTimerFired, TypeOK, Prints, Printed
  <2>4. time_count' \in 0 .. END_TIME /\ status_stable_count' \in 0 .. STABLE_THD
    BY <1>8, <2>2 DEF MilliTimerFired, TypeOK
  <2> QED
    BY <1>8, <2>3, <2>4 DEF MilliTimerFired, TypeOK, sendVars
<1> QED
  BY <1>1, <1>2, <1>3, <1>4, <1>5, <1>6, <1>7, <1>8 DEF Next, NodeStep

----------------------------------------------------------------------------
\* The numbers that are given once are never taken back.
LEMMA GenuineStays ==
  ASSUME NEW s, Genuine(s), Numbered \subseteq Numbered'
  PROVE  \E i, j \in Numbered' : s.min = Number[i] /\ s.max = Number[j]
  BY DEF Genuine

\* Merging two statuses of given numbers gives a status of given numbers.
LEMMA MergedGenuine ==
  ASSUME NEW f, NEW s, Genuine(f), Genuine(s)
  PROVE  Genuine(Merged(f, s))
  BY DEF Genuine, Merged

\* Only given numbers are sent and learnt, and no node forgets its own.
LEMMA NumbersStep ==
  ASSUME MinMaxInv, Next
  PROVE  OnlyGivenNumbers' /\ OwnNumberKnown'
<1> USE DEF MinMaxInv
<1>0. /\ TypeOK /\ OnlyGivenNumbers /\ OwnNumberKnown
  OBVIOUS
<1>1. ASSUME NEW n \in Nodes, StartDone(n) PROVE OnlyGivenNumbers' /\ OwnNumberKnown'
  BY <1>0, <1>1
  DEF StartDone, OnlyGivenNumbers, OwnNumberKnown, Numbered, Genuine, sendVars
<1>2. ASSUME NEW n \in Nodes, SerialReceive(n) PROVE OnlyGivenNumbers' /\ OwnNumberKnown'
  <2>1. /\ Numbered' = Numbered \cup {n} /\ status' = [status EXCEPT ![n] = Both(Number[n])]
        /\ heard' = heard /\ slot' = slot /\ packet' = packet
        /\ serial_received' = [serial_received EXCEPT ![n] = TRUE]
    BY <1>0, <1>2 DEF SerialReceive, Numbered, sendVars, TypeOK
  <2>2. status'[n] = Both(Number[n]) /\ \A m \in Nodes \ {n} : status'[m] = status[m]
    BY <1>0, <2>1 DEF TypeOK
  <2>3. \A m \in Nodes : m # n => serial_received'[m] = serial_received[m]
    BY <1>0, <2>1 DEF TypeOK
  <2>4. Genuine(status[n])'
    BY <2>1, <2>2 DEF Genuine, Both
  <2>5. ASSUME NEW m \in Nodes, m # n, serial_received'[m] PROVE Genuine(status[m])'
    BY <1>0, <2>1, <2>2, <2>3, <2>5, GenuineStays DEF OnlyGivenNumbers, Genuine
  <2>6. ASSUME NEW m \in Nodes, NEW f \in heard'[m] PROVE Genuine(f)'
    BY <1>0, <2>1, <2>6, GenuineStays DEF OnlyGivenNumbers, Genuine
  <2>7. ASSUME NEW m \in Nodes, slot'[m] = "queued" PROVE Genuine(packet[m])'
    BY <1>0, <2>1, <2>7, GenuineStays DEF OnlyGivenNumbers, Genuine
  <2>8. OnlyGivenNumbers'
    BY <2>4, <2>5, <2>6, <2>7 DEF OnlyGivenNumbers
  <2>9. Number[n] \in Nat
    BY MinMaxAssumption
  <2>10. ASSUME NEW m \in Numbered'
         PROVE status'[m].min <= Number[m] /\ Number[m] <= status'[m].max
    <3>1. CASE m = n
      BY <2>2, <2>9, <3>1 DEF Both
    <3>2. CASE m # n
      BY <1>0, <2>1, <2>2, <2>10, <3>2 DEF OwnNumberKnown, Numbered
    <3> QED
      BY <3>1, <3>2
  <2> QED
    BY <2>8, <2>10 DEF OwnNumberKnown
<1>3. ASSUME NEW n \in Nodes, NEW st, NEW p, NEW timer, SendStatus(n, st, p, timer),
             serial_received[n] => Genuine(st),
             slot[n] = "queued" => Genuine(p),
             serial_received' = serial_received
      PROVE  \A m \in Nodes : slot'[m] = "queued" => Genuine(packet[m])'
  <2>1. Numbered' = Numbered
    BY <1>3 DEF Numbered
  <2>2. SUFFICES ASSUME NEW m \in Nodes, slot'[m] = "queued" PROVE Genuine(packet'[m])
    BY <2>1 DEF Genuine
  <2>3. CASE m = n
    BY <1>0, <1>3, <2>2, <2>3, SendStatusPacket
  <2>4. CASE m # n
    BY <1>0, <1>3, <2>2, <2>4, SendStatusPacket DEF OnlyGivenNumbers
  <2> QED
    BY <2>3, <2>4
<1>4. ASSUME NEW n \in Nodes, SendTimerFired(n) \/ ResendTimerFired(n)
      PROVE  OnlyGivenNumbers' /\ OwnNumberKnown'
  <2>1. /\ serial_received' = serial_received /\ status' = status /\ heard' = heard
        /\ \E timer : SendStatus(n, status[n], packet[n], timer)
    BY <1>4 DEF SendTimerFired, ResendTimerFired
  <2>2. \A m \in Nodes : slot'[m] = "queued" => Genuine(packet[m])'
    BY <1>0, <1>3, <2>1 DEF OnlyGivenNumbers
  <2> QED
    BY <1>0, <2>1, <2>2 DEF OnlyGivenNumbers, OwnNumberKnown, Numbered, Genuine
<1>5. ASSUME NEW n \in Nodes, NEW f \in heard[n], Receive(n, f)
      PROVE  OnlyGivenNumbers' /\ OwnNumberKnown'
  <2>1. /\ serial_received' = serial_received
        /\ status' = [status EXCEPT ![n] = Merged(f, status[n])]
        /\ heard' = [heard EXCEPT ![n] = heard[n] \ {f}]
    BY <1>5 DEF Receive
  <2>2. Genuine(f) /\ (serial_received[n] => Genuine(status[n]))
    BY <1>0 DEF OnlyGivenNumbers
  <2>3. serial_received[n] => Genuine(Merged(f, status[n]))
    BY <2>2, MergedGenuine
  <2>4. Numbered' = Numbered
    BY <2>1 DEF Numbered
  <2>5. \A m \in Nodes : slot'[m] = "queued" => Genuine(packet[m])'
    <3>1. CASE Answers(n, f)
      BY <1>3, <1>5, <2>1, <2>2, <2>3, <3>1 DEF Receive
    <3>2. CASE ~Answers(n, f)
      <4>1. slot' = slot /\ packet' = [packet EXCEPT ![n] = f]
        BY <1>5, <3>2 DEF Receive
      <4>2. \A m \in Nodes : packet'[m] = f \/ packet'[m] = packet[m]
        BY <1>0, <4>1 DEF TypeOK
      <4> QED
        BY <1>0, <2>2, <2>4, <4>1, <4>2 DEF OnlyGivenNumbers, Genuine
    <3> QED
      BY <3>1, <3>2
  <2>6. status'[n] = Merged(f, status[n]) /\ \A m \in Nodes \ {n} : status'[m] = status[m]
    BY <1>0, <2>1 DEF TypeOK
  <2>7. \A m \in Nodes : heard'[m] \subseteq heard[m]
    BY <1>0, <2>1 DEF TypeOK
  <2>8. \A m \in Nodes : serial_received'[m] => Genuine(status'[m])
    BY <1>0, <2>1, <2>3, <2>6 DEF OnlyGivenNumbers
  <2>9. OnlyGivenNumbers'
    BY <1>0, <2>4, <2>5, <2>7, <2>8 DEF OnlyGivenNumbers, Genuine
  <2>10. f \in Status /\ status[n] \in Status /\ Number[n] \in Nat
    BY <1>0, MinMaxAssumption DEF TypeOK
  <2>11. n \in Numbered => /\ Merged(f, status[n]).min <= Number[n]
                           /\ Number[n] <= Merged(f, status[n]).max
    BY <1>0, <2>10 DEF OwnNumberKnown, Merged, Status
  <2> QED
    BY <1>0, <2>4, <2>6, <2>9, <2>11 DEF OwnNumberKnown, Numbered
<1>6. ASSUME NEW n \in Nodes, Transmit(n) PROVE OnlyGivenNumbers' /\ OwnNumberKnown'
  <2>1. /\ serial_received' = serial_received /\ status' = status /\ packet' = packet
        /\ slot[n] = "queued" /\ slot' = [slot EXCEPT ![n] = "sent"]
        /\ \A m \in Nodes : heard'[m] \subseteq heard[m] \cup {packet[n]}
    BY <1>6 DEF Transmit
  <2>2. Genuine(packet[n]) /\ Numbered' = Numbered
    BY <1>0, <2>1 DEF OnlyGivenNumbers, Numbered
  <2>3. \A m \in Nodes : slot'[m] = "queued" => slot[m] = "queued"
    BY <1>0, <2>1 DEF TypeOK
  <2>4. OwnNumberKnown'
    BY <1>0, <2>1, <2>2 DEF OwnNumberKnown
  <2> QED
    BY <1>0, <2>1, <2>2, <2>3, <2>4 DEF OnlyGivenNumbers, Genuine
<1>7. ASSUME NEW n \in Nodes, SendDone(n) PROVE OnlyGivenNumbers' /\ OwnNumberKnown'
  <2>1. /\ serial_received' = serial_received /\ status' = status /\ packet' = packet
        /\ heard' = heard /\ slot' = [slot EXCEPT ![n] = "free"]
    BY <1>7 DEF SendDone
  <2>2. \A m \in Nodes : slot'[m] = "queued" => slot[m] = "queued"
    BY <1>0, <2>1 DEF TypeOK
  <2> QED
    BY <1>0, <2>1, <2>2 DEF OnlyGivenNumbers, OwnNumberKnown, Numbered, Genuine
<1>8. CASE MilliTimerFired
  BY <1>0, <1>8
  DEF MilliTimerFired, OnlyGivenNumbers, OwnNumberKnown, Numbered, Genuine, sendVars
<1> QED
  BY <1>1, <1>2, <1>4, <1>5, <1>6, <1>7, <1>8 DEF Next, NodeStep

\* The invariant is inductive.
LEMMA StepInv == MinMaxInv /\ [Next]_vars => MinMaxInv'
<1> SUFFICES ASSUME MinMaxInv, [Next]_vars PROVE MinMaxInv'
  OBVIOUS
<1>1. CASE Next
  BY <1>1, TypeStep, NumbersStep DEF MinMaxInv
<1>2. CASE UNCHANGED vars
  BY <1>2
  DEF vars, sendVars, rootVars, MinMaxInv, TypeOK, OnlyGivenNumbers, OwnNumberKnown,
      Numbered, Genuine
<1> QED
  BY <1>1, <1>2

\* MinMaxInv, for every network: types, nobody invents a number although
\* Receive.receive overwrites the pending packet, nobody forgets its own.
THEOREM MinMaxInvariant == Spec => []MinMaxInv
  BY InitInv, StepInv, PTL DEF Spec

\* In particular frames and numbered nodes hold only numbers that were given.
THEOREM NobodyInventsNumbers == Spec => []OnlyGivenNumbers
<1>1. MinMaxInv => OnlyGivenNumbers
  BY DEF MinMaxInv
<1> QED
  BY <1>1, MinMaxInvariant, PTL

----------------------------------------------------------------------------
\* A number comes when the radio is on already.
NumberedAreOn == \A n \in Nodes : serial_received[n] => radioOn[n]

BusyInv == TypeOK /\ NumberedAreOn /\ BusyMeansPending

\* A refused send with the radio on means that the slot is taken.
LEMMA SendStatusBusy ==
  ASSUME BusyInv, NEW n \in Nodes, NEW st, NEW p, NEW timer, SendStatus(n, st, p, timer)
  PROVE  BusyMeansPending'
  BY DEF SendStatus, BusyInv, TypeOK, NumberedAreOn, BusyMeansPending

\* busy_radio is set and cleared together with the pending send.
LEMMA BusyStep == RADIO_FIRST /\ BusyInv /\ [Next]_vars => BusyInv'
<1> SUFFICES ASSUME RADIO_FIRST, BusyInv, [Next]_vars PROVE BusyInv'
  OBVIOUS
<1>0. TypeOK /\ NumberedAreOn /\ BusyMeansPending
  BY DEF BusyInv
<1>1. CASE UNCHANGED vars
  BY <1>0, <1>1
  DEF vars, sendVars, rootVars, BusyInv, TypeOK, NumberedAreOn, BusyMeansPending
<1>2. CASE Next
  <2>1. TypeOK'
    BY <1>0, <1>2, TypeStep
  <2>2. NumberedAreOn'
    <3>1. ASSUME NEW n \in Nodes, StartDone(n) PROVE NumberedAreOn'
      BY <1>0, <3>1 DEF StartDone, NumberedAreOn, TypeOK
    <3>2. ASSUME NEW n \in Nodes, SerialReceive(n) PROVE NumberedAreOn'
      BY <1>0, <3>2 DEF SerialReceive, NumberedAreOn, TypeOK
    <3>3. CASE UNCHANGED <<radioOn, serial_received>>
      BY <1>0, <3>3 DEF NumberedAreOn
    <3> QED
      BY <1>2, <3>1, <3>2, <3>3
      DEF Next, NodeStep, SendTimerFired, ResendTimerFired, Receive, Transmit, SendDone,
          MilliTimerFired
  <2>3. ASSUME NEW n \in Nodes, SendTimerFired(n) \/ ResendTimerFired(n)
        PROVE  BusyMeansPending'
    BY <2>3, SendStatusBusy DEF SendTimerFired, ResendTimerFired
  <2>4. ASSUME NEW n \in Nodes, NEW f \in heard[n], Receive(n, f) PROVE BusyMeansPending'
    <3>1. CASE Answers(n, f)
      BY <2>4, <3>1, SendStatusBusy DEF Receive
    <3>2. CASE ~Answers(n, f)
      BY <1>0, <2>4, <3>2 DEF Receive, BusyMeansPending
    <3> QED
      BY <3>1, <3>2
  <2>5. ASSUME NEW n \in Nodes, Transmit(n) \/ SendDone(n) PROVE BusyMeansPending'
    BY <1>0, <2>5 DEF Transmit, SendDone, BusyMeansPending, TypeOK
  <2>6. ASSUME NEW n \in Nodes, StartDone(n) \/ SerialReceive(n) PROVE BusyMeansPending'
    BY <1>0, <2>6 DEF StartDone, SerialReceive, BusyMeansPending, sendVars
  <2>7. ASSUME MilliTimerFired PROVE BusyMeansPending'
    <3>1. busy_radio' = busy_radio /\ slot' = slot
      BY <2>7 DEF MilliTimerFired, sendVars
    <3> QED
      BY <1>0, <3>1 DEF BusyMeansPending
  <2>8. BusyMeansPending'
    <3>1. ASSUME NEW n \in Nodes, NodeStep(n) PROVE BusyMeansPending'
      BY <2>3, <2>4, <2>5, <2>6, <3>1 DEF NodeStep
    <3> QED
      BY <1>2, <2>7, <3>1 DEF Next
  <2> QED
    BY <2>1, <2>2, <2>8 DEF BusyInv
<1> QED
  BY <1>1, <1>2

\* BusyMeansPending, for nodes that get their number with the radio on: the
\* inverted test of send never blocks a node for good.
THEOREM BusyOnlyWhilePending == RADIO_FIRST => (Spec => []BusyMeansPending)
<1>1. Init => BusyInv
  BY InitInv DEF Init, MinMaxInv, BusyInv, NumberedAreOn, BusyMeansPending
<1>2. BusyInv => BusyMeansPending
  BY DEF BusyInv
<1>3. ASSUME RADIO_FIRST PROVE Spec => []BusyMeansPending
  <2>1. BusyInv /\ [Next]_vars => BusyInv'
    BY <1>3, BusyStep
  <2> QED
    BY <1>1, <1>2, <2>1, PTL DEF Spec
<1> QED
  BY <1>3
----------------------------------------------------------------------------
\* The number lies between the ends of the status.
Holds(s, x) == s.min <= x /\ x <= s.max

\* Whoever knows the first status knows all that the second one tells.
Covers(s, t) == s.min <= t.min /\ t.max <= s.max

\* The status holds a number that starts a flood.
Started(s) == \E q \in Nodes : Starts(q) /\ Holds(s, Number[q])

\* The flood has not come to the node.
Untouched(n) == status[n] = Both(Number[n]) /\ ~Starts(n)

\* The node is going to send its status.
Pending(n) == sendTimer[n] \/ resendTimer[n] \/ slot[n] = "queued"

\* Everybody who can hear the node has, or is about to handle, what it knows.
Told(n) == \A m \in Nodes :
             <<n, m>> \in Link => \/ Covers(status[m], status[n])
                                  \/ \E f \in heard[m] : Covers(f, status[n])

\* The starters wait while a number is missing, and nobody else does anything.
BeforeFlood ==
  Numbered # Nodes =>
    \A n \in Nodes : /\ slot[n] = "free" /\ heard[n] = {} /\ ~resendTimer[n]
                     /\ serial_received[n] => /\ status[n] = Both(Number[n])
                                              /\ Starts(n) => sendTimer[n]

\* Whoever sends has been reached by the flood, and only numbers of the flood
\* are sent ...
OnlyReachedSend ==
  \A n \in Nodes : /\ sendTimer[n] => serial_received[n] /\ Starts(n)
                   /\ resendTimer[n] \/ slot[n] # "free" =>
                        Started(status[n]) /\ n # ROOT_NODE_ID
                   /\ slot[n] = "queued" => packet[n] = status[n]
                   /\ \A f \in heard[n] : Started(f)

\* ... and what a node but the root knows has been told or will be.
ReachedTell ==
  \A n \in Nodes :
    serial_received[n] =>
      /\ Untouched(n) \/ Started(status[n])
      /\ n # ROOT_NODE_ID => Untouched(n) \/ Pending(n) \/ Told(n)

\* The inductive invariant of the flood.
FloodInv == MinMaxInv /\ BusyInv /\ BeforeFlood /\ OnlyReachedSend /\ ReachedTell

\* A node whose status holds a number of the flood has been reached by it.
LEMMA StartedIsTouched ==
  ASSUME NEW n \in Nodes, Started(status[n])
  PROVE  ~Untouched(n)
<1> SUFFICES ASSUME Untouched(n) PROVE FALSE
  OBVIOUS
<1>1. PICK q \in Nodes : Starts(q) /\ Holds(status[n], Number[q])
  BY DEF Started
<1>2. Number[q] = Number[n]
  BY <1>1, MinMaxAssumption DEF Untouched, Both, Holds
<1> QED
  BY <1>1, <1>2 DEF Untouched, Starts

\* A starter's own number is a number of the flood.
LEMMA StarterIsStarted ==
  ASSUME OwnNumberKnown, NEW n \in Numbered, Starts(n)
  PROVE  Started(status[n])
<1>1. n \in Nodes /\ Holds(status[n], Number[n])
  BY DEF OwnNumberKnown, Holds, Numbered
<1> QED
  BY <1>1 DEF Started

\* Covering is reflexive and transitive, and keeps the numbers of the flood.
LEMMA CoversFacts ==
  ASSUME NEW a \in Status, NEW b \in Status, NEW c \in Status, Covers(a, b)
  PROVE  /\ Covers(a, a)
         /\ Covers(b, c) => Covers(a, c)
         /\ Started(b) => Started(a)
<1>1. Covers(a, a) /\ (Covers(b, c) => Covers(a, c))
  BY DEF Covers, Status
<1>2. ASSUME NEW q \in Nodes, Holds(b, Number[q]) PROVE Holds(a, Number[q])
  BY <1>2, MinMaxAssumption DEF Holds, Covers, Status
<1> QED
  BY <1>1, <1>2 DEF Started

\* Merging covers both, and changes nothing when the frame is no better.
LEMMA MergedCovers ==
  ASSUME NEW f \in Status, NEW s \in Status
  PROVE  /\ Covers(Merged(f, s), f) /\ Covers(Merged(f, s), s)
         /\ ~Better(f, s) => Merged(f, s) = s
  BY DEF Merged, Covers, Better, Status

\* What a node tells stays told while the others only learn more.
LEMMA ToldStays ==
  ASSUME TypeOK, TypeOK', NEW n \in Nodes, Told(n), status'[n] = status[n],
         \A m \in Nodes : Covers(status'[m], status[m]),
         \A m \in Nodes : \A f \in heard[m] : f \in heard'[m] \/ Covers(status'[m], f)
  PROVE  Told(n)'
<1> SUFFICES ASSUME NEW m \in Nodes, <<n, m>> \in Link
             PROVE  \/ Covers(status'[m], status[n])
                    \/ \E f \in heard'[m] : Covers(f, status[n])
  BY DEF Told
<1>1. status[n] \in Status /\ status[m] \in Status /\ status'[m] \in Status
  BY DEF TypeOK
<1>2. CASE Covers(status[m], status[n])
  BY <1>1, <1>2, CoversFacts
<1>3. CASE \E f \in heard[m] : Covers(f, status[n])
  <2>1. PICK f \in heard[m] : Covers(f, status[n])
    BY <1>3
  <2>2. f \in Status
    BY DEF TypeOK
  <2> QED
    BY <1>1, <2>1, <2>2, CoversFacts
<1> QED
  BY <1>2, <1>3 DEF Told

\* A handler of the flood finds the send of its node finished, so sendStatus
\* does what it was written for.
LEMMA CalmSend ==
  ASSUME WELL_TIMED, FloodInv, NEW n \in Nodes, NEW st, NEW p, NEW timer,
         Calm(n), SendStatus(n, st, p, timer)
  PROVE  /\ Numbered = Nodes
         /\ resendTimer' = [resendTimer EXCEPT ![n] = timer]
         /\ n = ROOT_NODE_ID => slot' = slot
         /\ n # ROOT_NODE_ID => /\ slot' = [slot EXCEPT ![n] = "queued"]
                                /\ packet' = [packet EXCEPT ![n] = st]
<1>1. slot[n] = "free" /\ Numbered = Nodes
  BY DEF Calm
<1>2. serial_received[n]
  BY <1>1 DEF Numbered
<1>3. radioOn[n] /\ ~busy_radio[n]
  BY <1>1, <1>2 DEF FloodInv, BusyInv, NumberedAreOn, BusyMeansPending
<1> QED
  BY <1>1, <1>2, <1>3 DEF SendStatus

\* The invariant of the flood but for what is proved of it before.
FloodParts == BeforeFlood /\ OnlyReachedSend /\ ReachedTell

\* Before the flood a number comes to a node.
LEMMA FloodNumber ==
  ASSUME WELL_TIMED, FloodInv, MinMaxInv', NEW n \in Nodes, SerialReceive(n)
  PROVE  FloodParts'
<1>0. TypeOK /\ OnlyReachedSend
  BY DEF FloodInv, MinMaxInv
<1>1. n \in Nodes \ Numbered /\ Numbered # Nodes
  BY DEF SerialReceive, Numbered
<1>2. \A m \in Nodes : /\ slot[m] = "free" /\ heard[m] = {} /\ ~resendTimer[m]
                       /\ serial_received[m] => /\ status[m] = Both(Number[m])
                                                /\ Starts(m) => sendTimer[m]
  BY <1>1 DEF FloodInv, BeforeFlood
<1>3. /\ status' = [status EXCEPT ![n] = Both(Number[n])]
      /\ serial_received' = [serial_received EXCEPT ![n] = TRUE]
      /\ sendTimer' = [sendTimer EXCEPT ![n] = Starts(n)]
      /\ slot' = slot /\ heard' = heard /\ resendTimer' = resendTimer
  BY DEF SerialReceive, sendVars
<1>4. \A m \in Nodes : /\ slot'[m] = "free" /\ heard'[m] = {} /\ ~resendTimer'[m]
                       /\ serial_received'[m] => /\ status'[m] = Both(Number[m])
                                                 /\ Starts(m) => sendTimer'[m]
  BY <1>0, <1>2, <1>3 DEF TypeOK
<1>5. \A m \in Nodes : sendTimer'[m] => serial_received'[m] /\ Starts(m)
  BY <1>0, <1>3 DEF TypeOK, OnlyReachedSend
<1>6. ASSUME NEW m \in Nodes, serial_received'[m], Starts(m) PROVE Started(status[m])'
  <2>1. m \in Numbered' /\ OwnNumberKnown'
    BY <1>6 DEF Numbered, MinMaxInv
  <2>2. Holds(status'[m], Number[m])
    BY <2>1 DEF OwnNumberKnown, Holds
  <2> QED
    BY <1>6, <2>2 DEF Started, Holds
<1>7. BeforeFlood' /\ OnlyReachedSend'
  BY <1>4, <1>5 DEF BeforeFlood, OnlyReachedSend
<1>8. ReachedTell'
  BY <1>4, <1>6 DEF ReachedTell, Untouched, Pending
<1> QED
  BY <1>7, <1>8 DEF FloodParts

\* A timer starts a send of what the node knows.
LEMMA FloodTimer ==
  ASSUME WELL_TIMED, FloodInv, NEW n \in Nodes, SendTimerFired(n) \/ ResendTimerFired(n)
  PROVE  FloodParts'
<1>0. TypeOK /\ OnlyReachedSend /\ ReachedTell /\ OwnNumberKnown
  BY DEF FloodInv, MinMaxInv
<1>1. PICK timer \in BOOLEAN : /\ SendStatus(n, status[n], packet[n], timer) /\ Calm(n)
                               /\ timer => resendTimer[n]
  BY <1>0 DEF SendTimerFired, ResendTimerFired, TypeOK
<1>2. /\ Numbered = Nodes
      /\ resendTimer' = [resendTimer EXCEPT ![n] = timer]
      /\ n = ROOT_NODE_ID => slot' = slot
      /\ n # ROOT_NODE_ID => /\ slot' = [slot EXCEPT ![n] = "queued"]
                             /\ packet' = [packet EXCEPT ![n] = status[n]]
  BY <1>1, CalmSend
<1>3. /\ status' = status /\ heard' = heard /\ serial_received' = serial_received
      /\ \A m \in Nodes : sendTimer'[m] => sendTimer[m]
      /\ \A m \in Nodes \ {n} : sendTimer'[m] = sendTimer[m]
      /\ n # ROOT_NODE_ID => Started(status[n])
  <2>1. CASE SendTimerFired(n)
    BY <1>0, <2>1, StarterIsStarted
    DEF SendTimerFired, TypeOK, OnlyReachedSend, Numbered
  <2>2. CASE ResendTimerFired(n)
    BY <1>0, <2>2 DEF ResendTimerFired, OnlyReachedSend
  <2> QED
    BY <2>1, <2>2
<1>4. BeforeFlood'
  BY <1>2, <1>3 DEF BeforeFlood, Numbered
<1>5. \A m \in Nodes \ {n} : /\ slot'[m] = slot[m] /\ resendTimer'[m] = resendTimer[m]
                             /\ slot'[m] = "queued" => packet'[m] = packet[m]
  BY <1>0, <1>1, <1>2, SendStatusPacket DEF TypeOK
<1>6. /\ n = ROOT_NODE_ID => slot'[n] = slot[n]
      /\ n # ROOT_NODE_ID => slot'[n] = "queued" /\ packet'[n] = status[n]
  BY <1>0, <1>2 DEF TypeOK
<1>7. OnlyReachedSend'
  <2>1. SUFFICES ASSUME NEW m \in Nodes
                 PROVE  /\ sendTimer'[m] => serial_received'[m] /\ Starts(m)
                        /\ resendTimer'[m] \/ slot'[m] # "free" =>
                             Started(status'[m]) /\ m # ROOT_NODE_ID
                        /\ slot'[m] = "queued" => packet'[m] = status'[m]
                        /\ \A f \in heard'[m] : Started(f)
    BY DEF OnlyReachedSend, Started, Holds
  <2>2. CASE m # n
    BY <1>0, <1>3, <1>5, <2>2 DEF OnlyReachedSend
  <2>3. CASE m = n /\ n # ROOT_NODE_ID
    BY <1>0, <1>3, <1>6, <2>3 DEF OnlyReachedSend
  <2>4. CASE m = n /\ n = ROOT_NODE_ID
    <3>1. slot[n] = "free" /\ ~resendTimer[n] /\ resendTimer'[n] = timer
      BY <1>0, <1>2, <2>4 DEF OnlyReachedSend, TypeOK
    <3> QED
      BY <1>0, <1>1, <1>3, <1>6, <2>4, <3>1 DEF OnlyReachedSend
  <2> QED
    BY <2>2, <2>3, <2>4
<1>8. ReachedTell'
  <2>1. SUFFICES ASSUME NEW m \in Nodes, serial_received[m]
                 PROVE  /\ Untouched(m)' \/ Started(status'[m])
                        /\ m # ROOT_NODE_ID => Untouched(m)' \/ Pending(m)' \/ Told(m)'
    BY <1>3 DEF ReachedTell, Started, Holds
  <2>2. (Untouched(m)' <=> Untouched(m)) /\ (Told(m)' <=> Told(m))
    BY <1>3 DEF Untouched, Told
  <2>3. m # ROOT_NODE_ID /\ Pending(m) => Pending(m)'
    BY <1>3, <1>5, <1>6 DEF Pending
  <2> QED
    BY <1>0, <1>3, <2>1, <2>2, <2>3 DEF ReachedTell
<1> QED
  BY <1>4, <1>7, <1>8 DEF FloodParts

\* A node handles a frame of the flood, and sends on what it learns.
LEMMA FloodReceive ==
  ASSUME WELL_TIMED, FloodInv, MinMaxInv', NEW n \in Nodes, NEW f \in heard[n], Receive(n, f)
  PROVE  FloodParts'
<1> DEFINE s == Merged(f, status[n])
<1>0. TypeOK /\ TypeOK' /\ OnlyReachedSend /\ ReachedTell
  BY DEF FloodInv, MinMaxInv
<1>1. f \in Status /\ status[n] \in Status /\ s \in Status
  BY <1>0, MergedType DEF TypeOK
<1>2. /\ status' = [status EXCEPT ![n] = s]
      /\ heard' = [heard EXCEPT ![n] = heard[n] \ {f}]
      /\ serial_received' = serial_received /\ sendTimer' = sendTimer
      /\ Numbered = Nodes /\ slot[n] = "free" /\ Calm(n)
  BY DEF Receive, Calm
<1>3. Covers(s, f) /\ Covers(s, status[n]) /\ (~Better(f, status[n]) => s = status[n])
  BY <1>1, MergedCovers
<1>4. Started(f) /\ Started(s)
  BY <1>0, <1>1, <1>3, CoversFacts DEF OnlyReachedSend
<1>5. /\ status'[n] = s /\ \A m \in Nodes \ {n} : status'[m] = status[m]
      /\ heard'[n] = heard[n] \ {f} /\ \A m \in Nodes \ {n} : heard'[m] = heard[m]
  BY <1>0, <1>2 DEF TypeOK
<1>6. /\ \A m \in Nodes : resendTimer'[m] = resendTimer[m]
      /\ \A m \in Nodes \ {n} : /\ slot'[m] = slot[m]
                                /\ slot'[m] = "queued" => packet'[m] = packet[m]
      /\ \/ slot'[n] = "free" /\ (n = ROOT_NODE_ID \/ s = status[n])
         \/ n # ROOT_NODE_ID /\ slot'[n] = "queued" /\ packet'[n] = s
  <2>1. CASE Answers(n, f)
    <3>1. SendStatus(n, s, f, resendTimer[n])
      BY <2>1 DEF Receive
    <3>2. /\ resendTimer' = [resendTimer EXCEPT ![n] = resendTimer[n]]
          /\ n = ROOT_NODE_ID => slot' = slot
          /\ n # ROOT_NODE_ID => /\ slot' = [slot EXCEPT ![n] = "queued"]
                                 /\ packet' = [packet EXCEPT ![n] = s]
      BY <1>2, <3>1, CalmSend
    <3>3. \A m \in Nodes \ {n} : packet'[m] = packet[m] /\ slot'[m] = slot[m]
      BY <1>0, <3>1, SendStatusPacket
    <3> QED
      BY <1>0, <1>2, <3>2, <3>3 DEF TypeOK
  <2>2. CASE ~Answers(n, f)
    <3>1. /\ packet' = [packet EXCEPT ![n] = f] /\ slot' = slot /\ resendTimer' = resendTimer
          /\ ~Better(f, status[n])
      BY <2>2 DEF Receive, Answers
    <3> QED
      BY <1>0, <1>2, <1>3, <3>1 DEF TypeOK
  <2> QED
    BY <2>1, <2>2
<1>7. BeforeFlood'
  BY <1>2 DEF BeforeFlood, Numbered
<1>8. OnlyReachedSend'
  <2>1. SUFFICES ASSUME NEW m \in Nodes
                 PROVE  /\ sendTimer'[m] => serial_received'[m] /\ Starts(m)
                        /\ resendTimer'[m] \/ slot'[m] # "free" =>
                             Started(status'[m]) /\ m # ROOT_NODE_ID
                        /\ slot'[m] = "queued" => packet'[m] = status'[m]
                        /\ \A g \in heard'[m] : Started(g)
    BY DEF OnlyReachedSend, Started, Holds
  <2>2. CASE m # n
    BY <1>0, <1>2, <1>5, <1>6, <2>2 DEF OnlyReachedSend
  <2>3. CASE m = n
    BY <1>0, <1>2, <1>4, <1>5, <1>6, <2>3 DEF OnlyReachedSend
  <2> QED
    BY <2>2, <2>3
<1>9. ReachedTell'
  <2>1. SUFFICES ASSUME NEW m \in Nodes
                 PROVE  /\ Untouched(m)' \/ Started(status'[m])
                        /\ m # ROOT_NODE_ID => Untouched(m)' \/ Pending(m)' \/ Told(m)'
    BY DEF ReachedTell, Started, Holds
  <2>2. \A k \in Nodes : Covers(status'[k], status[k])
    <3>1. \A k \in Nodes : status[k] \in Status /\ Covers(status[k], status[k])
      BY <1>0 DEF TypeOK, Covers, Status
    <3> QED
      BY <1>3, <1>5, <3>1
  <2>3. \A k \in Nodes : \A g \in heard[k] : g \in heard'[k] \/ Covers(status'[k], g)
    BY <1>3, <1>5
  <2>4. Told(m) /\ status'[m] = status[m] => Told(m)'
    BY <1>0, <2>2, <2>3, ToldStays
  <2>5. serial_received[m]
    BY <1>2 DEF Numbered
  <2>6. CASE m # n
    <3>1. Untouched(m)' <=> Untouched(m)
      BY <1>5, <2>6 DEF Untouched
    <3>2. Pending(m)' <=> Pending(m)
      BY <1>2, <1>6, <2>6 DEF Pending
    <3> QED
      BY <1>0, <1>5, <2>4, <2>5, <2>6, <3>1, <3>2 DEF ReachedTell
  <2>7. CASE m = n
    <3>1. CASE slot'[n] = "queued"
      BY <1>4, <1>5, <2>7, <3>1 DEF Pending
    <3>2. CASE slot'[n] = "free" /\ n # ROOT_NODE_ID
      <4>1. s = status[n] /\ status'[n] = status[n]
        BY <1>5, <1>6, <3>2
      <4>2. ~Untouched(n)
        BY <1>4, <4>1, StartedIsTouched
      <4>3. Pending(n) => Pending(n)'
        BY <1>2, <1>6 DEF Pending
      <4> QED
        BY <1>0, <1>4, <1>5, <2>4, <2>5, <2>7, <4>1, <4>2, <4>3 DEF ReachedTell
    <3>3. CASE n = ROOT_NODE_ID
      BY <1>4, <1>5, <2>7, <3>3
    <3> QED
      BY <1>6, <3>1, <3>2, <3>3
  <2> QED
    BY <2>6, <2>7
<1> QED
  BY <1>7, <1>8, <1>9 DEF FloodParts

\* Every node that can hear it is told what the node knows.
LEMMA FloodTransmit ==
  ASSUME WELL_TIMED, FloodInv, MinMaxInv', NEW n \in Nodes, Transmit(n)
  PROVE  FloodParts'
<1>0. TypeOK /\ TypeOK' /\ OnlyReachedSend /\ ReachedTell
  BY DEF FloodInv, MinMaxInv
<1>1. /\ slot[n] = "queued" /\ slot' = [slot EXCEPT ![n] = "sent"]
      /\ serial_received' = serial_received /\ sendTimer' = sendTimer /\ status' = status
      /\ packet' = packet /\ resendTimer' = resendTimer
      /\ heard' = [m \in Nodes |->
                     heard[m] \cup IF m \in Hearers(n) THEN {packet[n]} ELSE {}]
  BY DEF Transmit
<1>2. Numbered = Nodes
  BY <1>1 DEF FloodInv, BeforeFlood
<1>3. packet[n] = status[n] /\ Started(status[n]) /\ n # ROOT_NODE_ID
  BY <1>0, <1>1 DEF OnlyReachedSend
<1>4. \A m \in Nodes : /\ heard[m] \subseteq heard'[m]
                       /\ heard'[m] \subseteq heard[m] \cup {status[n]}
                       /\ <<n, m>> \in Link => status[n] \in heard'[m]
  BY <1>1, <1>2, <1>3 DEF Hearers, Numbered, FloodInv, BusyInv, NumberedAreOn
<1>5. \A m \in Nodes : /\ slot'[m] # "free" => slot[m] # "free"
                       /\ slot'[m] = "queued" => slot[m] = "queued"
                       /\ m # n /\ slot[m] = "queued" => slot'[m] = "queued"
  BY <1>0, <1>1 DEF TypeOK
<1>6. BeforeFlood'
  BY <1>1, <1>2 DEF BeforeFlood, Numbered
<1>7. OnlyReachedSend'
  BY <1>0, <1>1, <1>3, <1>4, <1>5 DEF OnlyReachedSend, Started, Holds
<1>8. ReachedTell'
  <2>1. SUFFICES ASSUME NEW m \in Nodes
                 PROVE  /\ Untouched(m)' \/ Started(status'[m])
                        /\ m # ROOT_NODE_ID => Untouched(m)' \/ Pending(m)' \/ Told(m)'
    BY DEF ReachedTell, Started, Holds
  <2>2. \A k \in Nodes : status[k] \in Status /\ Covers(status'[k], status[k])
    BY <1>0, <1>1, CoversFacts DEF TypeOK, Covers, Status
  <2>3. Told(m) => Told(m)'
    BY <1>0, <1>1, <1>4, <2>2, ToldStays
  <2>4. serial_received[m] /\ (Untouched(m)' <=> Untouched(m))
    BY <1>1, <1>2 DEF Numbered, Untouched
  <2>5. CASE m # n
    BY <1>0, <1>1, <1>5, <2>3, <2>4, <2>5 DEF ReachedTell, Pending
  <2>6. CASE m = n
    <3>1. Covers(status'[n], status[n])
      BY <2>2
    <3>2. Told(n)'
      BY <1>1, <1>4, <3>1 DEF Told
    <3> QED
      BY <1>1, <1>3, <2>6, <3>2
  <2> QED
    BY <2>5, <2>6
<1> QED
  BY <1>6, <1>7, <1>8 DEF FloodParts

\* A send ends; what was not sent is sent again.
LEMMA FloodSendDone ==
  ASSUME FloodInv, NEW n \in Nodes, SendDone(n)
  PROVE  FloodParts'
<1>0. TypeOK /\ OnlyReachedSend /\ ReachedTell
  BY DEF FloodInv, MinMaxInv
<1>1. /\ slot[n] \in {"queued", "sent"} /\ slot' = [slot EXCEPT ![n] = "free"]
      /\ resendTimer' = [resendTimer EXCEPT ![n] = resendTimer[n] \/ slot[n] = "queued"]
      /\ serial_received' = serial_received /\ sendTimer' = sendTimer /\ status' = status
      /\ packet' = packet /\ heard' = heard
  BY DEF SendDone
<1>2. Numbered = Nodes
  BY <1>1 DEF FloodInv, BeforeFlood
<1>3. \A m \in Nodes : /\ slot'[m] # "free" => slot[m] # "free"
                       /\ slot'[m] = "queued" => slot[m] = "queued"
                       /\ slot[m] = "queued" => slot'[m] = "queued" \/ resendTimer'[m]
                       /\ resendTimer[m] => resendTimer'[m]
                       /\ resendTimer'[m] => resendTimer[m] \/ slot[m] # "free"
  BY <1>0, <1>1 DEF TypeOK
<1>4. BeforeFlood'
  BY <1>1, <1>2 DEF BeforeFlood, Numbered
<1>5. OnlyReachedSend'
  BY <1>0, <1>1, <1>3 DEF OnlyReachedSend, Started, Holds
<1>6. ReachedTell'
  BY <1>0, <1>1, <1>3 DEF ReachedTell, Untouched, Pending, Told, Started, Holds
<1> QED
  BY <1>4, <1>5, <1>6 DEF FloodParts

\* The invariant of the flood is inductive when the flood is well timed.
LEMMA FloodStep == WELL_TIMED /\ FloodInv /\ [Next]_vars => FloodInv'
<1> SUFFICES ASSUME WELL_TIMED, FloodInv, [Next]_vars PROVE FloodInv'
  OBVIOUS
<1>1. MinMaxInv' /\ BusyInv'
  BY MinMaxAssumption, StepInv, BusyStep DEF FloodInv
<1>2. CASE UNCHANGED <<serial_received, status, packet, slot, resendTimer, sendTimer, heard>>
  BY <1>1, <1>2
  DEF FloodInv, BeforeFlood, OnlyReachedSend, ReachedTell, Numbered, Untouched, Pending,
      Told, Started, Holds
<1>3. CASE UNCHANGED vars
  BY <1>2, <1>3 DEF vars, sendVars
<1>4. CASE MilliTimerFired
  BY <1>2, <1>4 DEF MilliTimerFired, sendVars
<1>5. ASSUME NEW n \in Nodes, NodeStep(n) PROVE FloodInv'
  <2>1. CASE StartDone(n)
    BY <1>2, <2>1 DEF StartDone, sendVars
  <2>2. CASE ~StartDone(n)
    <3>1. FloodParts'
      BY <1>1, <1>5, <2>2, FloodNumber, FloodTimer, FloodReceive, FloodTransmit, FloodSendDone
      DEF NodeStep
    <3> QED
      BY <1>1, <3>1 DEF FloodParts, FloodInv
  <2> QED
    BY <2>1, <2>2
<1> QED
  BY <1>3, <1>4, <1>5 DEF Next

\* Nobody has been given a number at the start.
LEMMA FloodInit == Init => FloodInv
<1> SUFFICES ASSUME Init PROVE FloodInv
  OBVIOUS
<1>1. MinMaxInv
  BY InitInv
<1>2. BusyInv
  BY <1>1 DEF Init, MinMaxInv, BusyInv, NumberedAreOn, BusyMeansPending
<1> QED
  BY <1>1, <1>2
  DEF Init, FloodInv, BeforeFlood, OnlyReachedSend, ReachedTell, Numbered

\* The flood over, every node has told what it knows.
LEMMA QuietAllTold ==
  ASSUME FloodReachesAll, FloodInv, Quiet
  PROVE  \A n \in Nodes \ {ROOT_NODE_ID} : \A m \in Nodes :
           <<n, m>> \in Link => Covers(status[m], status[n])
<1> DEFINE S == {n \in Nodes : Started(status[n])}
<1>0. TypeOK /\ OwnNumberKnown /\ OnlyReachedSend /\ ReachedTell /\ Numbered = Nodes
  BY DEF FloodInv, MinMaxInv, Quiet, Numbered
<1>1. ASSUME NEW n \in Nodes \ {ROOT_NODE_ID}, Started(status[n]),
             NEW m \in Nodes, <<n, m>> \in Link
      PROVE  Covers(status[m], status[n])
  <2>1. Told(n)
    BY <1>0, <1>1, StartedIsTouched DEF Quiet, ReachedTell, Pending
  <2> QED
    BY <1>1, <2>1 DEF Told, Quiet
<1>2. Closed(S)
  <2>1. ASSUME NEW e \in Link, e[1] \in S, e[1] # ROOT_NODE_ID PROVE e[2] \in S
    <3>1. e[1] \in Nodes /\ e[2] \in Nodes /\ e = <<e[1], e[2]>>
      BY MinMaxAssumption
    <3>2. status[e[1]] \in Status /\ status[e[2]] \in Status
      BY <1>0, <3>1 DEF TypeOK
    <3>3. Covers(status[e[2]], status[e[1]])
      BY <1>1, <2>1, <3>1
    <3> QED
      BY <2>1, <3>1, <3>2, <3>3, CoversFacts
  <2> QED
    BY <2>1 DEF Closed
<1>3. {n \in Nodes \ {ROOT_NODE_ID} : Starts(n)} \subseteq S
  BY <1>0, StarterIsStarted
<1>4. S = Nodes
  BY <1>2, <1>3 DEF FloodReachesAll
<1> QED
  BY <1>1, <1>4

\* What everybody has told has come to the root.
LEMMA QuietRootCovers ==
  ASSUME FloodReachesAll, FloodInv, Quiet, NEW n \in Nodes
  PROVE  Holds(status[ROOT_NODE_ID], Number[n])
<1> DEFINE S == {m \in Nodes : Holds(status[m], Number[n])}
<1>0. TypeOK /\ OwnNumberKnown /\ Numbered = Nodes
  BY DEF FloodInv, MinMaxInv, Quiet, Numbered
<1>1. n \in S
  BY <1>0 DEF OwnNumberKnown, Holds
<1>2. Closed(S)
  <2>1. ASSUME NEW e \in Link, e[1] \in S, e[1] # ROOT_NODE_ID PROVE e[2] \in S
    <3>1. e[1] \in Nodes /\ e[2] \in Nodes /\ e = <<e[1], e[2]>>
      BY MinMaxAssumption
    <3>2. status[e[1]] \in Status /\ status[e[2]] \in Status /\ Number[n] \in Nat
      BY <1>0, <3>1, MinMaxAssumption DEF TypeOK
    <3>3. Covers(status[e[2]], status[e[1]])
      BY <2>1, <3>1, QuietAllTold
    <3> QED
      BY <2>1, <3>1, <3>2, <3>3 DEF Covers, Holds, Status
  <2> QED
    BY <2>1 DEF Closed
<1> QED
  BY <1>1, <1>2 DEF FloodReachesAll

\* The flood over, the root knows exactly the extremes.
LEMMA QuietRootKnows ==
  ASSUME FloodReachesAll, FloodInv, Quiet
  PROVE  status[ROOT_NODE_ID] = Truth
<1> DEFINE s == status[ROOT_NODE_ID]
           given == {Number[n] : n \in Nodes}
           lo == CHOOSE x \in given : \A n \in Nodes : x <= Number[n]
           hi == CHOOSE x \in given : \A n \in Nodes : x >= Number[n]
<1>0. s \in Status /\ serial_received[ROOT_NODE_ID] /\ Genuine(s)
  BY MinMaxAssumption DEF FloodInv, MinMaxInv, TypeOK, OnlyGivenNumbers, Quiet
<1>1. s.min \in given /\ s.max \in given
  BY <1>0 DEF Genuine, Numbered
<1>2. \A n \in Nodes : s.min <= Number[n] /\ s.max >= Number[n]
  <2>1. ASSUME NEW n \in Nodes PROVE s.min <= Number[n] /\ s.max >= Number[n]
    <3>1. Holds(s, Number[n])
      BY QuietRootCovers
    <3> QED
      BY <1>0, <3>1, MinMaxAssumption DEF Holds, Status
  <2> QED
    BY <2>1
<1>3. given \subseteq Nat
  BY MinMaxAssumption
<1>4. lo \in given /\ \A n \in Nodes : lo <= Number[n]
  BY <1>1, <1>2
<1>5. hi \in given /\ \A n \in Nodes : hi >= Number[n]
  BY <1>1, <1>2
<1>6. lo <= s.min /\ s.min <= lo
  BY <1>1, <1>2, <1>4
<1>7. hi >= s.max /\ s.max >= hi
  BY <1>1, <1>2, <1>5
<1>8. lo \in Nat /\ hi \in Nat /\ s.min \in Nat /\ s.max \in Nat
  BY <1>1, <1>3, <1>4, <1>5
<1> HIDE DEF lo, hi
<1>9. lo = s.min /\ hi = s.max
  BY <1>6, <1>7, <1>8
<1> USE DEF lo, hi
<1> QED
  BY <1>0, <1>9 DEF Truth, Status

\* FloodInv, for every network: what a node learns it passes on or is about to.
LEMMA FloodInvariant == WELL_TIMED => (Spec => []FloodInv)
<1>1. ASSUME WELL_TIMED PROVE Spec => []FloodInv
  <2>1. FloodInv /\ [Next]_vars => FloodInv'
    BY <1>1, FloodStep
  <2> QED
    BY <2>1, FloodInit, PTL DEF Spec
<1> QED
  BY <1>1

\* RootKnows, for every network that the flood of its starters reaches and
\* every number: when it is over the root's status is the true extremes.
THEOREM RootLearnsTruth == FloodReachesAll => (Spec => []RootKnows)
<1>1. CASE WELL_TIMED
  <2>1. ASSUME FloodReachesAll PROVE Spec => []RootKnows
    <3>1. FloodInv => RootKnows
      BY <2>1, QuietRootKnows DEF RootKnows
    <3> QED
      BY <1>1, <3>1, FloodInvariant, PTL
  <2> QED
    BY <2>1
<1>2. CASE ~WELL_TIMED
  <2>1. RootKnows
    BY <1>2 DEF RootKnows
  <2> QED
    BY <2>1, PTL
<1> QED
  BY <1>1, <1>2

\* ReportIsTrue: and what it prints are they.
THEOREM RootReportsTruth == FloodReachesAll => (Spec => []ReportIsTrue)
<1>1. Init => ReportIsTrue
  BY DEF Init, ReportIsTrue
<1>2. ASSUME FloodReachesAll, WELL_TIMED, FloodInv, ReportIsTrue, [Next]_vars
      PROVE  ReportIsTrue'
  <2>1. CASE UNCHANGED <<result_sent, report>>
    BY <1>2, <2>1 DEF ReportIsTrue, Truth
  <2>2. CASE MilliTimerFired
    <3>1. CASE result_sent' /\ ~result_sent
      <4>1. TypeOK
        BY <1>2 DEF FloodInv, MinMaxInv
      <4>2. Quiet
        BY <1>2, <2>2, <3>1, <4>1, MinMaxAssumption
        DEF MilliTimerFired, Prints, Capped, TypeOK
      <4>3. report' = status[ROOT_NODE_ID]
        BY <2>2, <3>1 DEF MilliTimerFired, Printed
      <4>4. report' = Truth
        BY <1>2, <4>2, <4>3, QuietRootKnows
      <4> QED
        BY <4>4 DEF ReportIsTrue, Truth
    <3>2. CASE ~(result_sent' /\ ~result_sent)
      BY <1>2, <2>2, <3>2 DEF MilliTimerFired, ReportIsTrue, Truth
    <3> QED
      BY <3>1, <3>2
  <2>3. CASE UNCHANGED vars \/ \E n \in Nodes : NodeStep(n)
    BY <2>1, <2>3
    DEF vars, rootVars, NodeStep, StartDone, SerialReceive, SendTimerFired, ResendTimerFired,
        Receive, Transmit, SendDone
  <2> QED
    BY <1>2, <2>2, <2>3 DEF Next
<1>3. CASE WELL_TIMED
  <2>1. ASSUME FloodReachesAll PROVE Spec => []ReportIsTrue
    <3>1. FloodInv /\ ReportIsTrue /\ [Next]_vars => ReportIsTrue'
      BY <1>2, <1>3, <2>1
    <3> QED
      BY <1>1, <1>3, <3>1, FloodInvariant, PTL DEF Spec
  <2> QED
    BY <2>1
<1>4. CASE ~WELL_TIMED
  <2>1. ReportIsTrue
    BY <1>4 DEF ReportIsTrue
  <2> QED
    BY <2>1, PTL
<1> QED
  BY <1>3, <1>4
=============================================================================
