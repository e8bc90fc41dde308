---------------------------- MODULE CarAppProofs -----------------------------
(***************************************************************************)
(* Proofs about the application of the car, for any servo range and step,  *)
(* any tags, any width of the resend counter, and any number of resends    *)
(* that is larger than the ticks a send may take.                          *)
(***************************************************************************)
EXTENDS CarApp, TLAPS

\* The servo's middle lies in its range.
LEMMA MidInRange == MID_ANGLE \in ServoRange
  BY AppAssumption DEF MID_ANGLE, ServoRange

\* The application starts in its invariant.
LEMMA InitInv == Init => AppInv
<1> SUFFICES ASSUME Init PROVE AppInv
  OBVIOUS
<1> USE AppAssumption
<1>1. NoFrame \in Frame
  BY DEF Frame, NoFrame
<1>2. "SERVO" \in Ops /\ 0 \in CmdVals /\ 0 \in 0 .. MAX_SEQ /\ 0 \in 0 .. MAX_WAIT
      /\ OLD_COUNT \in 0 .. COUNT_MOD - 1
  OBVIOUS
<1>3. TypeOK
  BY <1>1, <1>2, MidInRange DEF Init, TypeOK
<1> QED
  BY <1>3, MidInRange DEF Init, AppInv, SteeringInRange, BusyMeansPending, PacketIsCurrent,
                          UnsentInTime, Unsent

\* A call hands the driver the command, or leaves the port as it is.
LEMMA CallInv ==
  ASSUME AppInv, NEW o \in Ops, NEW v \in CmdVals, Call(o, v)
  PROVE  /\ phase' \in {"ready", "working", "signalled"}
         /\ op' \in Ops /\ val' \in CmdVals
         /\ (op' = o /\ val' = v) \/ UNCHANGED <<op, val>>
  BY DEF Call, Accept, AppInv, TypeOK, portVars

\* Starting keeps the invariant.
LEMMA StartInv ==
  ASSUME AppInv, Booted \/ StartDone("SUCCESS") \/ StartDone("FAIL")
  PROVE  AppInv'
<1> USE AppAssumption
<1>1. /\ UNCHANGED <<seq, angle, readingVars, sendVars, air>>
      /\ radio' \in {"off", "starting", "on"}
      /\ \/ UNCHANGED portVars
         \/ Call("INIT_SERVO_LEFT", LEFT_SERVO)
  BY DEF Booted, StartDone, AppInv, TypeOK
<1>2. LEFT_SERVO \in CmdVals
  BY DEF ServoRange
<1>3. /\ phase' \in {"ready", "working", "signalled"} /\ op' \in Ops /\ val' \in CmdVals
      /\ op' \in {"SERVO", "QUIRYREADER"} => UNCHANGED <<op, val>>
  BY <1>1, <1>2, CallInv DEF portVars, AppInv, TypeOK
<1> QED
  BY <1>1, <1>3 DEF AppInv, TypeOK, SteeringInRange, BusyMeansPending, PacketIsCurrent,
                    UnsentInTime, Unsent, readingVars, sendVars

\* What every fresh command frame has in common.
LEMMA FrameInv ==
  ASSUME AppInv, angle' \in ServoRange, id' \in Tags \cup {NoId}, seq' \in 0 .. MAX_SEQ,
         UNCHANGED <<radio, current_data, resend_count, sendVars, air>>,
         phase' \in {"ready", "working", "signalled"}, op' \in Ops, val' \in CmdVals,
         op' = "SERVO" => val' \in ServoRange \cup {0},
         op' = "QUIRYREADER" => val' \in Tags
  PROVE  AppInv'
  BY DEF AppInv, TypeOK, SteeringInRange, BusyMeansPending, PacketIsCurrent,
         UnsentInTime, Unsent, sendVars

\* Every command frame keeps the invariant: all angles stay in range.
LEMMA CommandFrameInv ==
  ASSUME AppInv, CommandFrame
  PROVE  AppInv'
<1> USE AppAssumption
<1>1. PICK s \in 1 .. MAX_SEQ :
        \/ Drive(s, "BACK") \/ Drive(s, "FORWARD")
        \/ TurnLeft(s) \/ TurnRight(s) \/ AtTheStop(s)
        \/ Brake(s)
        \/ \E t \in Tags : Query(s, t)
        \/ ResetSeq(s)
  BY DEF CommandFrame
<1>2. /\ angle \in Nat /\ angle \in ServoRange /\ s \in 0 .. MAX_SEQ
      /\ op \in Ops /\ val \in CmdVals /\ id \in Tags \cup {NoId}
      /\ op = "SERVO" => val \in ServoRange \cup {0}
      /\ op = "QUIRYREADER" => val \in Tags
      /\ phase \in {"ready", "working", "signalled"}
  BY DEF AppInv, TypeOK, SteeringInRange, ServoRange
<1>3. ASSUME NEW o \in Ops, NEW v \in CmdVals, Receive(s), Call(o, v),
             angle' \in ServoRange, id' \in Tags \cup {NoId},
             o = "SERVO" => v \in ServoRange, o = "QUIRYREADER" => v \in Tags
      PROVE  AppInv'
  <2>1. /\ phase' \in {"ready", "working", "signalled"} /\ op' \in Ops /\ val' \in CmdVals
        /\ (op' = o /\ val' = v) \/ UNCHANGED <<op, val>>
    BY <1>3, CallInv DEF Receive
  <2>2. /\ op' = "SERVO" => val' \in ServoRange \cup {0}
        /\ op' = "QUIRYREADER" => val' \in Tags
    BY <1>2, <1>3, <2>1
  <2> QED
    BY <1>2, <1>3, <2>1, <2>2, FrameInv DEF Receive
<1>4. CASE Drive(s, "BACK") \/ Drive(s, "FORWARD")
  BY <1>2, <1>3, <1>4 DEF Drive
<1>5. CASE TurnLeft(s)
  <2>1. angle' \in ServoRange /\ angle' \in CmdVals
    BY <1>2, <1>5 DEF TurnLeft, ServoRange
  <2> QED
    BY <1>2, <1>3, <1>5, <2>1 DEF TurnLeft
<1>6. CASE TurnRight(s)
  <2>1. angle' \in ServoRange /\ angle' \in CmdVals
    BY <1>2, <1>6 DEF TurnRight, ServoRange
  <2> QED
    BY <1>2, <1>3, <1>6, <2>1 DEF TurnRight
<1>7. CASE Brake(s)
  BY <1>2, <1>3, <1>7, MidInRange DEF Brake
<1>8. CASE \E t \in Tags : Query(s, t)
  BY <1>2, <1>3, <1>8 DEF Query
<1>9. CASE AtTheStop(s) \/ ResetSeq(s)
  <2>1. /\ UNCHANGED <<angle, id, portVars>> /\ seq' \in 0 .. MAX_SEQ
        /\ UNCHANGED <<radio, current_data, resend_count, sendVars, air>>
    BY <1>2, <1>9 DEF AtTheStop, ResetSeq, Receive, readingVars
  <2> QED
    BY <1>2, <2>1, FrameInv DEF portVars
<1> QED
  BY <1>1, <1>4, <1>5, <1>6, <1>7, <1>8, <1>9

\* sendData: the packet is current, busy_radio is set only with a send pending.
LEMMA SendDataInv ==
  ASSUME AppInv, NEW d \in {<< >>} \cup {DataOf(t) : t \in Tags}, SendData(d)
  PROVE  /\ packet' \in Frame /\ packet'.data = d
         /\ busy_radio' \in BOOLEAN /\ am' \in {"idle", "queued", "loaded"}
         /\ busy_radio' => am' # "idle"
         /\ am = "idle" => am' = "queued"
         /\ am # "idle" => am' = am
<1>1. packet' = [id |-> id, data |-> d]
  BY DEF SendData
<1>2. packet' \in Frame /\ packet'.data = d
  BY <1>1 DEF Frame, AppInv, TypeOK
<1> QED
  BY <1>2 DEF SendData, AppInv, TypeOK, BusyMeansPending

\* A reported reading is put in line, or an older frame blocks it from now on.
LEMMA ReadDoneInv ==
  ASSUME AppInv, DriverReports \/ DriverFinishes
  PROVE  AppInv'
<1> USE AppAssumption, WaitAssumption
<1>1. CASE DriverFinishes
  BY <1>1 DEF DriverFinishes, Finish, AppInv, TypeOK, SteeringInRange, BusyMeansPending,
              PacketIsCurrent, UnsentInTime, Unsent, appVars, readingVars, sendVars
<1>2. ASSUME NEW r, r = << >> \/ r = DataOf(val), ReadDone(r)
      PROVE  AppInv'
  <2>1. /\ Signal(r) /\ phase' = "signalled" /\ UNCHANGED <<op, val, radio, seq, angle, id, air>>
    BY <1>2 DEF ReadDone, Signal
  <2>2. CASE r = << >>
    BY <2>1, <1>2, <2>2
    DEF ReadDone, AppInv, TypeOK, SteeringInRange, BusyMeansPending, PacketIsCurrent,
        UnsentInTime, Unsent, sendVars
  <2>3. CASE r # << >>
    <3>1. /\ current_data' = r /\ resend_count' = 0 /\ SendData(r)
          /\ waits' = IF am = "idle" THEN 0 ELSE waits
      BY <1>2, <2>3 DEF ReadDone
    <3>2. r \in {<< >>} \cup {DataOf(t) : t \in Tags}
      <4>1. op = "QUIRYREADER" /\ r = DataOf(val)
        BY <2>1, <2>3 DEF Signal
      <4> QED
        BY <4>1 DEF AppInv, TypeOK
    <3>3. /\ packet' \in Frame /\ packet'.data = r
          /\ busy_radio' \in BOOLEAN /\ am' \in {"idle", "queued", "loaded"}
          /\ busy_radio' => am' # "idle"
          /\ am = "idle" => am' = "queued"
          /\ am # "idle" => am' = am
      BY <3>1, <3>2, SendDataInv
    <3>4. TypeOK'
      BY <2>1, <3>1, <3>2, <3>3 DEF AppInv, TypeOK
    <3>5. SteeringInRange' /\ BusyMeansPending' /\ PacketIsCurrent'
      BY <2>1, <3>1, <3>3 DEF AppInv, SteeringInRange, BusyMeansPending, PacketIsCurrent
    <3>6. UnsentInTime'
      BY <3>1, <3>3 DEF AppInv, TypeOK, UnsentInTime
    <3> QED
      BY <2>1, <3>4, <3>5, <3>6 DEF AppInv
  <2> QED
    BY <2>2, <2>3
<1> QED
  BY <1>1, <1>2 DEF DriverReports

\* A tick resends a reading that an older frame has blocked before its resends
\* run out.
LEMMA TickInv ==
  ASSUME AppInv, ResendTimerFired
  PROVE  AppInv'
<1> USE AppAssumption, WaitAssumption
<1>1. /\ UNCHANGED <<radio, seq, angle, id, current_data, air>>
      /\ UNCHANGED portVars
      /\ waits' = IF am = "idle" THEN 0 ELSE waits + 1
      /\ am # "idle" => waits < MAX_WAIT
      /\ resend_count' = (resend_count + 1) % COUNT_MOD
  BY DEF ResendTimerFired, InTime
<1>2. /\ resend_count \in Nat /\ resend_count < COUNT_MOD /\ waits \in 0 .. MAX_WAIT
      /\ MAX_WAIT \in Nat
      /\ current_data \in {<< >>} \cup {DataOf(t) : t \in Tags}
  BY DEF AppInv, TypeOK
<1>3. /\ resend_count' \in 0 .. COUNT_MOD - 1
      /\ resend_count < RESEND_CNT => resend_count' = resend_count + 1
  BY <1>1, <1>2
<1>4. waits' \in 0 .. MAX_WAIT
  BY <1>1, <1>2
<1>5. /\ packet' \in Frame /\ (packet'.data = current_data \/ packet' = packet)
      /\ busy_radio' \in BOOLEAN /\ am' \in {"idle", "queued", "loaded"}
      /\ busy_radio' => am' # "idle"
      /\ am = "idle" /\ resend_count < RESEND_CNT => am' = "queued"
      /\ am # "idle" => am' = am
  <2>1. CASE resend_count < RESEND_CNT
    <3>1. SendData(current_data)
      BY <2>1 DEF ResendTimerFired
    <3> QED
      BY <1>2, <2>1, <3>1, SendDataInv
  <2>2. CASE ~(resend_count < RESEND_CNT)
    BY <2>2 DEF ResendTimerFired, AppInv, TypeOK, BusyMeansPending
  <2> QED
    BY <2>1, <2>2
<1>6. TypeOK'
  BY <1>1, <1>3, <1>4, <1>5 DEF AppInv, TypeOK, portVars
<1>7. SteeringInRange' /\ BusyMeansPending' /\ PacketIsCurrent'
  BY <1>1, <1>5 DEF AppInv, SteeringInRange, BusyMeansPending, PacketIsCurrent, portVars
<1>8. UnsentInTime'
  <2> SUFFICES ASSUME Unsent'
               PROVE  \/ am' = "queued"
                      \/ am' = "loaded" /\ resend_count' <= waits'
                      \/ am' = "idle" /\ resend_count' <= MAX_WAIT
    BY DEF UnsentInTime
  <2>1. Unsent
    BY <1>1 DEF Unsent
  <2>2. \/ am = "queued"
        \/ am = "loaded" /\ resend_count <= waits
        \/ am = "idle" /\ resend_count <= MAX_WAIT
    BY <2>1 DEF AppInv, UnsentInTime
  <2>3. CASE am = "queued"
    BY <1>5, <2>3
  <2>4. CASE am = "loaded" /\ resend_count <= waits
    <3>1. resend_count < RESEND_CNT
      BY <1>2, <2>4
    <3>2. resend_count' = resend_count + 1 /\ waits' = waits + 1 /\ am' = "loaded"
      BY <1>1, <1>3, <1>5, <2>4, <3>1
    <3> QED
      BY <1>2, <2>4, <3>2
  <2>5. CASE am = "idle" /\ resend_count <= MAX_WAIT
    BY <1>2, <1>5, <2>5
  <2> QED
    BY <2>2, <2>3, <2>4, <2>5
<1> QED
  BY <1>1, <1>6, <1>7, <1>8 DEF AppInv

\* The radio copies the frame in line, and gives the slot back.
LEMMA RadioInv ==
  ASSUME AppInv, RadioLoads \/ SendDone
  PROVE  AppInv'
<1> USE AppAssumption, WaitAssumption
<1>1. CASE RadioLoads
  BY <1>1 DEF RadioLoads, AppInv, TypeOK, SteeringInRange, BusyMeansPending, PacketIsCurrent,
              UnsentInTime, Unsent, readingVars, portVars
<1>2. CASE SendDone
  <2>1. /\ UNCHANGED <<radio, seq, angle, readingVars, packet, air, portVars>>
        /\ am = "loaded" /\ am' = "idle" /\ busy_radio' = FALSE /\ waits' = 0
    BY <1>2 DEF SendDone
  <2>2. TypeOK' /\ SteeringInRange' /\ BusyMeansPending' /\ PacketIsCurrent'
    <3>1. 0 \in 0 .. MAX_WAIT
      OBVIOUS
    <3>2. TypeOK'
      BY <2>1, <3>1 DEF AppInv, TypeOK, readingVars, portVars
    <3> QED
      BY <2>1, <3>2 DEF AppInv, SteeringInRange, BusyMeansPending, PacketIsCurrent, readingVars,
                        portVars
  <2>3. waits \in Nat /\ waits <= MAX_WAIT /\ resend_count \in Nat /\ MAX_WAIT \in Nat
    BY DEF AppInv, TypeOK
  <2>4. UnsentInTime'
    BY <2>1, <2>3 DEF AppInv, UnsentInTime, Unsent, readingVars
  <2> QED
    BY <2>1, <2>2, <2>4 DEF AppInv
<1> QED
  BY <1>1, <1>2

\* Every step keeps the invariant.
LEMMA NextInv ==
  ASSUME AppInv, [Next]_vars
  PROVE  AppInv'
<1>1. CASE UNCHANGED vars
  BY <1>1 DEF vars, appVars, AppInv, TypeOK, SteeringInRange, BusyMeansPending, PacketIsCurrent,
              UnsentInTime, Unsent, readingVars, sendVars, portVars
<1> QED
  BY <1>1, StartInv, CommandFrameInv, ReadDoneInv, TickInv, RadioInv DEF Next

\* The invariant of the application holds.
THEOREM AppInvariant == Spec => []AppInv
<1>1. AppInv /\ [Next]_vars => AppInv'
  BY NextInv
<1> QED
  BY <1>1, InitInv, PTL DEF Spec

\* The servo is only ever told angles in its range.
THEOREM SteeringStaysInRange == Spec => []SteeringInRange
<1>1. AppInv => SteeringInRange
  BY DEF AppInv
<1> QED
  BY <1>1, AppInvariant, PTL

\* busy_radio is only ever set while a send is pending.
THEOREM BusyOnlyWhilePending == Spec => []BusyMeansPending
<1>1. AppInv => BusyMeansPending
  BY DEF AppInv
<1> QED
  BY <1>1, AppInvariant, PTL

\* No reading runs out of resends before the radio has it.
THEOREM ReadingsAreBroadcast == Spec => []BroadcastBeforeResendsEnd
<1>1. AppInv => BroadcastBeforeResendsEnd
  <2> SUFFICES ASSUME AppInv, Unsent, resend_count >= RESEND_CNT
               PROVE  am = "queued" /\ packet.data = current_data
    BY DEF BroadcastBeforeResendsEnd, Unsent
  <2>1. waits \in 0 .. MAX_WAIT /\ resend_count \in Nat /\ MAX_WAIT \in Nat
        /\ RESEND_CNT \in Nat /\ MAX_WAIT < RESEND_CNT
    BY AppAssumption, WaitAssumption DEF AppInv, TypeOK
  <2>2. ~(resend_count <= waits) /\ ~(resend_count <= MAX_WAIT)
    BY <2>1
  <2> QED
    BY <2>2 DEF AppInv, UnsentInTime, PacketIsCurrent, Unsent
<1> QED
  BY <1>1, AppInvariant, PTL
=============================================================================
