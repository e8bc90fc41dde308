------------------------------- MODULE CarApp --------------------------------
(***************************************************************************)
(* RadioToLedsC of final/CarNode, the application of the car.              *)
(*                                                                         *)
(* It starts the radio and the driver, turns every fresh command frame     *)
(* into calls of the driver, and broadcasts a data frame for each reading  *)
(* the driver reports, at once and again on the next RESEND_CNT ticks of   *)
(* ResendTimer.  The driver is taken at the port it implements             *)
(* (CommandPort; CarDriver shows that it does).  Each handler is one task: *)
(* of its calls the driver accepts the first at most, because an accepted  *)
(* command occupies the driver until another task has run.                 *)
(*                                                                         *)
(* AMSend is the send queue of the radio, with this application as its     *)
(* only client: send answers EBUSY while the client's slot is taken.  The  *)
(* radio copies the frame from packet some time after send and before      *)
(* sendDone, in one step here.  SUCCESS is 0 in TinyOS, so a call that     *)
(* succeeds does not enter the branch of "if(call DataSend.send(...))".    *)
(***************************************************************************)
EXTENDS CommandPort, Naturals, Sequences

CONSTANTS Tags,                 \* tags a query names (100 .. 114)
          RIGHT_SERVO, LEFT_SERVO, ANGLE_STEP, MAX_SPEED,
          RESEND_CNT,           \* resends of a reading (5)
          COUNT_MOD,            \* resend_count is a number modulo this (2^16)
          OLD_COUNT,            \* its value at boot (0xfff)
          MAX_SEQ,              \* bound: sequence numbers of frames
          MAX_WAIT              \* ticks of ResendTimer that a send may take

MID_ANGLE == (LEFT_SERVO + RIGHT_SERVO) \div 2
ServoRange == RIGHT_SERVO .. LEFT_SERVO

ASSUME AppAssumption ==
  /\ {RIGHT_SERVO, LEFT_SERVO, ANGLE_STEP, MAX_SPEED, MAX_SEQ, MAX_WAIT} \subseteq Nat
  /\ RIGHT_SERVO <= LEFT_SERVO
  /\ RESEND_CNT \in Nat /\ OLD_COUNT \in Nat /\ COUNT_MOD \in Nat
  /\ RESEND_CNT < OLD_COUNT /\ OLD_COUNT < COUNT_MOD
  /\ {"INIT_SERVO_LEFT", "BACK", "FORWARD", "SERVO", "STOP", "QUIRYREADER"} \subseteq Ops
  /\ ServoRange \cup {MAX_SPEED, 0} \cup Tags \subseteq CmdVals

\* Waiting for the bus while a query holds it (1 s) and sending take less than
\* RESEND_CNT ticks.
ASSUME WaitAssumption == MAX_WAIT < RESEND_CNT

VARIABLES radio,                \* "off", "starting" or "on"
          seq, angle, id, current_data, resend_count, busy_radio, packet,
          am,                   \* the send slot: "idle", "queued" or "loaded"
          air,                  \* the frame the radio copied last
          waits                 \* ticks since the pending send was accepted

readingVars == <<id, current_data, resend_count>>
sendVars == <<busy_radio, packet, am, waits>>
appVars == <<radio, seq, angle, readingVars, sendVars, air>>
vars == <<appVars, portVars>>

NoId == 0                       \* id is not initialised by the code: zero
Frame == [id : Tags \cup {NoId}, data : {<< >>} \cup {DataOf(t) : t \in Tags}]
NoFrame == [id |-> NoId, data |-> << >>]

TypeOK == /\ radio \in {"off", "starting", "on"}
          /\ phase \in {"ready", "working", "signalled"}
          /\ op \in Ops /\ val \in CmdVals
          /\ op = "QUIRYREADER" => val \in Tags
          /\ seq \in 0 .. MAX_SEQ
          /\ angle \in ServoRange
          /\ id \in Tags \cup {NoId}
          /\ current_data \in {<< >>} \cup {DataOf(t) : t \in Tags}
          /\ resend_count \in 0 .. COUNT_MOD - 1
          /\ busy_radio \in BOOLEAN
          /\ packet \in Frame /\ air \in Frame
          /\ am \in {"idle", "queued", "loaded"}
          /\ waits \in 0 .. MAX_WAIT

Init == /\ phase = "ready" /\ op = "SERVO" /\ val = 0 /\ result = << >>
        /\ radio = "off"
        /\ seq = 0 /\ angle = MID_ANGLE
        /\ id = NoId /\ current_data = << >> /\ resend_count = OLD_COUNT
        /\ busy_radio = FALSE /\ packet = NoFrame
        /\ am = "idle" /\ air = NoFrame /\ waits = 0

----------------------------------------------------------------------------
(* Calls of the driver and of AMSend.                                      *)

\* A refused call changes nothing that the port shows.
Call(o, v) == IF phase = "ready" THEN Accept(o, v) ELSE UNCHANGED portVars

\* The payload is written before busy_radio is tested.
SendData(data) ==
  /\ packet' = [id |-> id, data |-> data]
  /\ IF busy_radio
     THEN UNCHANGED <<busy_radio, am>>
     ELSE \/ /\ am = "idle"
             /\ am' = "queued"
             /\ UNCHANGED busy_radio
          \/ /\ am # "idle"
             /\ busy_radio' = TRUE
             /\ UNCHANGED am

----------------------------------------------------------------------------
(* Start                                                                   *)

Booted == /\ radio = "off"
          /\ radio' = "starting"
          /\ UNCHANGED <<seq, angle, readingVars, sendVars, air, portVars>>

\* A failed start is repeated.  A good one starts the driver, which calls the
\* application back: InitLeftServo, InitRightServo, InitMidServo.
StartDone(err) ==
  /\ radio = "starting"
  /\ \/ /\ err = "SUCCESS"
        /\ radio' = "on"
        /\ Call("INIT_SERVO_LEFT", LEFT_SERVO)
     \/ /\ err # "SUCCESS"
        /\ UNCHANGED <<radio, portVars>>
  /\ UNCHANGED <<seq, angle, readingVars, sendVars, air>>

----------------------------------------------------------------------------
(* Receive.receive, for a frame with sequence number s                     *)

\* No task of the driver is half done, and the frame is newer than the last.
Receive(s) == /\ radio = "on" /\ phase # "signalled"
              /\ s > seq
              /\ seq' = s
              /\ UNCHANGED <<radio, current_data, resend_count, sendVars, air>>

Drive(s, o) == /\ Receive(s)                                \* w_, s_
               /\ Call(o, MAX_SPEED)
               /\ UNCHANGED <<angle, id>>

\* The new angle is kept also when the driver refuses the call.
TurnLeft(s) == /\ Receive(s)                                \* a_
               /\ angle + ANGLE_STEP <= LEFT_SERVO
               /\ angle' = angle + ANGLE_STEP
               /\ Call("SERVO", angle')
               /\ UNCHANGED id

TurnRight(s) == /\ Receive(s)                               \* d_
                /\ angle >= RIGHT_SERVO + ANGLE_STEP
                /\ angle' = angle - ANGLE_STEP
                /\ Call("SERVO", angle')
                /\ UNCHANGED id

AtTheStop(s) == /\ Receive(s)                               \* a_, d_ at the end
                /\ \/ angle + ANGLE_STEP > LEFT_SERVO
                   \/ angle < RIGHT_SERVO + ANGLE_STEP
                /\ UNCHANGED <<angle, id, portVars>>

\* Pause, and then Angle(MID_ANGLE), which finds the driver occupied.
Brake(s) == /\ Receive(s)                                   \* __
            /\ Call("STOP", 0)
            /\ angle' = MID_ANGLE
            /\ UNCHANGED id

\* The id is kept also when the driver refuses the query.
Query(s, t) == /\ Receive(s)                                \* _1 .. _F
               /\ Call("QUIRYREADER", t)
               /\ id' = t
               /\ UNCHANGED angle

\* r_, itself a fresh frame
ResetSeq(s) == /\ radio = "on" /\ phase # "signalled"
               /\ s > seq
               /\ seq' = 0
               /\ UNCHANGED <<radio, angle, readingVars, sendVars, air, portVars>>

----------------------------------------------------------------------------
(* Car.readDone, ResendTimer.fired, DataSend.sendDone, and the radio       *)

\* Mutant of ReadDone: the resends are not started again.
ReadDoneKeepsCount(r) ==
  /\ Signal(r)
  /\ \/ /\ r # << >>
        /\ current_data' = r
        /\ UNCHANGED resend_count
        /\ SendData(r)
        /\ waits' = IF am = "idle" THEN 0 ELSE waits
     \/ /\ r = << >>
        /\ UNCHANGED <<current_data, resend_count, sendVars>>
  /\ UNCHANGED <<radio, seq, angle, id, air>>

ReadDone(r) ==
  /\ Signal(r)
  /\ \/ /\ r # << >>
        /\ current_data' = r
        /\ resend_count' = 0
        /\ SendData(r)
        /\ waits' = IF am = "idle" THEN 0 ELSE waits
     \/ /\ r = << >>
        /\ UNCHANGED <<current_data, resend_count, sendVars>>
  /\ UNCHANGED <<radio, seq, angle, id, air>>

\* What the driver does after readDone, or instead of it.
DriverFinishes == Finish /\ UNCHANGED appVars

\* Time: a send takes at most MAX_WAIT ticks, and the radio is up before the
\* counter, which also counts without a reading, wraps for the first time.
InTime == /\ am # "idle" => waits < MAX_WAIT
          /\ radio # "on" => resend_count + 1 < COUNT_MOD

\* Mutant of ResendTimerFired: counted before it is compared, one resend less.
ResendOneLess ==
  /\ radio # "off" /\ phase # "signalled"
  /\ InTime
  /\ resend_count' = (resend_count + 1) % COUNT_MOD
  /\ IF resend_count' < RESEND_CNT
     THEN SendData(current_data)
     ELSE UNCHANGED <<busy_radio, packet, am>>
  /\ waits' = IF am = "idle" THEN 0 ELSE waits + 1
  /\ UNCHANGED <<radio, seq, angle, id, current_data, air, portVars>>

ResendTimerFired ==
  /\ radio # "off" /\ phase # "signalled"
  /\ InTime
  /\ resend_count' = (resend_count + 1) % COUNT_MOD
  /\ IF resend_count < RESEND_CNT
     THEN SendData(current_data)
     ELSE UNCHANGED <<busy_radio, packet, am>>
  /\ waits' = IF am = "idle" THEN 0 ELSE waits + 1
  /\ UNCHANGED <<radio, seq, angle, id, current_data, air, portVars>>

RadioLoads == /\ am = "queued"
              /\ am' = "loaded"
              /\ air' = packet
              /\ UNCHANGED <<radio, seq, angle, readingVars, busy_radio, packet,
                             waits, portVars>>

\* Mutant of SendDone: busy_radio stays set.
SendDoneKeepsBusy == /\ am = "loaded" /\ phase # "signalled"
                     /\ am' = "idle"
                     /\ waits' = 0
                     /\ UNCHANGED <<radio, seq, angle, readingVars, busy_radio, packet, air,
                                    portVars>>

SendDone == /\ am = "loaded" /\ phase # "signalled"
            /\ am' = "idle"
            /\ busy_radio' = FALSE
            /\ waits' = 0
            /\ UNCHANGED <<radio, seq, angle, readingVars, packet, air, portVars>>

CommandFrame == \E s \in 1 .. MAX_SEQ :
  \/ Drive(s, "BACK") \/ Drive(s, "FORWARD")
  \/ TurnLeft(s) \/ TurnRight(s) \/ AtTheStop(s)
  \/ Brake(s)
  \/ \E t \in Tags : Query(s, t)
  \/ ResetSeq(s)

DriverReports == ReadDone(<< >>) \/ ReadDone(DataOf(val))

Next == \/ Booted \/ StartDone("SUCCESS") \/ StartDone("FAIL")
        \/ CommandFrame
        \/ DriverReports \/ DriverFinishes
        \/ ResendTimerFired \/ RadioLoads \/ SendDone

\* The driver finishes its commands (PortSpec), the timer ticks, the radio
\* sends what it has accepted.  A task that is posted while readDone is being
\* reported has to wait for the end of that task only, however often: SF.
Fairness == /\ WF_vars(DriverReports \/ DriverFinishes)
            /\ WF_vars(RadioLoads)
            /\ SF_vars(ResendTimerFired)
            /\ SF_vars(SendDone)

Spec == Init /\ [][Next]_vars /\ Fairness

----------------------------------------------------------------------------
(* Properties.                                                             *)

\* The servo is only ever told angles between its calibrated ends, and the
\* stored angle, which moves also when the driver refuses, stays there too.
SteeringInRange == /\ angle \in ServoRange
                   /\ op = "SERVO" => val \in ServoRange \cup {0}

\* busy_radio blocks every further data frame.  The test that sets it is
\* inverted, yet it is only ever set while a send is pending, whose sendDone
\* clears it.
BusyMeansPending == busy_radio => am # "idle"

\* The data path is never blocked for good.
BusyClears == busy_radio ~> ~busy_radio

\* A reading is broadcast at least once before its resends run out, also when
\* its first send is refused because an older frame is on its way: then the
\* reading has been copied by the radio, or is in line and will be.
BroadcastBeforeResendsEnd ==
  current_data # << >> /\ resend_count >= RESEND_CNT =>
    air.data = current_data \/ (am = "queued" /\ packet.data = current_data)

\* include/test_data_msg.h calls the field id of a data frame the "tag id":
\* the data of a frame is the data of the tag the frame names.
FrameNamesItsTag == air.data # << >> => air.data = DataOf(air.id)

----------------------------------------------------------------------------
(* The inductive invariant.                                                *)

\* packet is rewritten with every change of current_data.
PacketIsCurrent == current_data # << >> => packet.data = current_data

\* A reading not yet broadcast is in line, or an older frame still blocks it
\* and has done so since the reading was reported at the earliest.
Unsent == current_data # << >> /\ air.data # current_data
UnsentInTime == Unsent => \/ am = "queued"
                          \/ am = "loaded" /\ resend_count <= waits
                          \/ am = "idle" /\ resend_count <= MAX_WAIT

AppInv == /\ TypeOK
          /\ SteeringInRange
          /\ BusyMeansPending
          /\ PacketIsCurrent
          /\ UnsentInTime
=============================================================================
