------------------------------ MODULE CarDriver ------------------------------
(***************************************************************************)
(* CarP, the driver of the car and of its tag reader (final/CarNode).      *)
(*                                                                         *)
(* The driver owns one command buffer (CarCommand, cmdlength) and one flag *)
(* (isSend).  A command fills the buffer and requests UART0 from the       *)
(* arbiter; granted sends the bytes.  A servo or motor command (7 bytes)   *)
(* gives the bus back at once; a reader query (4 bytes) keeps it until the *)
(* answer has been read by the receive interrupt, or Timer1 (1000 ms) has  *)
(* fired, and recvTask has signalled readDone.                             *)
(*                                                                         *)
(* Grain of atomicity: a TinyOS task or command runs without another task, *)
(* but the interrupts (Interrupts.rxDone, and the radio's requests for the *)
(* bus) come at any time.  A task that signals or busy-waits is therefore  *)
(* split there: cpu says which task is half done.  The order of the posted *)
(* tasks is left open (the scheduler's FIFO order is one of those).        *)
(*                                                                         *)
(* Bytes are abstracted to what rxDone tells apart: "ff" (the sync byte),  *)
(* "zero" (the header byte) and, for everything else, the tag whose answer *)
(* the byte belongs to.                                                    *)
(***************************************************************************)
EXTENDS Uart0Arbiter

CONSTANTS Car,            \* the driver's client id on UART0
          Values,         \* angles, speeds and calibration values
          Tags,           \* tag ids a query may name
          NoTag,          \* no query is with the reader
          MAX_DATA,       \* bytes of an answer after the sync bytes (6 in the code)
          GoodReader      \* the reader answers four-byte queries only, and in time

ASSUME DriverAssumption == /\ Car \in Clients
                           /\ NoTag \notin Tags
                           /\ Tags \cap {"ff", "zero"} = {}
                           /\ GoodReader \in BOOLEAN
                           /\ MAX_DATA \in Nat /\ MAX_DATA >= 2
                           /\ GoodReader => MAX_DATA >= 4

SYNC_DATA_SUM == 2
CMD_LENTH == 7
QUERY_LENGTH == 4

VARIABLES isStart, isSend,      \* driver running; a command is being served
          cmdlength,            \* bytes of CarCommand that granted will send
          cmdop, cmdval,        \* CarCommand[2] and CarCommand[3..4]
          statetag,             \* result of the last reading
          isUartDataOk,         \* the two sync bytes have been seen
          rcvSyncDataSum,       \* index into SyncData
          recdata,              \* bytes received (nreading is its length)
          isBufFull,
          tagdata,              \* last two bytes of the last complete answer
          timer1,               \* Timer1 is running
          recvTask,             \* recvTask is in the scheduler's queue
          cpu,                  \* the driver task that is half done, or "idle"
          asked,                \* reader: tag of the query it has to answer
          answer                \* reader: bytes of the answer still to arrive

cmdVars == <<isStart, isSend, cmdlength, cmdop, cmdval>>
rxVars == <<isUartDataOk, rcvSyncDataSum, recdata, isBufFull>>
resultVars == <<statetag, tagdata, recvTask>>
readerVars == <<asked, answer>>
driverVars == <<cmdVars, rxVars, resultVars, timer1, cpu, readerVars>>
vars == <<driverVars, arbVars>>

----------------------------------------------------------------------------
SevenByteOps == {"SERVO", "FORWARD", "BACK", "STOP", "INIT_SERVO_LEFT",
                 "INIT_SERVO_RIGHT", "INIT_SERVO_MID", "INIT_MOTOR_MAX",
                 "INIT_MOTOR_MIN"}
Ops == SevenByteOps \cup {"QUIRYREADER"}
Zero == 0
CmdVals == Values \cup Tags \cup {Zero}

Byte == {"ff", "zero"} \cup Tags
NoData == <<"zero", "zero">>          \* tagdata is initialised to 0

\* SyncData has two entries.  A refused query clears isUartDataOk but not
\* rcvSyncDataSum, so the next byte is compared with memory behind the
\* array.  SYNC_CAP stands for every index beyond it.
SYNC_CAP == SYNC_DATA_SUM + 1

\* The reader's answer: sync, header (zero when the tag was read), the data.
Answer(t, read) == LET h == IF read THEN "zero" ELSE t
                   IN [i \in 1 .. SYNC_DATA_SUM + MAX_DATA |->
                         IF i <= 2 THEN "ff" ELSE IF i <= 4 THEN h ELSE t]

TypeOK == /\ ArbTypeOK
          /\ isStart \in BOOLEAN
          /\ isSend \in BOOLEAN
          /\ cmdlength \in {0, QUERY_LENGTH, CMD_LENTH}
          /\ cmdop \in Ops
          /\ cmdval \in CmdVals
          /\ cmdop = "QUIRYREADER" => cmdval \in Tags
          /\ statetag \in {"SUCCESS", "FAIL"}
          /\ isUartDataOk \in BOOLEAN
          /\ rcvSyncDataSum \in 0 .. SYNC_CAP
          /\ recdata \in Seq(Byte)
          /\ isBufFull \in BOOLEAN
          /\ tagdata \in Byte \X Byte
          /\ timer1 \in BOOLEAN
          /\ recvTask \in BOOLEAN
          /\ cpu \in {"idle", "granted", "fired", "recv"}
          /\ asked \in Tags \cup {NoTag}
          /\ answer \in Seq(Byte)

\* CarCommand is initialised to {1, 2, SERVO, 0, 0, 255, 255}.
DriverInit == /\ isStart = FALSE /\ isSend = FALSE
              /\ cmdlength = 0 /\ cmdop = "SERVO" /\ cmdval = Zero
              /\ statetag = "FAIL" /\ tagdata = NoData /\ recvTask = FALSE
              /\ isUartDataOk = FALSE /\ rcvSyncDataSum = 0
              /\ recdata = << >> /\ isBufFull = FALSE
              /\ timer1 = FALSE /\ cpu = "idle"
              /\ asked = NoTag /\ answer = << >>

Init == ArbInit /\ DriverInit

----------------------------------------------------------------------------
(* Commands, called by the application from one of its tasks.              *)

\* CarControl.start; the application's startDone handler runs in the caller.
StartDriver == /\ isStart' = TRUE
               /\ UNCHANGED <<isSend, cmdlength, cmdop, cmdval, rxVars,
                              resultVars, timer1, cpu, readerVars, arbVars>>

StopDriver == /\ isStart' = FALSE
              /\ isSend' = FALSE
              /\ UNCHANGED <<cmdlength, cmdop, cmdval, rxVars, resultVars,
                             timer1, cpu, readerVars, arbVars>>

\* The common shape of every command: the length is written before the test
\* of isStart and isSend, opcode and value only when the command is accepted.
AcceptsWhileSending == isStart             \* mutant: isSend is not tested

Accepts == isStart /\ ~isSend

AcceptCommand(op, v) == /\ Accepts
                        /\ isSend' = TRUE
                        /\ cmdop' = op
                        /\ cmdval' = v
                        /\ Request(Car)
                        /\ UNCHANGED rxVars

RefuseCommand == /\ ~Accepts
                 /\ UNCHANGED <<isSend, cmdop, cmdval, arbVars>>

SevenByteCommand(op, v) ==
  /\ cmdlength' = CMD_LENTH
  /\ AcceptCommand(op, v) \/ (RefuseCommand /\ UNCHANGED rxVars)
  /\ UNCHANGED <<isStart, resultVars, timer1, cpu, readerVars>>

Angle(v) == SevenByteCommand("SERVO", v)
Forward(v) == SevenByteCommand("FORWARD", v)
Back(v) == SevenByteCommand("BACK", v)
Pause == SevenByteCommand("STOP", Zero)
InitMaxSpeed(v) == SevenByteCommand("INIT_MOTOR_MAX", v)
InitMinSpeed(v) == SevenByteCommand("INIT_MOTOR_MIN", v)
InitLeftServo(v) == SevenByteCommand("INIT_SERVO_LEFT", v)
InitRightServo(v) == SevenByteCommand("INIT_SERVO_RIGHT", v)
InitMidServo(v) == SevenByteCommand("INIT_SERVO_MID", v)

\* A refused query also drops what has been received so far.
DropReception == /\ recdata' = << >>
                 /\ isBufFull' = FALSE
                 /\ isUartDataOk' = FALSE
                 /\ UNCHANGED rcvSyncDataSum

QuiryReader(t) ==
  /\ cmdlength' = QUERY_LENGTH
  /\ AcceptCommand("QUIRYREADER", t) \/ (RefuseCommand /\ DropReception)
  /\ UNCHANGED <<isStart, resultVars, timer1, cpu, readerVars>>

----------------------------------------------------------------------------
(* uart0resource.granted                                                   *)

\* The arbiter's task makes the driver the owner and enters granted, which
\* busy-waits for every byte it sends.
GrantCar == /\ cpu = "idle"
            /\ GrantedTask(Car)
            /\ cpu' = "granted"
            /\ UNCHANGED <<cmdVars, rxVars, resultVars, timer1, readerVars>>

\* The reader hears a command whose opcode is a query; a good reader takes a
\* query for one only when it has the length of a query.
ReaderHears ==
  asked' = IF cmdop = "QUIRYREADER" /\ (GoodReader => cmdlength = QUERY_LENGTH)
           THEN cmdval ELSE asked

\* Mutant of GrantedQuery: no timeout is started.
GrantedQueryWithoutTimer == /\ cpu = "granted"
                            /\ cmdlength = QUERY_LENGTH
                            /\ ReaderHears
                            /\ cpu' = "idle"
                            /\ UNCHANGED <<cmdVars, rxVars, resultVars, timer1, answer,
                                           arbVars>>

\* Mutant of GrantedQuery: the bus is given back before the answer.
GrantedQueryReleases == /\ cpu = "granted"
                        /\ cmdlength = QUERY_LENGTH
                        /\ ReaderHears
                        /\ timer1' = TRUE
                        /\ Release(Car)
                        /\ cpu' = "idle"
                        /\ UNCHANGED <<cmdVars, rxVars, resultVars, answer>>

\* Four bytes sent: keep the bus and wait for the answer, 1000 ms at most.
GrantedQuery == /\ cpu = "granted"
                /\ cmdlength = QUERY_LENGTH
                /\ ReaderHears
                /\ timer1' = TRUE
                /\ cpu' = "idle"
                /\ UNCHANGED <<cmdVars, rxVars, resultVars, answer, arbVars>>

\* Seven bytes sent: give the bus back.
GrantedDrive == /\ cpu = "granted"
                /\ cmdlength # QUERY_LENGTH
                /\ ReaderHears
                /\ Release(Car)
                /\ isSend' = FALSE
                /\ cpu' = "idle"
                /\ UNCHANGED <<isStart, cmdlength, cmdop, cmdval, rxVars,
                               resultVars, timer1, answer>>

----------------------------------------------------------------------------
(* The reader, outside the program: it answers a query once, or never.  A  *)
(* good reader is in time: its whole answer arrives while Timer1 runs.     *)
ReaderAnswers == /\ asked # NoTag
                 /\ answer = << >>
                 /\ GoodReader => timer1
                 /\ \E read \in BOOLEAN : answer' = Answer(asked, read)
                 /\ asked' = NoTag
                 /\ UNCHANGED <<cmdVars, rxVars, resultVars, timer1, cpu, arbVars>>

----------------------------------------------------------------------------
(* Interrupts.rxDone, an interrupt, between any two steps of any task      *)

\* data is what SyncData holds at the index; behind the array, anything.
SyncMatches(b) == \/ rcvSyncDataSum < SYNC_DATA_SUM /\ b = "ff"
                  \/ rcvSyncDataSum >= SYNC_DATA_SUM
SyncDiffers(b) == \/ rcvSyncDataSum < SYNC_DATA_SUM /\ b # "ff"
                  \/ rcvSyncDataSum >= SYNC_DATA_SUM

RxSync(b) ==
  /\ ~isUartDataOk /\ Owner(Car)
  /\ \/ /\ SyncMatches(b)
        /\ rcvSyncDataSum' = IF rcvSyncDataSum < SYNC_CAP THEN rcvSyncDataSum + 1
                                                          ELSE SYNC_CAP
        /\ IF rcvSyncDataSum + 1 = SYNC_DATA_SUM
           THEN isUartDataOk' = TRUE /\ recdata' = << >>
           ELSE UNCHANGED <<isUartDataOk, recdata>>
     \/ /\ SyncDiffers(b)
        /\ rcvSyncDataSum' = 0
        /\ UNCHANGED <<isUartDataOk, recdata>>
  /\ UNCHANGED <<isBufFull, resultVars, timer1>>

\* Mutant of RxPayload: the result is taken from the header.
RxPayloadReportsHeader(b) ==
  /\ isUartDataOk /\ ~isBufFull /\ Owner(Car)
  /\ recdata' = Append(recdata, b)
  /\ IF Len(recdata) + 1 < MAX_DATA
     THEN UNCHANGED <<isBufFull, resultVars, timer1>>
     ELSE /\ isBufFull' = TRUE
          /\ timer1' = FALSE
          /\ recvTask' = TRUE
          /\ tagdata' = <<recdata'[1], recdata'[2]>>
          /\ statetag' = "SUCCESS"
  /\ UNCHANGED <<isUartDataOk, rcvSyncDataSum>>

\* The sixth byte completes the buffer: the header decides the result.
RxPayload(b) ==
  /\ isUartDataOk /\ ~isBufFull /\ Owner(Car)
  /\ recdata' = Append(recdata, b)
  /\ IF Len(recdata) + 1 < MAX_DATA
     THEN UNCHANGED <<isBufFull, resultVars, timer1>>
     ELSE /\ isBufFull' = TRUE
          /\ timer1' = FALSE
          /\ recvTask' = TRUE
          /\ IF recdata'[1] = "zero" /\ recdata'[2] = "zero"
             THEN /\ tagdata' = <<recdata'[MAX_DATA - 1], recdata'[MAX_DATA]>>
                  /\ statetag' = "SUCCESS"
             ELSE statetag' = "FAIL" /\ UNCHANGED tagdata
  /\ UNCHANGED <<isUartDataOk, rcvSyncDataSum>>

RxIgnored == /\ ~Owner(Car) \/ (isUartDataOk /\ isBufFull)
             /\ UNCHANGED <<rxVars, resultVars, timer1>>

RxDone == /\ answer # << >>
          /\ answer' = Tail(answer)
          /\ LET b == Head(answer) IN RxSync(b) \/ RxPayload(b) \/ RxIgnored
          /\ UNCHANGED <<cmdVars, cpu, asked, arbVars>>

----------------------------------------------------------------------------
(* Timer1 and recvTask                                                     *)

\* The timer task takes the expired one-shot off and enters Timer1.fired.
Timer1Expires == /\ cpu = "idle"
                 /\ timer1
                 /\ GoodReader => answer = << >>
                 /\ timer1' = FALSE
                 /\ cpu' = "fired"
                 /\ asked' = IF GoodReader THEN NoTag ELSE asked
                 /\ UNCHANGED <<cmdVars, rxVars, resultVars, answer, arbVars>>

\* Mutant of Timer1Fired: the result of an earlier reading stays.
TimeoutKeepsResult == /\ cpu = "fired"
                      /\ recvTask' = TRUE
                      /\ cpu' = "idle"
                      /\ UNCHANGED <<cmdVars, rxVars, statetag, tagdata, timer1, readerVars,
                                     arbVars>>

Timer1Fired == /\ cpu = "fired"
               /\ statetag' = "FAIL"
               /\ recvTask' = TRUE
               /\ cpu' = "idle"
               /\ UNCHANGED <<cmdVars, rxVars, tagdata, timer1, readerVars, arbVars>>

\* Mutant of ReadDone: the count of sync bytes is not reset.
ReadDoneKeepsSync == /\ cpu = "idle"
                     /\ recvTask
                     /\ recvTask' = FALSE
                     /\ timer1' = FALSE
                     /\ isBufFull' = FALSE
                     /\ isUartDataOk' = FALSE
                     /\ recdata' = << >>
                     /\ cpu' = "recv"
                     /\ UNCHANGED <<cmdVars, rcvSyncDataSum, statetag, tagdata, readerVars,
                                    arbVars>>

\* recvTask up to and including the readDone it signals ...
ReadDone == /\ cpu = "idle"
            /\ recvTask
            /\ recvTask' = FALSE
            /\ timer1' = FALSE
            /\ isBufFull' = FALSE
            /\ isUartDataOk' = FALSE
            /\ rcvSyncDataSum' = 0
            /\ recdata' = << >>
            /\ cpu' = "recv"
            /\ UNCHANGED <<cmdVars, statetag, tagdata, readerVars, arbVars>>

\* Mutant of RecvTaskEnds: the bus is not given back.
RecvTaskKeepsBus == /\ cpu = "recv"
                    /\ isSend' = FALSE
                    /\ cpu' = "idle"
                    /\ UNCHANGED <<isStart, cmdlength, cmdop, cmdval, rxVars, resultVars,
                                   timer1, readerVars, arbVars>>

\* ... and what follows it.
RecvTaskEnds == /\ cpu = "recv"
                /\ isSend' = FALSE
                /\ Release(Car)
                /\ cpu' = "idle"
                /\ UNCHANGED <<isStart, cmdlength, cmdop, cmdval, rxVars,
                               resultVars, timer1, readerVars>>

----------------------------------------------------------------------------
(* The other clients of the bus (on the car node, the radio).              *)
OtherClient(c) == \/ ClientRequests(c)
                  \/ ClientTriesAtOnce(c)
                  \/ ClientReleases(c)

OtherGranted(c) == cpu = "idle" /\ GrantedTask(c)

BusStep == /\ \E c \in Clients \ {Car} : OtherClient(c) \/ OtherGranted(c)
           /\ UNCHANGED driverVars

Command == \/ \E v \in Values : \/ Angle(v) \/ Forward(v) \/ Back(v)
                                \/ InitMaxSpeed(v) \/ InitMinSpeed(v)
                                \/ InitLeftServo(v) \/ InitRightServo(v)
                                \/ InitMidServo(v)
           \/ Pause
           \/ \E t \in Tags : QuiryReader(t)

\* The application calls from its own tasks; it stops an idle driver only.
Caller == /\ cpu = "idle"
          /\ \/ Command
             \/ StartDriver
             \/ ~isSend /\ StopDriver

DriverTask == GrantCar \/ GrantedQuery \/ GrantedDrive \/ Timer1Fired
              \/ ReadDone \/ RecvTaskEnds

Next == \/ Caller \/ DriverTask \/ Timer1Expires \/ RxDone \/ ReaderAnswers
        \/ BusStep

\* The scheduler runs every posted task, time passes, a byte on the wire
\* arrives, and the other clients give the bus back.
Fairness == /\ WF_vars(DriverTask)
            /\ WF_vars(Timer1Expires)
            /\ WF_vars(RxDone)
            /\ \A c \in Clients \ {Car} :
                 /\ WF_vars(OtherGranted(c) /\ UNCHANGED driverVars)
                 /\ WF_vars(ClientReleases(c) /\ UNCHANGED driverVars)

Spec == Init /\ [][Next]_vars /\ Fairness

----------------------------------------------------------------------------
(* Properties.                                                             *)

\* isSend is the only lock of the command buffer.  It is set exactly while
\* the driver is in line for UART0, about to be granted it, or owns it: a
\* flag cleared early would let a second request in and overwrite a command
\* on its way, one cleared late would refuse every further command.
SendFlagMatchesBus == isSend <=> Involved(Car)

\* The reading belongs to one tenure of the bus: Timer1, the receive
\* interrupt's task and readDone only ever run while the driver owns UART0.
ReadingWithinTenure == timer1 \/ recvTask \/ cpu # "idle" => Owner(Car)

\* A reading reported as SUCCESS answers the query that is being served: it
\* is made of bytes of the queried tag only, and no servo command gets one.
ReadingIsOfQueriedTag ==
  (recvTask \/ cpu = "recv") /\ statetag = "SUCCESS" =>
    cmdop = "QUIRYREADER" /\ tagdata = <<cmdval, cmdval>>

\* Whatever is called meanwhile, opcode and value of an accepted command
\* stay as they are until the bus has been given back.
CommandBodyStable == [][Involved(Car) => UNCHANGED <<cmdop, cmdval>>]_vars

\* No accepted command blocks the driver for ever: not a reader that stays
\* silent, not a command refused in between, not a radio that uses the bus.
CommandCompletes == isSend ~> ~isSend

Phase == IF ~isSend THEN "ready" ELSE IF cpu = "recv" THEN "signalled" ELSE "working"

Reported == IF Phase = "signalled" /\ statetag = "SUCCESS" THEN tagdata ELSE << >>

Port == INSTANCE CommandPort WITH phase <- Phase, op <- cmdop, val <- cmdval,
                                  result <- Reported

\* The driver keeps its promise to the application: readDone comes at most
\* once per accepted command, with the data of the tag asked for or with none,
\* and the command then finishes.
ImplementsPort == Port!PortSpec

----------------------------------------------------------------------------
(* The inductive invariant behind the safety properties above, for a good  *)
(* reader.  It follows one tenure of the bus through its stages.           *)

ReceiverFresh == /\ ~isUartDataOk /\ rcvSyncDataSum = 0
                 /\ recdata = << >> /\ ~isBufFull

\* One stage at a time: waiting for the answer, result found, reporting.
OneStage == /\ timer1 => ~recvTask /\ cpu = "idle"
            /\ recvTask => cpu = "idle"

\* The reader is silent unless Timer1 runs, and it starts its one answer on
\* a receiver that has not seen a byte since it was reset.
ReaderInTime == /\ ~timer1 => asked = NoTag /\ answer = << >>
                /\ asked # NoTag => answer = << >> /\ ReceiverFresh
                /\ ~timer1 /\ ~recvTask /\ cpu # "fired" => ReceiverFresh

\* Bytes received and bytes to come never exceed one answer, so the buffer is
\* full with the last byte at the earliest.
ReceptionBounded ==
  /\ ~isUartDataOk => recdata = << >>
  /\ isUartDataOk => rcvSyncDataSum = SYNC_DATA_SUM
  /\ timer1 => /\ ~isBufFull
               /\ Len(recdata) < MAX_DATA
               /\ isUartDataOk => Len(recdata) + Len(answer) <= MAX_DATA
               /\ ~isUartDataOk =>
                    rcvSyncDataSum + Len(answer) <= SYNC_DATA_SUM + MAX_DATA

DriverInv == /\ TypeOK /\ ArbInv
             /\ SendFlagMatchesBus
             /\ ReadingWithinTenure
             /\ OneStage
             /\ ReaderInTime
             /\ ReceptionBounded

\* What the bytes of an answer are made of, from the query to the buffer.
\* Heard counts the bytes that have arrived.  Sync bytes come first and only
\* there; a receiver that lost the answer can therefore not find it again.
HEADER == 2
Heard == SYNC_DATA_SUM + MAX_DATA - Len(answer)

AnswerOfQueriedTag ==
  /\ asked # NoTag => cmdop = "QUIRYREADER" /\ asked = cmdval
  /\ answer # << >> => cmdop = "QUIRYREADER"
  /\ \A i \in 1 .. Len(answer) :
       /\ (answer[i] = "ff") <=> (Heard + i <= SYNC_DATA_SUM)
       /\ Heard + i > SYNC_DATA_SUM + HEADER => answer[i] = cmdval
  /\ answer # << >> /\ ~isUartDataOk =>
       Heard >= SYNC_DATA_SUM \/ rcvSyncDataSum = Heard
  /\ timer1 /\ isUartDataOk =>
       /\ cmdop = "QUIRYREADER"
       /\ Len(recdata) + Len(answer) = MAX_DATA
       /\ \A i \in 1 .. Len(recdata) : i > HEADER => recdata[i] = cmdval

ReadingInv == DriverInv /\ AnswerOfQueriedTag /\ ReadingIsOfQueriedTag
=============================================================================
