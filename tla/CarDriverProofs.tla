-------------------------- MODULE CarDriverProofs --------------------------
(***************************************************************************)
(* Proofs about the car driver, for any set of bus clients, tags and       *)
(* values, with a good reader: the command lock matches the bus, readings  *)
(* stay within one tenure of the bus, accepted commands are not            *)
(* overwritten, and the driver implements its port.  At the end, with any  *)
(* reader: an accepted command is never left without a next step.          *)
(***************************************************************************)
EXTENDS CarDriver, Uart0ArbiterProofs, SequenceTheorems

\* The driver starts in its invariant.
LEMMA DriverInitInv == Init => DriverInv
<1> SUFFICES ASSUME Init PROVE DriverInv
  OBVIOUS
<1>1. ArbInv
  BY ArbInitInv DEF Init
<1>2. << >> \in Seq(Byte) /\ NoData \in Byte \X Byte
  BY DEF NoData, Byte
<1>3. TypeOK
  <2>1. cmdop \in SevenByteOps /\ cmdop \in Ops /\ cmdval \in CmdVals /\ cmdop # "QUIRYREADER"
    BY DEF Init, DriverInit, Ops, SevenByteOps, CmdVals
  <2>2. rcvSyncDataSum \in 0 .. SYNC_CAP
    BY DEF Init, DriverInit, SYNC_CAP, SYNC_DATA_SUM
  <2>3. recdata \in Seq(Byte) /\ answer \in Seq(Byte) /\ tagdata \in Byte \X Byte
    BY <1>2 DEF Init, DriverInit
  <2> QED
    BY <1>1, <2>1, <2>2, <2>3 DEF Init, DriverInit, TypeOK, ArbInv
<1>4. ~Involved(Car)
  BY DEF Init, ArbInit, Involved, Owner, Queued, Promised
<1>5. SendFlagMatchesBus /\ ReadingWithinTenure /\ OneStage /\ ReaderInTime
  BY <1>4 DEF Init, DriverInit, SendFlagMatchesBus, ReadingWithinTenure, OneStage,
              ReaderInTime, ReceiverFresh
<1>6. ReceptionBounded
  BY DEF Init, DriverInit, ReceptionBounded
<1> QED
  BY <1>1, <1>3, <1>5, <1>6 DEF DriverInv

\* A step that leaves the arbiter alone leaves the driver's claim to the bus.
LEMMA BusUnchanged ==
  ASSUME ArbInv, UNCHANGED arbVars
  PROVE  /\ ArbInv'
         /\ Involved(Car)' <=> Involved(Car)
         /\ Owner(Car)' <=> Owner(Car)
  BY DEF arbVars, ArbInv, ArbTypeOK, TaskMatchesState, IdleMeansNobodyWaits,
         OwnerIsClient, ServedOnce, Involved, Owner, Queued, Promised

----------------------------------------------------------------------------
(* Commands.                                                               *)

\* An accepted command takes the lock and the driver's place in line together.
LEMMA AcceptInv ==
  ASSUME DriverInv, cpu = "idle", NEW op \in Ops, NEW v \in CmdVals,
         op = "QUIRYREADER" => v \in Tags, AcceptCommand(op, v),
         cmdlength' \in {QUERY_LENGTH, CMD_LENTH},
         UNCHANGED <<isStart, resultVars, timer1, cpu, readerVars>>
  PROVE  DriverInv'
<1> USE DriverAssumption
<1>1. ~Involved(Car) /\ Request(Car) /\ isSend'
  BY DEF AcceptCommand, Accepts, DriverInv, SendFlagMatchesBus
<1>2. /\ ArbInv'
      /\ Involved(Car)'
      /\ Owner(Car)' <=> Owner(Car)
  BY <1>1, RequestInv, RequestInvolves DEF DriverInv
<1>3. TypeOK'
  BY <1>2 DEF DriverInv, TypeOK, ArbInv, AcceptCommand, resultVars, readerVars, rxVars
<1>4. SendFlagMatchesBus' /\ ReadingWithinTenure'
  BY <1>1, <1>2 DEF DriverInv, SendFlagMatchesBus, ReadingWithinTenure, resultVars
<1>5. OneStage' /\ ReaderInTime' /\ ReceptionBounded'
  BY DEF DriverInv, OneStage, ReaderInTime, ReceiverFresh, ReceptionBounded,
         AcceptCommand, resultVars, readerVars, rxVars
<1> QED
  BY <1>2, <1>3, <1>4, <1>5 DEF DriverInv

\* A refused command leaves lock, bus and reception consistent, also when it
\* is a query and drops what has been received.
LEMMA RefuseInv ==
  ASSUME DriverInv, cpu = "idle", RefuseCommand, UNCHANGED rxVars \/ DropReception,
         cmdlength' \in {QUERY_LENGTH, CMD_LENTH},
         UNCHANGED <<isStart, resultVars, timer1, cpu, readerVars>>
  PROVE  DriverInv'
<1> USE DriverAssumption
<1>1. /\ UNCHANGED <<isStart, isSend, cmdop, cmdval, statetag, tagdata, recvTask,
                     timer1, cpu, asked, answer, rcvSyncDataSum>>
      /\ UNCHANGED arbVars
      /\ \/ UNCHANGED <<isUartDataOk, recdata, isBufFull>>
         \/ ~isUartDataOk' /\ recdata' = << >> /\ ~isBufFull' /\ isBufFull' \in BOOLEAN
            /\ isUartDataOk' \in BOOLEAN
  BY DEF RefuseCommand, DropReception, resultVars, readerVars, rxVars
<1>2. /\ ArbInv'
      /\ Involved(Car)' <=> Involved(Car)
      /\ Owner(Car)' <=> Owner(Car)
  BY <1>1, BusUnchanged DEF DriverInv
<1>3. << >> \in Seq(Byte)
  OBVIOUS
<1>4. TypeOK'
  BY <1>1, <1>2, <1>3 DEF DriverInv, TypeOK, ArbInv
<1>5. SendFlagMatchesBus' /\ ReadingWithinTenure' /\ OneStage'
  BY <1>1, <1>2 DEF DriverInv, SendFlagMatchesBus, ReadingWithinTenure, OneStage
<1>6. ReaderInTime'
  BY <1>1 DEF DriverInv, ReaderInTime, ReceiverFresh
<1>7. ReceptionBounded'
  <2>1. CASE UNCHANGED <<isUartDataOk, recdata, isBufFull>>
    BY <1>1, <2>1 DEF DriverInv, ReceptionBounded
  <2>2. CASE ~isUartDataOk' /\ recdata' = << >> /\ ~isBufFull'
    <3>1. Len(answer) \in Nat /\ Len(recdata) \in Nat /\ Len(recdata') = 0
      BY <2>2 DEF DriverInv, TypeOK
    <3> QED
      BY <1>1, <2>2, <3>1 DEF DriverInv, ReceptionBounded, SYNC_DATA_SUM
  <2> QED
    BY <1>1, <2>1, <2>2
<1> QED
  BY <1>2, <1>4, <1>5, <1>6, <1>7 DEF DriverInv

\* Every command of the Car interface keeps the invariant.
LEMMA CommandInv ==
  ASSUME DriverInv, cpu = "idle", Command
  PROVE  DriverInv'
<1>1. ASSUME NEW op \in SevenByteOps, NEW v \in CmdVals, SevenByteCommand(op, v)
      PROVE  DriverInv'
  BY <1>1, AcceptInv, RefuseInv DEF SevenByteCommand, Ops, SevenByteOps
<1>2. ASSUME NEW t \in Tags, QuiryReader(t) PROVE DriverInv'
  BY <1>2, AcceptInv, RefuseInv DEF QuiryReader, Ops, CmdVals
<1>3. ASSUME NEW v \in Values,
             \/ Angle(v) \/ Forward(v) \/ Back(v) \/ InitMaxSpeed(v) \/ InitMinSpeed(v)
             \/ InitLeftServo(v) \/ InitRightServo(v) \/ InitMidServo(v)
      PROVE  \E op \in SevenByteOps : SevenByteCommand(op, v)
  BY <1>3 DEF Angle, Forward, Back, InitMaxSpeed, InitMinSpeed, InitLeftServo,
              InitRightServo, InitMidServo, SevenByteOps
<1>4. CASE Pause
  BY <1>4, <1>1 DEF Pause, SevenByteOps, CmdVals
<1> QED
  BY <1>1, <1>2, <1>3, <1>4 DEF Command, CmdVals

\* CarControl.start and the stop of an idle driver keep the invariant.
LEMMA StartStopInv ==
  ASSUME DriverInv, StartDriver \/ (~isSend /\ StopDriver)
  PROVE  DriverInv'
<1>1. /\ UNCHANGED <<isSend, cmdlength, cmdop, cmdval, rxVars, resultVars, timer1,
                     cpu, readerVars>>
      /\ UNCHANGED arbVars
      /\ isStart' \in BOOLEAN
  BY DEF StartDriver, StopDriver, DriverInv, TypeOK
<1>2. /\ ArbInv'
      /\ Involved(Car)' <=> Involved(Car)
      /\ Owner(Car)' <=> Owner(Car)
  BY <1>1, BusUnchanged DEF DriverInv
<1>3. TypeOK'
  BY <1>1, <1>2 DEF DriverInv, TypeOK, ArbInv, rxVars, resultVars, readerVars
<1> QED
  BY <1>1, <1>2, <1>3
  DEF DriverInv, SendFlagMatchesBus, ReadingWithinTenure, OneStage, ReaderInTime,
      ReceiverFresh, ReceptionBounded, rxVars, resultVars, readerVars

----------------------------------------------------------------------------
(* granted.                                                                *)

\* The driver is granted the bus only while it holds its command lock.
LEMMA GrantCarInv ==
  ASSUME DriverInv, GrantCar
  PROVE  DriverInv'
<1> USE DriverAssumption
<1>1. /\ ArbInv' /\ Owner(Car)' /\ ~Owner(Car)
      /\ Involved(Car)' <=> Involved(Car)
  BY GrantedTaskInv, GrantedTaskInvolves DEF GrantCar, DriverInv
<1>2. ~timer1 /\ ~recvTask
  BY <1>1 DEF DriverInv, ReadingWithinTenure
<1>3. TypeOK'
  BY <1>1 DEF GrantCar, DriverInv, TypeOK, ArbInv, cmdVars, rxVars, resultVars, readerVars
<1>4. SendFlagMatchesBus' /\ ReadingWithinTenure'
  BY <1>1 DEF GrantCar, DriverInv, SendFlagMatchesBus, ReadingWithinTenure, cmdVars
<1>5. OneStage' /\ ReaderInTime' /\ ReceptionBounded'
  BY <1>2 DEF GrantCar, DriverInv, OneStage, ReaderInTime, ReceiverFresh,
              ReceptionBounded, rxVars, resultVars, readerVars
<1> QED
  BY <1>1, <1>3, <1>4, <1>5 DEF DriverInv

\* A query is sent to a reader that is silent, with a receiver that is fresh.
LEMMA GrantedQueryInv ==
  ASSUME DriverInv, GoodReader, GrantedQuery
  PROVE  DriverInv'
<1> USE DriverAssumption
<1>1. /\ ArbInv'
      /\ Involved(Car)' <=> Involved(Car)
      /\ Owner(Car)' <=> Owner(Car)
  BY BusUnchanged DEF GrantedQuery, DriverInv
<1>2. ~timer1 /\ ~recvTask /\ ReceiverFresh /\ asked = NoTag /\ answer = << >>
  BY DEF GrantedQuery, DriverInv, OneStage, ReaderInTime
<1>3. asked' \in Tags \cup {NoTag}
  BY DEF GrantedQuery, ReaderHears, DriverInv, TypeOK
<1>4. TypeOK'
  BY <1>1, <1>3 DEF GrantedQuery, DriverInv, TypeOK, ArbInv, cmdVars, rxVars, resultVars
<1>5. SendFlagMatchesBus' /\ ReadingWithinTenure'
  BY <1>1 DEF GrantedQuery, DriverInv, SendFlagMatchesBus, ReadingWithinTenure, cmdVars
<1>6. OneStage' /\ ReaderInTime'
  BY <1>2 DEF GrantedQuery, DriverInv, OneStage, ReaderInTime, ReceiverFresh,
              rxVars, resultVars
<1>7. ReceptionBounded'
  BY <1>2 DEF GrantedQuery, ReceptionBounded, ReceiverFresh, rxVars, SYNC_DATA_SUM
<1> QED
  BY <1>1, <1>4, <1>5, <1>6, <1>7 DEF DriverInv

\* After a servo or motor command lock and bus are given back together.
LEMMA GrantedDriveInv ==
  ASSUME DriverInv, GoodReader, GrantedDrive
  PROVE  DriverInv'
<1> USE DriverAssumption
<1>1. Owner(Car) /\ Release(Car)
  BY DEF GrantedDrive, DriverInv, ReadingWithinTenure
<1>2. ArbInv' /\ ~Involved(Car)' /\ ~isSend'
  BY <1>1, ReleaseInv, ReleaseInvolves DEF DriverInv, GrantedDrive
<1>3. ~timer1 /\ ~recvTask /\ ReceiverFresh /\ asked' = NoTag /\ answer = << >>
  BY DEF GrantedDrive, ReaderHears, DriverInv, OneStage, ReaderInTime
<1>4. TypeOK'
  BY <1>2, <1>3 DEF GrantedDrive, DriverInv, TypeOK, ArbInv, rxVars, resultVars
<1>5. SendFlagMatchesBus' /\ ReadingWithinTenure'
  BY <1>2, <1>3 DEF GrantedDrive, SendFlagMatchesBus, ReadingWithinTenure, resultVars
<1>6. OneStage' /\ ReaderInTime' /\ ReceptionBounded'
  BY <1>3 DEF GrantedDrive, DriverInv, OneStage, ReaderInTime, ReceiverFresh,
              ReceptionBounded, rxVars, resultVars
<1> QED
  BY <1>2, <1>4, <1>5, <1>6 DEF DriverInv

----------------------------------------------------------------------------
(* The reader and the receive interrupt.                                   *)

\* An answer has the two sync bytes and the MAX_DATA bytes of the buffer.
LEMMA AnswerShape ==
  ASSUME NEW t \in Tags, NEW read \in BOOLEAN
  PROVE  /\ Answer(t, read) \in Seq(Byte)
         /\ Len(Answer(t, read)) = SYNC_DATA_SUM + MAX_DATA
<1>1. SYNC_DATA_SUM + MAX_DATA \in Nat
  BY DriverAssumption DEF SYNC_DATA_SUM
<1> DEFINE h == IF read THEN "zero" ELSE t
           a == [i \in 1 .. SYNC_DATA_SUM + MAX_DATA |->
                   IF i <= 2 THEN "ff" ELSE IF i <= 4 THEN h ELSE t]
<1>2. \A i \in 1 .. SYNC_DATA_SUM + MAX_DATA :
        (IF i <= 2 THEN "ff" ELSE IF i <= 4 THEN h ELSE t) \in Byte
  BY DEF Byte
<1>3. a \in [1 .. SYNC_DATA_SUM + MAX_DATA -> Byte]
  BY <1>2
<1>4. a \in Seq(Byte) /\ Len(a) = SYNC_DATA_SUM + MAX_DATA
  BY <1>1, <1>3
<1> QED
  BY <1>4 DEF Answer

\* The answer starts on a fresh receiver.
LEMMA ReaderAnswersInv ==
  ASSUME DriverInv, GoodReader, ReaderAnswers
  PROVE  DriverInv'
<1> USE DriverAssumption
<1>1. /\ ArbInv'
      /\ Involved(Car)' <=> Involved(Car)
      /\ Owner(Car)' <=> Owner(Car)
  BY BusUnchanged DEF ReaderAnswers, DriverInv
<1>2. /\ answer' \in Seq(Byte)
      /\ Len(answer') = SYNC_DATA_SUM + MAX_DATA
      /\ asked' = NoTag
  BY AnswerShape DEF ReaderAnswers, DriverInv, TypeOK
<1>3. timer1 /\ ReceiverFresh
  BY DEF ReaderAnswers, DriverInv, ReaderInTime
<1>4. TypeOK'
  BY <1>1, <1>2 DEF ReaderAnswers, DriverInv, TypeOK, ArbInv, cmdVars, rxVars, resultVars
<1>5. SendFlagMatchesBus' /\ ReadingWithinTenure' /\ OneStage'
  BY <1>1 DEF ReaderAnswers, DriverInv, SendFlagMatchesBus, ReadingWithinTenure, OneStage,
              cmdVars, resultVars
<1>6. ReaderInTime'
  BY <1>2, <1>3 DEF ReaderAnswers, ReaderInTime, ReceiverFresh, rxVars, resultVars
<1>7. ReceptionBounded'
  BY <1>2, <1>3 DEF ReaderAnswers, ReceptionBounded, ReceiverFresh, rxVars, SYNC_DATA_SUM
<1> QED
  BY <1>1, <1>4, <1>5, <1>6, <1>7 DEF DriverInv

\* A received byte keeps the invariant: the buffer is full with the last byte
\* of the answer at the earliest, and only then Timer1 is stopped.
LEMMA RxDoneInv ==
  ASSUME DriverInv, GoodReader, RxDone
  PROVE  DriverInv'
<1> USE DriverAssumption
<1> DEFINE b == Head(answer)
<1>1. /\ ArbInv'
      /\ Involved(Car)' <=> Involved(Car)
      /\ Owner(Car)' <=> Owner(Car)
  BY BusUnchanged DEF RxDone, DriverInv
<1>2. /\ answer \in Seq(Byte) /\ answer # << >>
      /\ answer' = Tail(answer)
  BY DEF RxDone, DriverInv, TypeOK
<1>3. /\ b \in Byte /\ answer' \in Seq(Byte)
      /\ Len(answer) \in Nat /\ Len(answer) > 0
      /\ Len(answer') = Len(answer) - 1
      /\ Len(answer) = 1 => answer' = << >>
  BY <1>2
<1>4. /\ timer1 /\ Owner(Car) /\ asked = NoTag /\ ~recvTask /\ cpu = "idle"
      /\ ~isBufFull
      /\ Len(recdata) \in Nat /\ Len(recdata) < MAX_DATA /\ recdata \in Seq(Byte)
      /\ isUartDataOk => Len(recdata) + Len(answer) <= MAX_DATA
      /\ ~isUartDataOk => rcvSyncDataSum + Len(answer) <= SYNC_DATA_SUM + MAX_DATA
      /\ rcvSyncDataSum \in 0 .. SYNC_CAP
  BY <1>2 DEF DriverInv, TypeOK, ReaderInTime, OneStage, ReadingWithinTenure,
              ReceptionBounded
<1>5. UNCHANGED <<cmdVars, cpu, asked, arbVars>>
  BY DEF RxDone
<1>6. CASE RxSync(b)
  <2>1. /\ UNCHANGED <<isBufFull, statetag, tagdata, recvTask, timer1>>
        /\ ~isUartDataOk /\ recdata = << >>
        /\ rcvSyncDataSum' \in 0 .. SYNC_CAP
        /\ isUartDataOk' \in BOOLEAN
        /\ recdata' = << >>
    <3>1. ~isUartDataOk /\ recdata = << >> /\ isUartDataOk \in BOOLEAN
      BY <1>6 DEF RxSync, DriverInv, ReceptionBounded, TypeOK
    <3>2. rcvSyncDataSum' \in 0 .. SYNC_CAP
      BY <1>4, <1>6 DEF RxSync, SYNC_CAP, SYNC_DATA_SUM
    <3>3. isUartDataOk' \in BOOLEAN /\ recdata' = << >>
      BY <1>6, <3>1 DEF RxSync
    <3> QED
      BY <1>6, <3>1, <3>2, <3>3 DEF RxSync, resultVars
  <2>2. /\ isUartDataOk' => rcvSyncDataSum' = SYNC_DATA_SUM
        /\ isUartDataOk' => Len(answer) <= MAX_DATA + 1
        /\ ~isUartDataOk' => rcvSyncDataSum' + Len(answer) - 1 <= SYNC_DATA_SUM + MAX_DATA
    BY <1>3, <1>4, <1>6 DEF RxSync, SYNC_CAP, SYNC_DATA_SUM
  <2>3. << >> \in Seq(Byte) /\ Len(recdata') = 0
    BY <2>1
  <2>4. TypeOK'
    BY <1>1, <1>3, <1>5, <2>1, <2>3 DEF DriverInv, TypeOK, ArbInv, cmdVars
  <2>5. SendFlagMatchesBus' /\ ReadingWithinTenure' /\ OneStage'
    BY <1>1, <1>5, <2>1 DEF DriverInv, SendFlagMatchesBus, ReadingWithinTenure, OneStage, cmdVars
  <2>6. ReaderInTime'
    BY <1>4, <1>5, <2>1 DEF ReaderInTime
  <2>7. ReceptionBounded'
    BY <1>3, <1>4, <2>1, <2>2, <2>3 DEF ReceptionBounded, SYNC_DATA_SUM
  <2> QED
    BY <1>1, <2>4, <2>5, <2>6, <2>7 DEF DriverInv
<1>7. CASE RxPayload(b) /\ Len(recdata) + 1 < MAX_DATA
  <2>1. /\ UNCHANGED <<isBufFull, statetag, tagdata, recvTask, timer1>>
        /\ UNCHANGED <<isUartDataOk, rcvSyncDataSum>>
        /\ isUartDataOk
        /\ recdata' = Append(recdata, b)
    BY <1>7 DEF RxPayload, resultVars
  <2>2. recdata' \in Seq(Byte) /\ Len(recdata') = Len(recdata) + 1
    BY <1>3, <1>4, <2>1
  <2>4. TypeOK'
    BY <1>1, <1>3, <1>5, <2>1, <2>2 DEF DriverInv, TypeOK, ArbInv, cmdVars
  <2>5. SendFlagMatchesBus' /\ ReadingWithinTenure' /\ OneStage'
    BY <1>1, <1>5, <2>1 DEF DriverInv, SendFlagMatchesBus, ReadingWithinTenure, OneStage, cmdVars
  <2>6. ReaderInTime'
    BY <1>4, <1>5, <2>1 DEF ReaderInTime
  <2>7. ReceptionBounded'
    BY <1>3, <1>4, <1>7, <2>1, <2>2 DEF ReceptionBounded, DriverInv
  <2> QED
    BY <1>1, <2>4, <2>5, <2>6, <2>7 DEF DriverInv
<1>8. CASE RxPayload(b) /\ ~(Len(recdata) + 1 < MAX_DATA)
  <2>1. /\ recdata' = Append(recdata, b)
        /\ isBufFull' = TRUE /\ timer1' = FALSE /\ recvTask' = TRUE
        /\ UNCHANGED <<isUartDataOk, rcvSyncDataSum>>
        /\ isUartDataOk
        /\ statetag' \in {"SUCCESS", "FAIL"}
        /\ tagdata' = <<recdata'[MAX_DATA - 1], recdata'[MAX_DATA]>> \/ tagdata' = tagdata
    BY <1>8 DEF RxPayload
  <2>2. recdata' \in Seq(Byte) /\ Len(recdata') = MAX_DATA
    BY <1>3, <1>4, <1>8, <2>1
  <2>3. tagdata' \in Byte \X Byte
    <3>1. recdata'[MAX_DATA - 1] \in Byte /\ recdata'[MAX_DATA] \in Byte
      <4>1. MAX_DATA \in 1 .. Len(recdata') /\ MAX_DATA - 1 \in 1 .. Len(recdata')
        BY <2>2
      <4> QED
        BY <2>2, <4>1, ElementOfSeq
    <3>2. <<recdata'[MAX_DATA - 1], recdata'[MAX_DATA]>> \in Byte \X Byte
      BY <3>1
    <3>3. tagdata \in Byte \X Byte
      BY DEF DriverInv, TypeOK
    <3> QED
      BY <2>1, <3>2, <3>3
  <2>4. answer' = << >>
    BY <1>3, <1>4, <1>8, <2>1
  <2>5. TypeOK'
    BY <1>1, <1>3, <1>5, <2>1, <2>2, <2>3 DEF DriverInv, TypeOK, ArbInv, cmdVars
  <2>6. SendFlagMatchesBus' /\ ReadingWithinTenure' /\ OneStage'
    BY <1>1, <1>4, <1>5, <2>1 DEF DriverInv, SendFlagMatchesBus, ReadingWithinTenure, OneStage,
                                  cmdVars
  <2>7. ReaderInTime' /\ ReceptionBounded'
    BY <1>4, <1>5, <2>1, <2>4 DEF ReaderInTime, ReceptionBounded, DriverInv
  <2> QED
    BY <1>1, <2>5, <2>6, <2>7 DEF DriverInv
<1>9. ~RxIgnored
  BY <1>4 DEF RxIgnored
<1> QED
  BY <1>6, <1>7, <1>8, <1>9 DEF RxDone

----------------------------------------------------------------------------
(* Timer1 and recvTask.                                                    *)

\* The timeout silences a good reader and leaves only the report to come.
LEMMA TimeoutInv ==
  ASSUME DriverInv, GoodReader, Timer1Expires \/ Timer1Fired
  PROVE  DriverInv'
<1> USE DriverAssumption
<1>1. /\ ArbInv'
      /\ Involved(Car)' <=> Involved(Car)
      /\ Owner(Car)' <=> Owner(Car)
  BY BusUnchanged DEF Timer1Expires, Timer1Fired, DriverInv
<1>2. CASE Timer1Expires
  <2>1. TypeOK'
    BY <1>1, <1>2 DEF Timer1Expires, DriverInv, TypeOK, ArbInv, cmdVars, rxVars, resultVars
  <2>2. SendFlagMatchesBus' /\ ReadingWithinTenure' /\ OneStage' /\ ReaderInTime'
    BY <1>1, <1>2 DEF Timer1Expires, DriverInv, SendFlagMatchesBus, ReadingWithinTenure,
                      OneStage, ReaderInTime, cmdVars, resultVars
  <2>3. ReceptionBounded'
    BY <1>2 DEF Timer1Expires, DriverInv, ReceptionBounded, rxVars
  <2> QED
    BY <1>1, <2>1, <2>2, <2>3 DEF DriverInv
<1>3. CASE Timer1Fired
  <2>1. Owner(Car) /\ ~timer1
    BY <1>3 DEF Timer1Fired, DriverInv, ReadingWithinTenure, OneStage
  <2>2. TypeOK'
    BY <1>1, <1>3 DEF Timer1Fired, DriverInv, TypeOK, ArbInv, cmdVars, rxVars, readerVars
  <2>3. SendFlagMatchesBus' /\ ReadingWithinTenure' /\ OneStage' /\ ReaderInTime'
    BY <1>1, <1>3, <2>1 DEF Timer1Fired, DriverInv, SendFlagMatchesBus, ReadingWithinTenure,
                      OneStage, ReaderInTime, cmdVars, readerVars
  <2>4. ReceptionBounded'
    BY <1>3, <2>1 DEF Timer1Fired, DriverInv, ReceptionBounded, rxVars
  <2> QED
    BY <1>1, <2>2, <2>3, <2>4 DEF DriverInv
<1> QED
  BY <1>2, <1>3

\* recvTask resets the receiver before it reports ...
LEMMA ReadDoneInv ==
  ASSUME DriverInv, GoodReader, ReadDone
  PROVE  DriverInv'
<1> USE DriverAssumption
<1>1. /\ ArbInv'
      /\ Involved(Car)' <=> Involved(Car)
      /\ Owner(Car)' <=> Owner(Car)
  BY BusUnchanged DEF ReadDone, DriverInv
<1>2. Owner(Car) /\ ~timer1 /\ asked = NoTag /\ answer = << >>
  BY DEF ReadDone, DriverInv, ReadingWithinTenure, OneStage, ReaderInTime
<1>3. << >> \in Seq(Byte) /\ 0 \in 0 .. SYNC_CAP
  BY DEF SYNC_CAP, SYNC_DATA_SUM
<1>4. TypeOK'
  BY <1>1, <1>3 DEF ReadDone, DriverInv, TypeOK, ArbInv, cmdVars, readerVars
<1>5. SendFlagMatchesBus' /\ ReadingWithinTenure' /\ OneStage' /\ ReaderInTime'
  BY <1>1, <1>2 DEF ReadDone, DriverInv, SendFlagMatchesBus, ReadingWithinTenure,
                    OneStage, ReaderInTime, ReceiverFresh, cmdVars, readerVars
<1>6. ReceptionBounded'
  BY DEF ReadDone, ReceptionBounded
<1> QED
  BY <1>1, <1>4, <1>5, <1>6 DEF DriverInv

\* ... and then gives lock and bus back together.
LEMMA RecvTaskEndsInv ==
  ASSUME DriverInv, GoodReader, RecvTaskEnds
  PROVE  DriverInv'
<1> USE DriverAssumption
<1>1. Owner(Car) /\ Release(Car)
  BY DEF RecvTaskEnds, DriverInv, ReadingWithinTenure
<1>2. ArbInv' /\ ~Involved(Car)' /\ ~isSend'
  BY <1>1, ReleaseInv, ReleaseInvolves DEF DriverInv, RecvTaskEnds
<1>3. ~timer1 /\ ~recvTask /\ ReceiverFresh /\ asked = NoTag /\ answer = << >>
  BY DEF RecvTaskEnds, DriverInv, OneStage, ReaderInTime
<1>4. TypeOK'
  BY <1>2, <1>3 DEF RecvTaskEnds, DriverInv, TypeOK, ArbInv, rxVars, resultVars, readerVars
<1>5. SendFlagMatchesBus' /\ ReadingWithinTenure'
  BY <1>2, <1>3 DEF RecvTaskEnds, SendFlagMatchesBus, ReadingWithinTenure, resultVars
<1>6. OneStage' /\ ReaderInTime' /\ ReceptionBounded'
  BY <1>3 DEF RecvTaskEnds, DriverInv, OneStage, ReaderInTime, ReceiverFresh,
              ReceptionBounded, rxVars, resultVars, readerVars
<1> QED
  BY <1>2, <1>4, <1>5, <1>6 DEF DriverInv

----------------------------------------------------------------------------
(* The other clients of the bus, and the theorems.                         *)

\* The radio may ask for the bus, take it at once or give it back at any
\* time: the driver's claim does not change, and it loses nothing it owns.
LEMMA BusStepInv ==
  ASSUME DriverInv, BusStep
  PROVE  DriverInv'
<1> USE DriverAssumption
<1>1. UNCHANGED driverVars
  BY DEF BusStep
<1>2. PICK c \in Clients \ {Car} : OtherClient(c) \/ OtherGranted(c)
  BY DEF BusStep
<1>3. ArbInv /\ c \in Clients /\ Car \in Clients /\ Car # c
  BY DEF DriverInv
<1>4. /\ ArbInv'
      /\ Involved(Car)' <=> Involved(Car)
      /\ Owner(Car) => Owner(Car)'
  <2>1. CASE ClientRequests(c)
    BY <1>3, <2>1, RequestInv, RequestInvolves DEF ClientRequests
  <2>2. CASE ClientTriesAtOnce(c)
    BY <1>3, <2>2, ImmediateRequestInv, ImmediateRequestInvolves DEF ClientTriesAtOnce
  <2>3. CASE ClientReleases(c)
    BY <1>3, <2>3, ReleaseInv, ReleaseInvolves DEF ClientReleases
  <2>4. CASE OtherGranted(c)
    BY <1>3, <2>4, GrantedTaskInv, GrantedTaskInvolves DEF OtherGranted
  <2> QED
    BY <1>2, <2>1, <2>2, <2>3, <2>4 DEF OtherClient
<1>5. TypeOK'
  BY <1>1, <1>4 DEF DriverInv, TypeOK, ArbInv, driverVars, cmdVars, rxVars, resultVars, readerVars
<1>6. SendFlagMatchesBus' /\ ReadingWithinTenure'
  BY <1>1, <1>4 DEF DriverInv, SendFlagMatchesBus, ReadingWithinTenure, driverVars, cmdVars,
                    resultVars
<1>7. OneStage' /\ ReaderInTime' /\ ReceptionBounded'
  BY <1>1 DEF DriverInv, OneStage, ReaderInTime, ReceiverFresh, ReceptionBounded, driverVars,
              rxVars, resultVars, readerVars
<1> QED
  BY <1>4, <1>5, <1>6, <1>7 DEF DriverInv

\* A stuttering step keeps the invariant.
LEMMA StutterInv ==
  ASSUME DriverInv, UNCHANGED vars
  PROVE  DriverInv'
<1>1. /\ ArbInv'
      /\ Involved(Car)' <=> Involved(Car)
      /\ Owner(Car)' <=> Owner(Car)
  BY BusUnchanged DEF DriverInv, vars
<1>2. TypeOK'
  BY <1>1 DEF DriverInv, TypeOK, ArbInv, vars, driverVars, cmdVars, rxVars, resultVars, readerVars
<1> QED
  BY <1>1, <1>2
  DEF DriverInv, SendFlagMatchesBus, ReadingWithinTenure, OneStage, ReaderInTime,
      ReceiverFresh, ReceptionBounded, vars, driverVars, cmdVars, rxVars, resultVars, readerVars

\* Every step of the driver, its reader and its bus keeps the invariant.
LEMMA NextInv ==
  ASSUME DriverInv, GoodReader, [Next]_vars
  PROVE  DriverInv'
<1>1. CASE Caller
  BY <1>1, CommandInv, StartStopInv DEF Caller
<1>2. CASE DriverTask
  BY <1>2, GrantCarInv, GrantedQueryInv, GrantedDriveInv, TimeoutInv, ReadDoneInv,
     RecvTaskEndsInv DEF DriverTask
<1>3. CASE Timer1Expires \/ RxDone \/ ReaderAnswers \/ BusStep \/ UNCHANGED vars
  BY <1>3, TimeoutInv, RxDoneInv, ReaderAnswersInv, BusStepInv, StutterInv
<1> QED
  BY <1>1, <1>2, <1>3 DEF Next

\* With a good reader the inductive invariant holds, for any number of bus
\* clients, tags and values and any length of the answer.
THEOREM DriverInvariant == GoodReader => (Spec => []DriverInv)
<1> SUFFICES ASSUME GoodReader PROVE Spec => []DriverInv
  OBVIOUS
<1>1. Init => DriverInv
  BY DriverInitInv
<1>2. DriverInv /\ [Next]_vars => DriverInv'
  BY NextInv
<1> QED
  BY <1>1, <1>2, PTL DEF Spec

\* The command lock is set exactly while the driver has a claim to the bus.
THEOREM LockMatchesBus == GoodReader => (Spec => []SendFlagMatchesBus)
<1>1. DriverInv => SendFlagMatchesBus
  BY DEF DriverInv
<1> QED
  BY <1>1, DriverInvariant, PTL

\* Timer1, recvTask and readDone happen only while the driver owns the bus.
THEOREM ReadingNeedsBus == GoodReader => (Spec => []ReadingWithinTenure)
<1>1. DriverInv => ReadingWithinTenure
  BY DEF DriverInv
<1> QED
  BY <1>1, DriverInvariant, PTL

\* What each step does to the lock and to the command buffer.
LEMMA LockSteps ==
  ASSUME DriverInv, GoodReader, [Next]_vars
  PROVE  \/ /\ UNCHANGED <<isSend, cpu, cmdop, cmdval>>
            /\ cpu = "recv" => UNCHANGED <<statetag, tagdata>>
         \/ UNCHANGED <<isSend, cmdop, cmdval>> /\ cpu # "recv" /\ cpu' # "recv"
         \/ ~isSend /\ isSend' /\ cpu' = cpu /\ cpu = "idle"
         \/ ~isSend /\ ~isSend' /\ UNCHANGED <<cmdop, cmdval>>
         \/ isSend /\ isSend' /\ cpu = "idle" /\ cpu' = "recv" /\ UNCHANGED <<cmdop, cmdval>>
         \/ isSend /\ ~isSend' /\ UNCHANGED <<cmdop, cmdval>>
<1>1. isSend <=> Involved(Car)
  BY DEF DriverInv, SendFlagMatchesBus
<1>2. timer1 \/ recvTask \/ cpu # "idle" => isSend
  BY <1>1 DEF DriverInv, ReadingWithinTenure, Involved
<1>3. CASE Command /\ cpu = "idle"
  <2>1. ASSUME NEW op \in SevenByteOps, NEW v \in CmdVals, SevenByteCommand(op, v)
        PROVE  \/ UNCHANGED <<isSend, cpu, cmdop, cmdval>>
               \/ ~isSend /\ isSend' /\ cpu' = cpu
    BY <2>1 DEF SevenByteCommand, AcceptCommand, RefuseCommand, Accepts
  <2>2. ASSUME NEW t \in Tags, QuiryReader(t)
        PROVE  \/ UNCHANGED <<isSend, cpu, cmdop, cmdval>>
               \/ ~isSend /\ isSend' /\ cpu' = cpu
    BY <2>2 DEF QuiryReader, AcceptCommand, RefuseCommand, Accepts
  <2> QED
    BY <1>3, <2>1, <2>2
    DEF Command, Angle, Forward, Back, InitMaxSpeed, InitMinSpeed, InitLeftServo,
        InitRightServo, InitMidServo, Pause, SevenByteOps, CmdVals
<1>4. CASE StartDriver \/ (~isSend /\ StopDriver)
  BY <1>4 DEF StartDriver, StopDriver, resultVars
<1>5. CASE DriverTask
  BY <1>2, <1>5 DEF DriverTask, GrantCar, GrantedQuery, GrantedDrive, Timer1Fired, ReadDone,
                    RecvTaskEnds, cmdVars
<1>6. CASE RxDone
  <2>1. cpu = "idle"
    BY <1>6 DEF RxDone, DriverInv, ReaderInTime, OneStage
  <2> QED
    BY <1>6, <2>1 DEF RxDone, cmdVars
<1>7. CASE Timer1Expires \/ ReaderAnswers \/ BusStep \/ UNCHANGED vars
  BY <1>7 DEF Timer1Expires, ReaderAnswers, BusStep, vars, driverVars, cmdVars, resultVars
<1> QED
  BY <1>3, <1>4, <1>5, <1>6, <1>7 DEF Next, Caller

\* Opcode and value of an accepted command stay as they are as long as the
\* driver has a claim to the bus.
THEOREM CommandsAreNotOverwritten == GoodReader => (Spec => CommandBodyStable)
<1> SUFFICES ASSUME GoodReader PROVE Spec => CommandBodyStable
  OBVIOUS
<1>1. DriverInv /\ [Next]_vars => [Involved(Car) => UNCHANGED <<cmdop, cmdval>>]_vars
  BY LockSteps DEF DriverInv, SendFlagMatchesBus
<1>2. Spec => []DriverInv
  BY DriverInvariant
<1> QED
  BY <1>1, <1>2, PTL DEF Spec, CommandBodyStable

----------------------------------------------------------------------------
(* A reported reading is of the tag that was asked for.                    *)

\* Without a reading under way nothing is claimed about bytes.
LEMMA NoReadingInv ==
  ASSUME DriverInv', ~timer1', (~recvTask' /\ cpu' # "recv") \/ statetag' = "FAIL"
  PROVE  asked' = NoTag => AnswerOfQueriedTag' /\ ReadingIsOfQueriedTag'
<1>1. answer' = << >>
  BY DEF DriverInv, ReaderInTime
<1>2. \A i : i \notin 1 .. Len(answer')
  BY <1>1
<1> QED
  BY <1>1, <1>2 DEF AnswerOfQueriedTag, ReadingIsOfQueriedTag

\* A command accepted or refused: an accepted one finds no reading under way,
\* a refused one at most drops what has been received.
LEMMA CommandReading ==
  ASSUME ReadingInv, GoodReader, cpu = "idle", Command
  PROVE  AnswerOfQueriedTag' /\ ReadingIsOfQueriedTag'
<1> USE DriverAssumption
<1>1. DriverInv /\ DriverInv'
  BY CommandInv DEF ReadingInv
<1>2. UNCHANGED <<resultVars, timer1, cpu, readerVars>>
  BY DEF Command, Angle, Forward, Back, InitMaxSpeed, InitMinSpeed, InitLeftServo,
         InitRightServo, InitMidServo, Pause, QuiryReader, SevenByteCommand
<1>3. CASE ~isSend
  <2>1. ~timer1 /\ ~recvTask /\ asked = NoTag /\ cpu # "recv"
    BY <1>1, <1>3 DEF DriverInv, ReadingWithinTenure, SendFlagMatchesBus, Involved, ReaderInTime
  <2> QED
    BY <1>1, <1>2, <2>1, NoReadingInv DEF resultVars, readerVars
<1>4. CASE isSend
  <2>1. /\ UNCHANGED <<cmdop, cmdval>>
        /\ \/ UNCHANGED rxVars
           \/ DropReception
    BY <1>4 DEF Command, Angle, Forward, Back, InitMaxSpeed, InitMinSpeed, InitLeftServo,
         InitRightServo, InitMidServo, Pause, QuiryReader, SevenByteCommand,
         RefuseCommand, AcceptCommand, Accepts
  <2>2. Heard' = Heard
    BY <1>2 DEF Heard, readerVars
  <2>3. ReadingIsOfQueriedTag'
    BY <1>2, <2>1 DEF ReadingInv, ReadingIsOfQueriedTag, resultVars
  <2>4. CASE UNCHANGED rxVars
    BY <1>2, <2>1, <2>2, <2>3, <2>4 DEF ReadingInv, AnswerOfQueriedTag, rxVars, readerVars
  <2>5. CASE DropReception
    <3>1. /\ ~isUartDataOk' /\ rcvSyncDataSum' = rcvSyncDataSum
          /\ answer' = answer /\ asked' = asked
      BY <1>2, <2>5 DEF DropReception, readerVars
    <3>2. answer # << >> /\ isUartDataOk => Heard >= SYNC_DATA_SUM
      <4>1. SUFFICES ASSUME answer # << >>, isUartDataOk PROVE Heard >= SYNC_DATA_SUM
        OBVIOUS
      <4>2. timer1
        BY <1>1, <4>1 DEF DriverInv, ReaderInTime
      <4>3. Len(recdata) + Len(answer) = MAX_DATA /\ Len(recdata) \in Nat /\ Len(answer) \in Nat
        BY <1>1, <4>1, <4>2 DEF ReadingInv, AnswerOfQueriedTag, DriverInv, TypeOK
      <4> QED
        BY <4>3 DEF Heard, SYNC_DATA_SUM
    <3>3. answer' # << >> /\ ~isUartDataOk' =>
            Heard' >= SYNC_DATA_SUM \/ rcvSyncDataSum' = Heard'
      BY <2>2, <3>1, <3>2 DEF ReadingInv, AnswerOfQueriedTag
    <3> QED
      BY <2>1, <2>2, <2>3, <3>1, <3>3 DEF ReadingInv, AnswerOfQueriedTag
  <2> QED
    BY <2>1, <2>4, <2>5
<1> QED
  BY <1>3, <1>4

\* The reader is asked for the tag the command names.
LEMMA GrantedReading ==
  ASSUME ReadingInv, GoodReader, GrantedQuery \/ GrantedDrive
  PROVE  AnswerOfQueriedTag' /\ ReadingIsOfQueriedTag'
<1> USE DriverAssumption
<1>1. DriverInv /\ DriverInv'
  BY GrantedQueryInv, GrantedDriveInv DEF ReadingInv
<1>2. /\ ~timer1 /\ ~recvTask /\ answer = << >> /\ asked = NoTag /\ ~isUartDataOk
      /\ cpu = "granted"
  BY <1>1 DEF GrantedQuery, GrantedDrive, DriverInv, OneStage, ReaderInTime, ReceiverFresh
<1>3. /\ answer' = << >> /\ ~recvTask' /\ cpu' = "idle" /\ ~isUartDataOk'
      /\ UNCHANGED <<cmdop, cmdval>>
  BY <1>2 DEF GrantedQuery, GrantedDrive, resultVars, rxVars, cmdVars
<1>4. asked' # NoTag => cmdop = "QUIRYREADER" /\ asked' = cmdval
  BY <1>2 DEF GrantedQuery, GrantedDrive, ReaderHears
<1>5. \A i : i \notin 1 .. Len(answer')
  BY <1>3
<1> QED
  BY <1>3, <1>4, <1>5 DEF AnswerOfQueriedTag, ReadingIsOfQueriedTag

\* The answer of the reader is made as the invariant says.
LEMMA AnswerReading ==
  ASSUME ReadingInv, GoodReader, ReaderAnswers
  PROVE  AnswerOfQueriedTag' /\ ReadingIsOfQueriedTag'
<1> USE DriverAssumption
<1>1. DriverInv
  BY DEF ReadingInv
<1>2. PICK read \in BOOLEAN : answer' = Answer(asked, read)
  BY DEF ReaderAnswers
<1>3. /\ asked \in Tags /\ asked' = NoTag /\ ReceiverFresh
      /\ asked = cmdval /\ cmdop = "QUIRYREADER"
      /\ UNCHANGED <<cmdop, cmdval, isUartDataOk, rcvSyncDataSum, recdata, timer1, cpu,
                     statetag, tagdata, recvTask>>
  BY <1>1 DEF ReaderAnswers, ReadingInv, AnswerOfQueriedTag, DriverInv, TypeOK, ReaderInTime,
              cmdVars, rxVars, resultVars
<1>4. Len(answer') = SYNC_DATA_SUM + MAX_DATA
  BY <1>2, <1>3, AnswerShape
<1>5. Heard' = 0
  BY <1>4 DEF Heard, SYNC_DATA_SUM
<1>6. asked # "ff" /\ "zero" # "ff"
  BY <1>3
<1>7. ASSUME NEW i \in 1 .. Len(answer')
      PROVE  /\ (answer'[i] = "ff") <=> (i <= 2)
             /\ i > 4 => answer'[i] = asked
  <2>1. answer'[i] = IF i <= 2 THEN "ff" ELSE IF i <= 4
                     THEN (IF read THEN "zero" ELSE asked) ELSE asked
    BY <1>2, <1>4 DEF Answer
  <2>2. i \in Nat
    BY <1>4 DEF SYNC_DATA_SUM
  <2> QED
    BY <1>6, <2>1, <2>2
<1>8. ~isUartDataOk' /\ rcvSyncDataSum' = 0
  BY <1>3 DEF ReceiverFresh
<1>9. ReadingIsOfQueriedTag'
  BY <1>3 DEF ReadingInv, ReadingIsOfQueriedTag
<1>10. AnswerOfQueriedTag'
  <2>1. \A i \in 1 .. Len(answer') :
          /\ (answer'[i] = "ff") <=> (Heard' + i <= SYNC_DATA_SUM)
          /\ Heard' + i > SYNC_DATA_SUM + HEADER => answer'[i] = cmdval'
    BY <1>3, <1>4, <1>5, <1>7 DEF SYNC_DATA_SUM, HEADER
  <2> QED
    BY <1>3, <1>5, <1>8, <2>1 DEF AnswerOfQueriedTag
<1> QED
  BY <1>9, <1>10

\* A byte moves from the answer to the buffer, and the result is taken from
\* the last two bytes of the buffer.
LEMMA RxReading ==
  ASSUME ReadingInv, GoodReader, RxDone
  PROVE  AnswerOfQueriedTag' /\ ReadingIsOfQueriedTag'
<1> USE DriverAssumption
<1> DEFINE b == Head(answer)
<1>1. DriverInv
  BY DEF ReadingInv
<1>2. /\ answer \in Seq(Byte) /\ answer # << >> /\ answer' = Tail(answer)
      /\ UNCHANGED <<cmdop, cmdval, asked, cpu>>
  BY <1>1 DEF RxDone, DriverInv, TypeOK, cmdVars
<1>3. /\ Len(answer) \in Nat /\ Len(answer) > 0
      /\ Len(answer') = Len(answer) - 1
      /\ b = answer[1]
      /\ \A i \in 1 .. Len(answer') : i + 1 \in 1 .. Len(answer) /\ answer'[i] = answer[i + 1]
  BY <1>2
<1>4. /\ timer1 /\ Owner(Car) /\ asked = NoTag /\ ~recvTask /\ cpu = "idle" /\ ~isBufFull
      /\ cmdop = "QUIRYREADER"
      /\ recdata \in Seq(Byte) /\ Len(recdata) \in Nat /\ Len(recdata) < MAX_DATA
      /\ rcvSyncDataSum \in 0 .. SYNC_CAP
  BY <1>1, <1>2 DEF DriverInv, TypeOK, ReaderInTime, OneStage, ReadingWithinTenure,
              ReceptionBounded, ReadingInv, AnswerOfQueriedTag
<1>5. /\ Heard \in Int /\ Heard' = Heard + 1
  BY <1>2, <1>3 DEF Heard, SYNC_DATA_SUM
<1>6. /\ (b = "ff") <=> (Heard + 1 <= SYNC_DATA_SUM)
      /\ Heard + 1 > SYNC_DATA_SUM + HEADER => b = cmdval
  BY <1>3 DEF ReadingInv, AnswerOfQueriedTag
<1>7. \A i \in 1 .. Len(answer') :
        /\ (answer'[i] = "ff") <=> (Heard' + i <= SYNC_DATA_SUM)
        /\ Heard' + i > SYNC_DATA_SUM + HEADER => answer'[i] = cmdval
  <2> SUFFICES ASSUME NEW i \in 1 .. Len(answer')
               PROVE  /\ (answer'[i] = "ff") <=> (Heard' + i <= SYNC_DATA_SUM)
                      /\ Heard' + i > SYNC_DATA_SUM + HEADER => answer'[i] = cmdval
    OBVIOUS
  <2>1. i + 1 \in 1 .. Len(answer) /\ answer'[i] = answer[i + 1] /\ i \in Int
    BY <1>3
  <2>2. /\ (answer[i + 1] = "ff") <=> (Heard + (i + 1) <= SYNC_DATA_SUM)
        /\ Heard + (i + 1) > SYNC_DATA_SUM + HEADER => answer[i + 1] = cmdval
    BY <2>1 DEF ReadingInv, AnswerOfQueriedTag
  <2> QED
    BY <1>5, <2>1, <2>2 DEF SYNC_DATA_SUM, HEADER
<1>8. CASE RxSync(b)
  <2>1. /\ ~isUartDataOk /\ recdata = << >> /\ UNCHANGED <<timer1, statetag, tagdata, recvTask>>
        /\ Heard >= SYNC_DATA_SUM \/ rcvSyncDataSum = Heard
    BY <1>1, <1>2, <1>8 DEF RxSync, resultVars, DriverInv, ReceptionBounded, ReadingInv,
                      AnswerOfQueriedTag
  <2>2. CASE ~isUartDataOk'
    <3>1. Heard' >= SYNC_DATA_SUM \/ rcvSyncDataSum' = Heard'
      <4>1. CASE Heard + 1 >= SYNC_DATA_SUM
        BY <1>5, <4>1
      <4>2. CASE ~(Heard + 1 >= SYNC_DATA_SUM)
        <5>1. rcvSyncDataSum = Heard /\ rcvSyncDataSum < SYNC_DATA_SUM /\ b = "ff"
          BY <1>4, <1>5, <1>6, <2>1, <4>2 DEF SYNC_DATA_SUM
        <5>2. rcvSyncDataSum' = rcvSyncDataSum + 1
          BY <1>4, <1>8, <5>1 DEF RxSync, SyncMatches, SyncDiffers, SYNC_DATA_SUM, SYNC_CAP
        <5> QED
          BY <1>5, <5>1, <5>2
      <4> QED
        BY <4>1, <4>2
    <3> QED
      BY <1>2, <1>4, <1>7, <2>1, <2>2, <3>1 DEF AnswerOfQueriedTag, ReadingIsOfQueriedTag
  <2>3. CASE isUartDataOk'
    <3>1. rcvSyncDataSum + 1 = SYNC_DATA_SUM /\ b = "ff" /\ recdata' = << >>
      <4>1. SyncMatches(b) /\ rcvSyncDataSum + 1 = SYNC_DATA_SUM /\ recdata' = << >>
        BY <1>8, <2>1, <2>3 DEF RxSync
      <4> QED
        BY <1>4, <4>1 DEF SyncMatches, SYNC_DATA_SUM
    <3>2. Heard + 1 = SYNC_DATA_SUM
      BY <1>4, <1>5, <1>6, <2>1, <3>1 DEF SYNC_DATA_SUM
    <3>3. Len(recdata') + Len(answer') = MAX_DATA
      BY <1>3, <3>1, <3>2 DEF Heard, SYNC_DATA_SUM
    <3>4. \A i : i \notin 1 .. Len(recdata')
      BY <3>1
    <3> QED
      BY <1>2, <1>4, <1>7, <2>1, <2>3, <3>3, <3>4 DEF AnswerOfQueriedTag, ReadingIsOfQueriedTag
  <2> QED
    BY <2>2, <2>3
<1>9. CASE RxPayload(b)
  <2>1. /\ isUartDataOk /\ isUartDataOk' /\ recdata' = Append(recdata, b)
        /\ Len(recdata) + Len(answer) = MAX_DATA
        /\ \A i \in 1 .. Len(recdata) : i > HEADER => recdata[i] = cmdval
    BY <1>4, <1>9 DEF RxPayload, ReadingInv, AnswerOfQueriedTag
  <2>2. b \in Byte
    BY <1>2
  <2>3. /\ Len(recdata') = Len(recdata) + 1
        /\ recdata'[Len(recdata) + 1] = b
        /\ \A i \in 1 .. Len(recdata) : recdata'[i] = recdata[i]
    BY <1>4, <2>1, <2>2
  <2>4. Len(recdata) + 1 > HEADER => b = cmdval
    BY <1>3, <1>4, <1>6, <2>1 DEF Heard, SYNC_DATA_SUM, HEADER
  <2>5. \A i \in 1 .. Len(recdata') : i > HEADER => recdata'[i] = cmdval
    <3> SUFFICES ASSUME NEW i \in 1 .. Len(recdata'), i > HEADER PROVE recdata'[i] = cmdval
      OBVIOUS
    <3>1. CASE i = Len(recdata) + 1
      BY <2>3, <2>4, <3>1
    <3>2. CASE i # Len(recdata) + 1
      <4>1. i \in 1 .. Len(recdata)
        BY <1>4, <2>3, <3>2
      <4> QED
        BY <2>1, <2>3, <4>1
    <3> QED
      BY <3>1, <3>2
  <2>6. Len(recdata') + Len(answer') = MAX_DATA
    BY <1>3, <1>4, <2>1, <2>3
  <2>7. AnswerOfQueriedTag'
    BY <1>2, <1>4, <1>7, <2>1, <2>5, <2>6 DEF AnswerOfQueriedTag
  <2>8. ReadingIsOfQueriedTag'
    <3>1. CASE Len(recdata) + 1 < MAX_DATA
      BY <1>2, <1>4, <1>9, <3>1 DEF RxPayload, resultVars, ReadingIsOfQueriedTag
    <3>2. CASE ~(Len(recdata) + 1 < MAX_DATA)
      <4>1. statetag' = "SUCCESS" => tagdata' = <<recdata'[MAX_DATA - 1], recdata'[MAX_DATA]>>
        BY <1>9, <3>2 DEF RxPayload
      <4>2. /\ MAX_DATA \in 1 .. Len(recdata') /\ MAX_DATA - 1 \in 1 .. Len(recdata')
            /\ MAX_DATA > HEADER /\ MAX_DATA - 1 > HEADER
        BY <1>4, <2>3, <3>2 DEF HEADER
      <4>3. recdata'[MAX_DATA - 1] = cmdval /\ recdata'[MAX_DATA] = cmdval
        BY <2>5, <4>2
      <4> QED
        BY <1>2, <1>4, <4>1, <4>3 DEF ReadingIsOfQueriedTag
    <3> QED
      BY <3>1, <3>2
  <2> QED
    BY <2>7, <2>8
<1>10. ~RxIgnored
  BY <1>4 DEF RxIgnored
<1> QED
  BY <1>8, <1>9, <1>10 DEF RxDone

\* The end of a reading leaves no byte behind, and a timeout no result.
LEMMA EndOfReading ==
  ASSUME ReadingInv, GoodReader,
         Timer1Expires \/ Timer1Fired \/ ReadDone \/ RecvTaskEnds
  PROVE  AnswerOfQueriedTag' /\ ReadingIsOfQueriedTag'
<1> USE DriverAssumption
<1>1. DriverInv /\ DriverInv'
  BY TimeoutInv, ReadDoneInv, RecvTaskEndsInv DEF ReadingInv
<1>2. ~timer1' /\ asked' = NoTag /\ answer' = << >>
  BY <1>1 DEF Timer1Expires, Timer1Fired, ReadDone, RecvTaskEnds, DriverInv, OneStage,
              ReaderInTime, readerVars
<1>3. ReadingIsOfQueriedTag'
  BY <1>1 DEF Timer1Expires, Timer1Fired, ReadDone, RecvTaskEnds, DriverInv, OneStage,
              ReadingInv, ReadingIsOfQueriedTag, resultVars, cmdVars
<1>4. \A i : i \notin 1 .. Len(answer')
  BY <1>2
<1> QED
  BY <1>2, <1>3, <1>4 DEF AnswerOfQueriedTag

\* Steps that touch neither command nor reading.
LEMMA OtherReading ==
  ASSUME ReadingInv,
         \/ GrantCar \/ BusStep \/ StartDriver \/ (~isSend /\ StopDriver) \/ UNCHANGED vars
  PROVE  AnswerOfQueriedTag' /\ ReadingIsOfQueriedTag'
<1>1. /\ UNCHANGED <<cmdop, cmdval, rxVars, resultVars, timer1, readerVars>>
      /\ cpu' # "recv" \/ cpu' = cpu
  BY DEF GrantCar, BusStep, StartDriver, StopDriver, vars, driverVars, cmdVars
<1>2. Heard' = Heard
  BY <1>1 DEF Heard, readerVars
<1> QED
  BY <1>1, <1>2 DEF ReadingInv, AnswerOfQueriedTag, ReadingIsOfQueriedTag, rxVars, resultVars,
                    readerVars

\* A reading reported as a success is of the tag the application asked for,
\* whatever was called while it was under way.
THEOREM ReadingsAreOfTheQueriedTag == GoodReader => (Spec => []ReadingInv)
<1> SUFFICES ASSUME GoodReader PROVE Spec => []ReadingInv
  OBVIOUS
<1>1. Init => ReadingInv
  <2> SUFFICES ASSUME Init PROVE ReadingInv
    OBVIOUS
  <2>1. \A i : i \notin 1 .. Len(answer)
    BY DEF Init, DriverInit
  <2> QED
    BY DriverInitInv, <2>1 DEF Init, DriverInit, ReadingInv, AnswerOfQueriedTag,
                               ReadingIsOfQueriedTag
<1>2. ReadingInv /\ [Next]_vars => ReadingInv'
  <2> SUFFICES ASSUME ReadingInv, [Next]_vars PROVE ReadingInv'
    OBVIOUS
  <2>1. DriverInv'
    BY NextInv DEF ReadingInv
  <2>2. AnswerOfQueriedTag' /\ ReadingIsOfQueriedTag'
    BY CommandReading, GrantedReading, AnswerReading, RxReading, EndOfReading, OtherReading
    DEF Next, Caller, DriverTask
  <2> QED
    BY <2>1, <2>2 DEF ReadingInv
<1> QED
  BY <1>1, <1>2, PTL DEF Spec

\* A reading reported as SUCCESS is made of bytes of the tag that is being
\* queried, whatever was refused or timed out before.
THEOREM SuccessIsOfTheQueriedTag == GoodReader => (Spec => []ReadingIsOfQueriedTag)
<1>1. ReadingInv => ReadingIsOfQueriedTag
  BY DEF ReadingInv
<1> QED
  BY <1>1, ReadingsAreOfTheQueriedTag, PTL

\* The driver implements the port it offers to the application: one command
\* at a time, at most one readDone for each, and a reading only of the tag asked for.
THEOREM DriverImplementsPort == GoodReader => (Spec => Port!PortSafety)
<1> SUFFICES ASSUME GoodReader PROVE Spec => Port!PortSafety
  OBVIOUS
<1>1. Init => Port!PortInit
  BY DriverInitInv DEF Init, DriverInit, Port!PortInit, Phase, Reported, DriverInv, TypeOK
<1>2. ReadingInv /\ ReadingInv' /\ [Next]_vars => [Port!PortNext]_(Port!portVars)
  <2> SUFFICES ASSUME ReadingInv, ReadingInv', [Next]_vars
               PROVE  [Port!PortNext]_(Port!portVars)
    OBVIOUS
  <2>1. CASE UNCHANGED <<isSend, cpu, cmdop, cmdval>>
             /\ (cpu = "recv" => UNCHANGED <<statetag, tagdata>>)
    BY <2>1 DEF Phase, Reported, Port!portVars
  <2>2. CASE UNCHANGED <<isSend, cmdop, cmdval>> /\ cpu # "recv" /\ cpu' # "recv"
    BY <2>2 DEF Phase, Reported, Port!portVars
  <2>3. CASE ~isSend /\ isSend' /\ cpu' = cpu /\ cpu = "idle"
    <3>1. cmdop' \in Ops /\ cmdval' \in CmdVals
      BY DEF ReadingInv, DriverInv, TypeOK
    <3>2. Phase = "ready" /\ Phase' = "working" /\ Reported' = Reported
      BY <2>3 DEF Phase, Reported
    <3> QED
      BY <3>1, <3>2 DEF Port!PortNext, Port!Accept
  <2>4. CASE ~isSend /\ ~isSend' /\ UNCHANGED <<cmdop, cmdval>>
    BY <2>4 DEF Phase, Reported, Port!portVars
  <2>5. CASE isSend /\ isSend' /\ cpu = "idle" /\ cpu' = "recv" /\ UNCHANGED <<cmdop, cmdval>>
    <3>1. Phase = "working" /\ Phase' = "signalled"
      BY <2>5 DEF Phase
    <3>2. CASE statetag' = "SUCCESS"
      <4>1. cmdop = "QUIRYREADER" /\ Reported' = <<cmdval, cmdval>>
        BY <2>5, <3>1, <3>2 DEF Reported, ReadingInv, ReadingIsOfQueriedTag
      <4>2. Port!Signal(Port!DataOf(cmdval))
        BY <2>5, <3>1, <4>1 DEF Port!Signal, Port!DataOf
      <4> QED
        BY <4>2 DEF Port!PortNext, Port!SignalAny
    <3>3. CASE statetag' # "SUCCESS"
      <4>1. Reported' = << >>
        BY <3>3 DEF Reported
      <4>2. Port!Signal(<< >>)
        BY <2>5, <3>1, <4>1 DEF Port!Signal
      <4> QED
        BY <4>2 DEF Port!PortNext, Port!SignalAny
    <3> QED
      BY <3>2, <3>3
  <2>6. CASE isSend /\ ~isSend' /\ UNCHANGED <<cmdop, cmdval>>
    <3>1. Phase \in {"working", "signalled"} /\ Phase' = "ready" /\ Reported' = << >>
      BY <2>6 DEF Phase, Reported
    <3> QED
      BY <2>6, <3>1 DEF Port!PortNext, Port!Finish
  <2> QED
    BY <2>1, <2>2, <2>3, <2>4, <2>5, <2>6, LockSteps DEF ReadingInv
<1>3. Spec => []ReadingInv
  BY ReadingsAreOfTheQueriedTag
<1> QED
  BY <1>1, <1>2, <1>3, PTL DEF Spec, Port!PortSafety

----------------------------------------------------------------------------
(* Any reader: one that is late, that takes a servo command for a query or *)
(* that stays silent.  Its answers may find another command on its way, a  *)
(* recvTask may run without the bus, and a command may be accepted while   *)
(* an earlier one is still in line; ServedOnce and SendFlagMatchesBus are  *)
(* lost.  What remains is that no accepted command is left without a next  *)
(* step.                                                                   *)

\* What a client that asks twice cannot break in the arbiter.
LineInv == ArbTypeOK /\ TaskMatchesState /\ IdleMeansNobodyWaits /\ OwnerIsClient

\* An accepted command has a claim to the bus, and a driver that owns the bus
\* has something that will make it give the bus back.
NothingForgotten == /\ isSend => Involved(Car)
                    /\ Owner(Car) => timer1 \/ recvTask \/ cpu # "idle"

ForgetInv == LineInv /\ NothingForgotten

\* An accepted command always waits for something that comes: a half-done
\* task, a posted one, the timer, or a client that has the bus or is granted it.
NeverStuck ==
  isSend => \/ cpu # "idle" \/ recvTask \/ timer1
            \/ Promised(Car)
            \/ Queued(Car) /\ \E c \in Clients \ {Car} : Owner(c) \/ Promised(c)

\* A request leaves its client in line, also when the client asks again, and
\* takes nobody else out.
LEMMA RequestKeepsLine ==
  ASSUME NEW c \in Clients, LineInv, Request(c)
  PROVE  /\ LineInv'
         /\ Involved(c)'
         /\ \A d \in Clients : /\ Owner(d)' <=> Owner(d)
                               /\ Involved(d) => Involved(d)'
<1> USE ArbiterAssumption
    DEF LineInv, ArbTypeOK, TaskMatchesState, IdleMeansNobodyWaits, OwnerIsClient
<1>1. CASE arbState = "CONTROLLED"
  BY <1>1 DEF Request, Involved, Owner, Queued, Promised
<1>2. CASE arbState # "CONTROLLED" /\ Queued(c)
  <2>1. UNCHANGED arbVars
    BY <1>2 DEF Request, Enqueue, arbVars
  <2> QED
    BY <1>2, <2>1 DEF arbVars, Involved, Owner, Queued, Promised
<1>3. CASE arbState # "CONTROLLED" /\ ~Queued(c)
  <2>1. /\ resQ' = Append(resQ, c)
        /\ UNCHANGED <<arbState, resId, reqResId, grantedTask>>
    BY <1>3 DEF Request, Enqueue
  <2>2. /\ Len(resQ') = Len(resQ) + 1
        /\ Len(resQ) \in Nat
        /\ \A i \in 1 .. Len(resQ) : resQ'[i] = resQ[i]
        /\ resQ'[Len(resQ) + 1] = c
        /\ resQ' \in Seq(Clients)
    BY <2>1
  <2>3. \A d \in Clients : Queued(d)' <=> Queued(d) \/ d = c
    BY <2>2 DEF Queued
  <2>4. LineInv'
    BY <1>3, <2>1, <2>2
  <2> QED
    BY <2>1, <2>3, <2>4 DEF Involved, Owner, Promised
<1> QED
  BY <1>1, <1>2, <1>3

\* A release takes the bus from its client only, and nobody out of the line.
LEMMA ReleaseKeepsLine ==
  ASSUME NEW c \in Clients, LineInv, Release(c)
  PROVE  /\ LineInv'
         /\ ~Owner(c)'
         /\ \A d \in Clients : d # c => /\ Owner(d)' <=> Owner(d)
                                        /\ Involved(d) => Involved(d)'
<1> USE ArbiterAssumption
    DEF LineInv, ArbTypeOK, TaskMatchesState, IdleMeansNobodyWaits, OwnerIsClient
<1>1. CASE Owner(c) /\ resQ # << >> /\ HandOver
  <2>1. /\ Head(resQ) = resQ[1]
        /\ resQ[1] \in Clients
        /\ Len(resQ) \in Nat /\ Len(resQ) > 0
        /\ resQ' \in Seq(Clients)
        /\ Len(resQ') = Len(resQ) - 1
        /\ \A i \in 1 .. Len(resQ') : resQ'[i] = resQ[i + 1]
    BY <1>1 DEF HandOver
  <2>2. LineInv'
    BY <1>1, <2>1 DEF HandOver
  <2>3. ASSUME NEW d \in Clients, Queued(d) PROVE Queued(d)' \/ Promised(d)'
    <3>1. PICK i \in 1 .. Len(resQ) : resQ[i] = d
      BY <2>3 DEF Queued
    <3>2. CASE i = 1
      BY <1>1, <2>1, <3>1, <3>2 DEF HandOver, Promised
    <3>3. CASE i # 1
      <4>1. i - 1 \in 1 .. Len(resQ') /\ (i - 1) + 1 = i
        BY <2>1, <3>3
      <4> QED
        BY <2>1, <3>1, <4>1 DEF Queued
    <3> QED
      BY <3>2, <3>3
  <2>4. \A d \in Clients : ~Promised(d) /\ ~Owner(d)' /\ (d # c => ~Owner(d))
    BY <1>1 DEF HandOver, Promised, Owner
  <2> QED
    BY <2>2, <2>3, <2>4 DEF Involved
<1>2. CASE Owner(c) /\ resQ = << >> /\ BackToDefault
  BY <1>2 DEF BackToDefault, Involved, Owner, Queued, Promised
<1>3. CASE ~Owner(c) /\ UNCHANGED arbVars
  BY <1>3 DEF arbVars, Involved, Owner, Queued, Promised
<1> QED
  BY <1>1, <1>2, <1>3 DEF Release

\* A grant or a successful immediateRequest takes nobody's claim away.
LEMMA TakingKeepsLine ==
  ASSUME NEW c \in Clients, LineInv, GrantedTask(c) \/ ClientTriesAtOnce(c)
  PROVE  /\ LineInv'
         /\ \A d \in Clients : /\ Involved(d) => Involved(d)'
                               /\ d # c => ~Owner(d)'
<1> USE ArbiterAssumption
    DEF LineInv, ArbTypeOK, TaskMatchesState, IdleMeansNobodyWaits, OwnerIsClient
<1>1. CASE GrantedTask(c)
  BY <1>1 DEF GrantedTask, Involved, Owner, Queued, Promised
<1>2. CASE ClientTriesAtOnce(c)
  BY <1>2 DEF ClientTriesAtOnce, ImmediateRequest, Involved, Owner, Queued, Promised
<1> QED
  BY <1>1, <1>2

\* Steps that leave the bus alone.
LEMMA LineUnchanged ==
  ASSUME LineInv, UNCHANGED arbVars
  PROVE  /\ LineInv'
         /\ Involved(Car)' <=> Involved(Car)
         /\ Owner(Car)' <=> Owner(Car)
  BY DEF arbVars, LineInv, ArbTypeOK, TaskMatchesState, IdleMeansNobodyWaits,
         OwnerIsClient, Involved, Owner, Queued, Promised

\* A command takes the lock together with a place in line, or changes neither.
LEMMA CommandForgetsNothing ==
  ASSUME ForgetInv, cpu = "idle", Command
  PROVE  ForgetInv'
<1> USE DriverAssumption DEF ForgetInv, NothingForgotten
<1>1. \/ Request(Car)
      \/ UNCHANGED isSend /\ UNCHANGED arbVars
  BY DEF Command, Angle, Forward, Back, InitMaxSpeed, InitMinSpeed, InitLeftServo,
         InitRightServo, InitMidServo, Pause, QuiryReader, SevenByteCommand, AcceptCommand,
         RefuseCommand
<1>2. UNCHANGED <<timer1, recvTask, cpu>>
  BY DEF Command, Angle, Forward, Back, InitMaxSpeed, InitMinSpeed, InitLeftServo,
         InitRightServo, InitMidServo, Pause, QuiryReader, SevenByteCommand, resultVars
<1>3. CASE Request(Car)
  BY <1>2, <1>3, RequestKeepsLine
<1>4. CASE UNCHANGED isSend /\ UNCHANGED arbVars
  BY <1>2, <1>4, LineUnchanged
<1> QED
  BY <1>1, <1>3, <1>4

\* The driver's own tasks: a task that ends with the bus has started the
\* timer or posted recvTask, and one that gives the bus back clears the lock.
LEMMA TasksForgetNothing ==
  ASSUME ForgetInv, DriverTask
  PROVE  ForgetInv'
<1> USE DriverAssumption DEF ForgetInv, NothingForgotten
<1>1. CASE GrantCar
  <2>1. LineInv' /\ (Involved(Car) => Involved(Car)')
    BY <1>1, TakingKeepsLine DEF GrantCar
  <2> QED
    BY <1>1, <2>1 DEF GrantCar, cmdVars
<1>2. CASE GrantedQuery \/ Timer1Fired \/ ReadDone
  <2>1. UNCHANGED arbVars /\ UNCHANGED isSend
    BY <1>2 DEF GrantedQuery, Timer1Fired, ReadDone, cmdVars
  <2>2. timer1' \/ recvTask' \/ cpu' # "idle"
    BY <1>2 DEF GrantedQuery, Timer1Fired, ReadDone
  <2> QED
    BY <2>1, <2>2, LineUnchanged
<1>3. CASE GrantedDrive \/ RecvTaskEnds
  <2>1. Release(Car) /\ ~isSend'
    BY <1>3 DEF GrantedDrive, RecvTaskEnds
  <2> QED
    BY <2>1, ReleaseKeepsLine
<1> QED
  BY <1>1, <1>2, <1>3 DEF DriverTask

\* An interrupt, the timer, the reader and the other clients: a full buffer
\* stops Timer1 only together with posting recvTask.
LEMMA OthersForgetNothing ==
  ASSUME ForgetInv,
         \/ StartDriver \/ (~isSend /\ StopDriver) \/ Timer1Expires \/ RxDone
         \/ ReaderAnswers \/ BusStep \/ UNCHANGED vars
  PROVE  ForgetInv'
<1> USE DriverAssumption DEF ForgetInv, NothingForgotten
<1>1. CASE BusStep
  <2>1. PICK c \in Clients \ {Car} : OtherClient(c) \/ OtherGranted(c)
    BY <1>1 DEF BusStep
  <2>2. UNCHANGED <<isSend, timer1, recvTask, cpu>>
    BY <1>1 DEF BusStep, driverVars, cmdVars, resultVars
  <2>3. LineInv' /\ (Involved(Car) => Involved(Car)') /\ (Owner(Car)' => Owner(Car))
    BY <2>1, RequestKeepsLine, ReleaseKeepsLine, TakingKeepsLine
    DEF OtherClient, OtherGranted, ClientRequests, ClientReleases
  <2> QED
    BY <2>2, <2>3
<1>2. CASE \/ StartDriver \/ (~isSend /\ StopDriver) \/ Timer1Expires \/ RxDone
           \/ ReaderAnswers \/ UNCHANGED vars
  <2>1. UNCHANGED arbVars /\ (isSend' => isSend)
    BY <1>2 DEF StartDriver, StopDriver, Timer1Expires, RxDone, ReaderAnswers, vars,
                driverVars, cmdVars
  <2>2. timer1 \/ recvTask \/ cpu # "idle" => timer1' \/ recvTask' \/ cpu' # "idle"
    <3>1. CASE RxDone
      BY <3>1 DEF RxDone, RxSync, RxPayload, RxIgnored, resultVars
    <3>2. CASE ~RxDone
      BY <1>2, <3>2 DEF StartDriver, StopDriver, Timer1Expires, ReaderAnswers, vars,
                        driverVars, resultVars
    <3> QED
      BY <3>1, <3>2
  <2> QED
    BY <2>1, <2>2, LineUnchanged
<1> QED
  BY <1>1, <1>2

\* Whatever the reader does and however late it answers, an accepted command
\* is never left without something that takes it further: no order of commands,
\* interrupts, timeouts and uses of the bus by the radio blocks the driver.
THEOREM CommandsNeverStuck == Spec => []NeverStuck
<1> USE DriverAssumption
<1>1. Init => ForgetInv
  BY ArbInitInv
  DEF Init, ForgetInv, LineInv, ArbInv, NothingForgotten, DriverInit, ArbInit, Owner
<1>2. ForgetInv /\ [Next]_vars => ForgetInv'
  BY CommandForgetsNothing, TasksForgetNothing, OthersForgetNothing DEF Next, Caller
<1>3. ForgetInv => NeverStuck
  <2> SUFFICES ASSUME ForgetInv, isSend, cpu = "idle", ~recvTask, ~timer1, ~Promised(Car)
               PROVE  Queued(Car) /\ \E c \in Clients \ {Car} : Owner(c) \/ Promised(c)
    BY DEF NeverStuck
  <2>1. ~Owner(Car) /\ Queued(Car)
    BY DEF ForgetInv, NothingForgotten, Involved
  <2>2. arbState # "CONTROLLED"
    BY <2>1 DEF ForgetInv, LineInv, IdleMeansNobodyWaits, Queued
  <2>3. CASE arbState = "BUSY"
    BY <2>1, <2>3 DEF ForgetInv, LineInv, OwnerIsClient, Owner
  <2>4. CASE arbState = "GRANTING"
    BY <2>1, <2>4 DEF ForgetInv, LineInv, TaskMatchesState, ArbTypeOK, Promised
  <2> QED
    BY <2>1, <2>2, <2>3, <2>4 DEF ForgetInv, LineInv, ArbTypeOK
<1> QED
  BY <1>1, <1>2, <1>3, PTL DEF Spec
=============================================================================
