------------------------------ MODULE RelayNode ------------------------------
(***************************************************************************)
(* RelayC of final/RelayNode: a mote that repeats the command frames of    *)
(* the PC towards the car and the data frames of the car towards the PC,   *)
(* on top of the send queue it is compiled with (AMQueue with N = 2).      *)
(*                                                                         *)
(* Frames heard are arbitrary: sent by the PC or the car, repeated by      *)
(* another relay, late, or an echo of what this relay sent itself.  Both   *)
(* directions share busy_radio and the radio, but have a message_t and a   *)
(* sender each.  SUCCESS is 0 in TinyOS: "if(call AMSend.send(...))" is    *)
(* entered when the send is refused.  The relay looks at no field but seq, *)
(* and whether cmd is the reset; other contents are left out.              *)
(***************************************************************************)
EXTENDS AMQueue

CONSTANT MAX_SEQ          \* bound: sequence numbers of the frames heard

CAR == 0                  \* the sender of command frames, AMSenderC
DATA == 1                 \* the sender of data frames, DataSender

ASSUME RelayAssumption == /\ N = 2
                          /\ {"car_packet", "data_packet"} \subseteq Buffers
                          /\ MAX_SEQ \in Nat

VARIABLES started,        \* the radio is on
          busy_radio, pktID,
          packetSeq       \* seq of the frame in car_packet

relayVars == <<started, busy_radio, pktID, packetSeq>>
vars == <<relayVars, queueVars>>

Seqs == 0 .. MAX_SEQ

TypeOK == /\ QueueTypeOK
          /\ started \in BOOLEAN
          /\ busy_radio \in BOOLEAN
          /\ pktID \in Seqs
          /\ packetSeq \in Seqs

Init == /\ QueueInit
        /\ started = FALSE
        /\ busy_radio = FALSE
        /\ pktID = 0
        /\ packetSeq = 0

----------------------------------------------------------------------------
\* AMControl and DataControl are the same radio, started until it is on.
StartDone(err) == /\ ~started
                  /\ started' = (err = "SUCCESS")
                  /\ UNCHANGED <<busy_radio, pktID, packetSeq, queueVars>>

\* A frame is received by a task: no sendDone handler is half done.
Receives == started /\ told = N

\* Mutant of TakeCarFrame: older frames are taken as well.
TakeAnyCarFrame(s, id) ==
  /\ packetSeq' = s
  /\ \/ /\ busy_radio
        /\ pktID' = id
        /\ UNCHANGED <<busy_radio, queueVars>>
     \/ /\ ~busy_radio /\ SendAccepted(CAR, "car_packet")
        /\ pktID' = id
        /\ UNCHANGED busy_radio
     \/ /\ ~busy_radio /\ SendRefused(CAR)
        /\ pktID' = s
        /\ busy_radio' = TRUE

\* The packet is overwritten also while it is being sent, or when it cannot
\* be; pktID moves on only when the send is refused.
TakeCarFrame(s, id) ==
  /\ s > id
  /\ packetSeq' = s
  /\ \/ /\ busy_radio
        /\ pktID' = id
        /\ UNCHANGED <<busy_radio, queueVars>>
     \/ /\ ~busy_radio /\ SendAccepted(CAR, "car_packet")
        /\ pktID' = id
        /\ UNCHANGED busy_radio
     \/ /\ ~busy_radio /\ SendRefused(CAR)
        /\ pktID' = s
        /\ busy_radio' = TRUE

SkipCarFrame(s, id) == /\ s <= id
                       /\ pktID' = id
                       /\ UNCHANGED <<busy_radio, packetSeq, queueVars>>

\* A reset clears pktID before the sequence number is compared.
Receive(s, reset) ==
  /\ Receives
  /\ LET id == IF reset THEN 0 ELSE pktID
     IN TakeCarFrame(s, id) \/ SkipCarFrame(s, id)
  /\ UNCHANGED started

\* Every data frame is repeated; data_packet is always overwritten.
DataReceive ==
  /\ Receives
  /\ \/ /\ busy_radio
        /\ UNCHANGED <<busy_radio, queueVars>>
     \/ /\ ~busy_radio /\ SendAccepted(DATA, "data_packet")
        /\ UNCHANGED busy_radio
     \/ /\ ~busy_radio /\ SendRefused(DATA)
        /\ busy_radio' = TRUE
  /\ UNCHANGED <<started, pktID, packetSeq>>

\* Mutant of RelaySendDone: only the sender of data frames clears the flag.
DataSendDoneOnly == /\ HandlerReturns
                    /\ busy_radio' = (busy_radio /\ told # DATA)
                    /\ UNCHANGED <<started, pktID, packetSeq>>

\* AMSend.sendDone and DataSend.sendDone
RelaySendDone == /\ HandlerReturns
                 /\ busy_radio' = FALSE
                 /\ UNCHANGED <<started, pktID, packetSeq>>

QueueRuns == (RadioSendDone \/ ErrorTask) /\ UNCHANGED relayVars

----------------------------------------------------------------------------
Hears == (\E s \in Seqs, reset \in BOOLEAN : Receive(s, reset)) \/ DataReceive

Next == \/ \E err \in {"SUCCESS", "FAIL"} : StartDone(err)
        \/ Hears \/ RelaySendDone \/ QueueRuns

\* Frames may be heard at any moment, but none keeps a posted task from
\* running, nor the radio from sending.
Fairness == WF_vars(RelaySendDone) /\ WF_vars(QueueRuns)

Spec == Init /\ [][Next]_vars /\ Fairness

----------------------------------------------------------------------------
\* busy_radio stops the relay in both directions.  It is set by the sender
\* that finds its own slot full and cleared by whichever sender is called
\* back first; still it is set only while a callback is to come.
BusyMeansPending == busy_radio => Pending # {} \/ told # N

\* The relay is never stopped for good.
BusyClears == busy_radio ~> ~busy_radio

\* Suppression never hides a frame that is newer than the one last taken.
SuppressesOnlyOlder == pktID <= packetSeq

\* With its own calls from tasks only, the relay keeps the queue's invariant
\* and with it the promise of one sendDone per accepted send.
UsesSlots == Slots!SlotSafety

RelayInv == TypeOK /\ QueueInv /\ SuppressesOnlyOlder
=============================================================================
