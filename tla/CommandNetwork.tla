---------------------------- MODULE CommandNetwork ----------------------------
(***************************************************************************)
(* The way of a command in final/: the PC program (TestSerial.java) counts *)
(* the characters typed and sends the keys it knows over the serial line;  *)
(* the PC node (TestSerialC) broadcasts each frame; relays (RelayC) repeat *)
(* it; the car (RadioToLedsC) obeys a frame whose number is higher than    *)
(* the last one's, and forgets that number when the command is r_.         *)
(*                                                                         *)
(* A frame is its number and its command; the command is named by the key  *)
(* it was typed with: typed[k] is the number and kind of the k-th key.     *)
(* Every sender has one message_t and one slot in its radio's queue, which *)
(* is full from an accepted send to its sendDone: "queued" until the radio *)
(* begins to copy the packet into the chip, "copying" until it has, then   *)
(* "sent".  The copy is made two bytes at a time, from interrupts, so that *)
(* a handler that overwrites the packet meanwhile can leave the chip with  *)
(* a frame that is half old and half new.  The relays' own handlers are    *)
(* those of RelayNode, with all data traffic reduced to what it does to    *)
(* busy_radio.  inbox[n] holds the frames that node n's radio has received *)
(* and no handler has seen yet.                                            *)
(***************************************************************************)
EXTENDS Naturals, FiniteSets, Sequences

CONSTANTS Relays, PC, CAR,
          Link,           \* <<n, m>> : node m can hear node n
          MAX_KEYS,       \* bound: keys typed
          MAX_SEQ,        \* bound: characters counted
          RX_CAP,         \* frames that wait at a radio; more are dropped
          CAREFUL         \* a restarted PC program is given a fresh number

Senders == Relays \cup {PC}
Receivers == Relays \cup {CAR}
Seqs == 0 .. MAX_SEQ
Keys == 0 .. MAX_KEYS                   \* 0 : no key at all

ASSUME NetworkAssumption ==
  /\ PC \notin Receivers /\ CAR \notin Relays /\ Link \subseteq Senders \X Receivers
  /\ MAX_KEYS \in Nat /\ MAX_SEQ \in Nat /\ RX_CAP \in Nat /\ CAREFUL \in BOOLEAN

VARIABLES counter, typed,
          serial,         \* the key whose frame is on the serial line, or 0
          packet, slot,
          fifo,           \* what a copy under way gives, as far as is decided
          busy_radio, pktID, inbox,
          carSeq,         \* seq of the car
          lastKey,        \* the last key obeyed since the last reset, or 0
          obeyed,         \* the last key obeyed
          whole,          \* history: no copy has mixed two frames so far
          patient,        \* history: every key so far was typed at rest
          orderly         \* history: nothing lost, no number given again so far

pcVars == <<counter, typed, serial, patient>>
carVars == <<carSeq, lastKey, obeyed>>
radioVars == <<packet, slot, fifo, whole>>
vars == <<pcVars, radioVars, busy_radio, pktID, inbox, carVars, orderly>>

Frame == [seq : Seqs, cmd : Keys]
Blank == [seq |-> 0, cmd |-> 0]

TypeOK == /\ counter \in 0 .. MAX_SEQ + 1
          /\ typed \in Seq([seq : Seqs, reset : BOOLEAN]) /\ Len(typed) <= MAX_KEYS
          /\ serial \in 0 .. Len(typed)
          /\ packet \in [Senders -> Frame]
          /\ slot \in [Senders -> {"free", "queued", "copying", "sent"}]
          /\ fifo \in [Senders -> Frame]
          /\ busy_radio \in [Relays -> BOOLEAN]
          /\ pktID \in [Relays -> Seqs]
          /\ inbox \in [Receivers -> Seq(Frame)]
          /\ carSeq \in Seqs /\ lastKey \in Keys /\ obeyed \in Keys
          /\ whole \in BOOLEAN /\ patient \in BOOLEAN /\ orderly \in BOOLEAN

Init == /\ counter = 0 /\ typed = << >> /\ serial = 0
        /\ packet = [n \in Senders |-> Blank]
        /\ slot = [n \in Senders |-> "free"]
        /\ fifo = [n \in Senders |-> Blank]
        /\ busy_radio = [n \in Relays |-> FALSE]
        /\ pktID = [n \in Relays |-> 0]
        /\ inbox = [n \in Receivers |-> << >>]
        /\ carSeq = 0 /\ lastKey = 0 /\ obeyed = 0
        /\ whole = TRUE /\ patient = TRUE /\ orderly = TRUE

\* No frame is on its way.
Quiet == /\ serial = 0
         /\ \A n \in Senders : slot[n] = "free"
         /\ \A n \in Receivers : inbox[n] = << >>

----------------------------------------------------------------------------
\* main of TestSerial: a known key takes the next number and is sent.
Type(reset) ==
  /\ serial = 0 /\ Len(typed) < MAX_KEYS /\ counter <= MAX_SEQ
  /\ counter' = counter + 1
  /\ typed' = Append(typed, [seq |-> counter, reset |-> reset])
  /\ serial' = Len(typed) + 1
  /\ patient' = (patient /\ Quiet)
  /\ UNCHANGED <<radioVars, busy_radio, pktID, inbox, carVars, orderly>>

\* Any other character, the line feed too, takes a number and is not sent.
TypeOther == /\ counter <= MAX_SEQ
             /\ counter' = counter + 1
             /\ UNCHANGED <<typed, serial, patient, radioVars, busy_radio, pktID, inbox,
                            carVars, orderly>>

\* The program is ended and started again, with its first number as third
\* argument or with none, which is 0.
Restart(first) == /\ CAREFUL => first >= counter
                  /\ counter' = first
                  /\ orderly' = (orderly /\ first >= counter)
                  /\ UNCHANGED <<typed, serial, patient, radioVars, busy_radio, pktID, inbox,
                                 carVars>>

Byte(s, i) == (s \div 256 ^ i) % 256

\* The frames that have each byte from f or from g.  The four bytes of a number
\* are copied one by one too; a command differs in one byte only.
Mixed(f, g) == {h \in Frame :
                  /\ h.cmd \in {f.cmd, g.cmd}
                  /\ \A i \in 0 .. 3 : Byte(h.seq, i) \in {Byte(f.seq, i), Byte(g.seq, i)}}

\* A handler writes the payload of its packet.  If the radio is copying it, the
\* bytes already copied are the old ones; the interrupts that copy the others
\* come before, between and after the handler's writes.
Overwrite(n, f) ==
  /\ packet' = [packet EXCEPT ![n] = f]
  /\ \/ /\ slot[n] = "copying" /\ f # fifo[n]
        /\ \E h \in Mixed(fifo[n], f) :
             /\ fifo' = [fifo EXCEPT ![n] = h]
             /\ whole' = (whole /\ h \in {fifo[n], f})
     \/ /\ slot[n] # "copying" \/ f = fifo[n]
        /\ UNCHANGED <<fifo, whole>>

\* AMSend.send of the packet f; when a send is pending it is refused.
Send(n, f, accepted) == /\ accepted = (slot[n] = "free")
                        /\ Overwrite(n, f)
                        /\ slot' = [slot EXCEPT ![n] = IF accepted THEN "queued" ELSE @]

\* Receive.receive of the PC node: the packet is overwritten in any case;
\* radio_locked, which nothing reads, is left out.
SerialReceive ==
  /\ serial # 0
  /\ serial' = 0
  /\ \E accepted \in BOOLEAN :
       Send(PC, [seq |-> typed[serial].seq, cmd |-> serial], accepted)
  /\ UNCHANGED <<counter, typed, patient, busy_radio, pktID, inbox, carVars, orderly>>

----------------------------------------------------------------------------
IsReset(f) == typed[f.cmd].reset

Heard(n, f) == /\ inbox[n] # << >> /\ f = Head(inbox[n])
               /\ inbox' = [inbox EXCEPT ![n] = Tail(@)]

\* Mutant of RelayTakes: the number goes into the packet when it can be sent,
\* the command always.
RelayTakesHalf(n, f, id) ==
  /\ f.seq > id
  /\ \/ /\ busy_radio[n]
        /\ Overwrite(n, [packet[n] EXCEPT !.cmd = f.cmd])
        /\ pktID' = [pktID EXCEPT ![n] = id]
        /\ UNCHANGED <<slot, busy_radio>>
     \/ /\ ~busy_radio[n] /\ Send(n, f, TRUE)
        /\ pktID' = [pktID EXCEPT ![n] = id]
        /\ UNCHANGED busy_radio
     \/ /\ ~busy_radio[n] /\ slot[n] # "free"
        /\ Overwrite(n, [packet[n] EXCEPT !.cmd = f.cmd])
        /\ UNCHANGED slot
        /\ pktID' = [pktID EXCEPT ![n] = f.seq]
        /\ busy_radio' = [busy_radio EXCEPT ![n] = TRUE]

\* Mutant of RelayTakes: the packet is given to the radio before it is written.
RelaySendsFirst(n, f, id) ==
  /\ f.seq > id
  /\ packet' = [packet EXCEPT ![n] = f]
  /\ pktID' = [pktID EXCEPT ![n] = id]
  /\ IF busy_radio[n] \/ slot[n] # "free" THEN UNCHANGED <<slot, fifo, whole>>
     ELSE /\ slot' = [slot EXCEPT ![n] = "copying"]
          /\ \E h \in Mixed(packet[n], f) : /\ fifo' = [fifo EXCEPT ![n] = h]
                                           /\ whole' = (whole /\ h \in {packet[n], f})
  /\ UNCHANGED busy_radio

\* A relay hears a newer frame: the packet is overwritten in any case, and
\* pktID moves on only when the send is refused (SUCCESS is 0).
RelayTakes(n, f, id) ==
  /\ f.seq > id
  /\ \/ /\ busy_radio[n]
        /\ Overwrite(n, f)
        /\ pktID' = [pktID EXCEPT ![n] = id]
        /\ UNCHANGED <<slot, busy_radio>>
     \/ /\ ~busy_radio[n] /\ Send(n, f, TRUE)
        /\ pktID' = [pktID EXCEPT ![n] = id]
        /\ UNCHANGED busy_radio
     \/ /\ ~busy_radio[n] /\ Send(n, f, FALSE)
        /\ pktID' = [pktID EXCEPT ![n] = f.seq]
        /\ busy_radio' = [busy_radio EXCEPT ![n] = TRUE]

RelaySkips(n, f, id) == /\ f.seq <= id
                        /\ pktID' = [pktID EXCEPT ![n] = id]
                        /\ UNCHANGED <<radioVars, busy_radio>>

\* Receive.receive of a relay; a reset clears pktID before it is compared.
RelayReceive(n) ==
  /\ \E f \in Frame :
       /\ Heard(n, f)
       /\ LET id == IF IsReset(f) THEN 0 ELSE pktID[n]
          IN RelayTakes(n, f, id) \/ RelaySkips(n, f, id)
  /\ UNCHANGED <<pcVars, carVars, orderly>>

\* DataReceive of a relay, when the data send is refused.
DataSendRefused(n) == /\ ~busy_radio[n]
                      /\ busy_radio' = [busy_radio EXCEPT ![n] = TRUE]
                      /\ orderly' = FALSE
                      /\ UNCHANGED <<pcVars, radioVars, pktID, inbox, carVars>>

\* DataSend.sendDone of a relay.
DataSendDone(n) == /\ busy_radio[n]
                   /\ busy_radio' = [busy_radio EXCEPT ![n] = FALSE]
                   /\ UNCHANGED <<pcVars, radioVars, pktID, inbox, carVars, orderly>>

----------------------------------------------------------------------------
\* Mutant of Newer: a frame that has been obeyed is obeyed again.
NewerOrSame(f) == f.seq >= carSeq

Newer(f) == f.seq > carSeq

\* Receive.receive of the car; the number is kept before the command is done.
CarReceive ==
  /\ \E f \in Frame :
       /\ Heard(CAR, f)
       /\ IF ~Newer(f) THEN UNCHANGED carVars
          ELSE /\ obeyed' = f.cmd
               /\ carSeq' = IF IsReset(f) THEN 0 ELSE f.seq
               /\ lastKey' = IF IsReset(f) THEN 0 ELSE f.cmd
  /\ UNCHANGED <<pcVars, radioVars, busy_radio, pktID, orderly>>

\* TXFIFO.write: the radio begins to copy the packet.
CopyStarts(n) == /\ slot[n] = "queued"
                 /\ slot' = [slot EXCEPT ![n] = "copying"]
                 /\ fifo' = [fifo EXCEPT ![n] = packet[n]]
                 /\ UNCHANGED <<pcVars, packet, whole, busy_radio, pktID, inbox, carVars, orderly>>

\* The copy is done and the radio sends it; the nodes of S receive it.
Transmit(n, S) ==
  /\ slot[n] = "copying"
  /\ slot' = [slot EXCEPT ![n] = "sent"]
  /\ fifo' = [fifo EXCEPT ![n] = Blank]
  /\ \A m \in S : <<n, m>> \in Link /\ Len(inbox[m]) < RX_CAP
  /\ inbox' = [m \in Receivers |-> IF m \in S THEN Append(inbox[m], fifo[n]) ELSE inbox[m]]
  /\ orderly' = (orderly /\ \A m \in Receivers : <<n, m>> \in Link => m \in S)
  /\ UNCHANGED <<pcVars, packet, whole, busy_radio, pktID, carVars>>

\* Mutant of SendDone: only a data frame's sendDone clears the relay's flag.
SendDoneKeepsBusy(n) ==
  /\ slot[n] = "sent"
  /\ slot' = [slot EXCEPT ![n] = "free"]
  /\ UNCHANGED <<pcVars, packet, fifo, whole, busy_radio, pktID, inbox, carVars, orderly>>

\* AMSend.sendDone of a relay and of the PC node.
SendDone(n) ==
  /\ slot[n] = "sent"
  /\ slot' = [slot EXCEPT ![n] = "free"]
  /\ busy_radio' = [m \in Relays |-> IF m = n THEN FALSE ELSE busy_radio[m]]
  /\ UNCHANGED <<pcVars, packet, fifo, whole, pktID, inbox, carVars, orderly>>

----------------------------------------------------------------------------
PcStep == \/ \E reset \in BOOLEAN : Type(reset)
          \/ TypeOther \/ SerialReceive
          \/ \E first \in Seqs : Restart(first)

RelayStep(n) == RelayReceive(n) \/ DataSendRefused(n) \/ DataSendDone(n)

RadioStep(n) == CopyStarts(n) \/ SendDone(n) \/ \E S \in SUBSET Receivers : Transmit(n, S)

Next == \/ PcStep \/ CarReceive
        \/ \E n \in Relays : RelayStep(n)
        \/ \E n \in Senders : RadioStep(n)

Spec == Init /\ [][Next]_vars

----------------------------------------------------------------------------
\* The frames under way: pending, being copied, or received.
UnderWay == {packet[n] : n \in {m \in Senders : slot[m] \in {"queued", "copying"}}}
            \cup {fifo[n] : n \in {m \in Senders : slot[m] = "copying"}}
            \cup UNION {{inbox[n][i] : i \in 1 .. Len(inbox[n])} : n \in Receivers}

\* A frame says what the PC program made it say.
Genuine(f) == f.cmd \in 1 .. Len(typed) /\ f.seq = typed[f.cmd].seq

\* A key has a higher number than the keys before it.
NumbersGrow == /\ \A j \in 1 .. Len(typed) : typed[j].seq < counter
               /\ \A i, j \in 1 .. Len(typed) : i < j => typed[i].seq < typed[j].seq

\* The number that the car keeps is that of the last key it obeyed.
CarKnows == lastKey # 0 => lastKey \in 1 .. Len(typed) /\ carSeq = typed[lastKey].seq

\* Even a mixed frame commands something that was typed.
CommandsAreTyped == \A f \in UnderWay : f.cmd \in 1 .. Len(typed)

\* As long as no copy has mixed two frames, nobody mixes numbers and commands.
GenuineIfWhole == whole => CarKnows /\ \A f \in UnderWay : Genuine(f)

\* The inductive invariant: every node overwrites its only packet while a send
\* of it is pending and gives it to the radio again (TestSerialC.nc:42-44,
\* RelayC.nc:67-84), and yet a number goes with another command only if the
\* packet is overwritten during the copy itself.
NetInv == TypeOK /\ NumbersGrow /\ CommandsAreTyped /\ GenuineIfWhole

\* No copy mixes two frames as long as every key is typed when the network is
\* at rest, whatever is lost: then what overwrites a packet during its copy,
\* a relay's by what it hears of other relays too, is the same frame again
\* (RelayC.nc:65-72, TestSerialC.nc:42-44).
WholeIfPatient == patient => whole

\* Between two resets the car obeys keys in the order in which they were
\* typed and none twice, whatever is lost, late, or repeated by relays that
\* hear each other: what waits at the car and would be obeyed is later than
\* what has been obeyed (RadioToLedsC.nc:110-111, 199-201, RelayC.nc:61-65).
\* It rests on copies that mix no frames: the number of one key with the
\* command of the next, and the next key is obeyed twice.
ObeysInOrder == whole =>
                  \A i \in 1 .. Len(inbox[CAR]) :
                    LET f == inbox[CAR][i] IN Newer(f) => f.cmd > lastKey

\* What the network must be like for a command to arrive: a set of nodes that
\* holds the PC node, and whoever hears one of its nodes, holds the car.
CommandReachesCar ==
  \A S \in SUBSET (Senders \cup Receivers) :
    PC \in S /\ (\A e \in Link : e[1] \in S => e[2] \in S) => CAR \in S

\* A key other than number 0 that is typed when the network is at rest is the
\* last one obeyed when it is at rest again, if nothing is lost and no data
\* is sent: no relay suppresses it, no flag stays set, and what overwrites a
\* packet during its copy is the same frame (RelayC.nc:61-84, 125-129).
QuietMeansObeyed ==
  (patient /\ orderly /\ Quiet /\ typed # << >>) =>
    LET k == Len(typed) IN typed[k].seq > 0 => obeyed = k
=============================================================================
