------------------------ MODULE CommandNetworkProofs ------------------------
(***************************************************************************)
(* The car obeys in order: for any relays, links, losses and data traffic, *)
(* and any number of keys, as long as no copy into a radio has mixed two   *)
(* frames.  The invariant says that numbers grow with the keys, that every *)
(* frame under way is then genuine, and that the car's number is that of   *)
(* the last key it obeyed.  And what is typed at rest is obeyed: then only *)
(* the last key is under way, so that what overwrites a packet during its  *)
(* copy is the same frame, and, as long as nothing is lost, a node that    *)
(* has got it passes it on before it is at rest again.                     *)
(***************************************************************************)
EXTENDS CommandNetwork, SequenceTheorems, TLAPS

\* Numbers are numbers.
LEMMA TypedNumbers ==
  ASSUME TypeOK
  PROVE  \A j \in 1 .. Len(typed) : typed[j].seq \in Nat
<1>1. ASSUME NEW j \in 1 .. Len(typed) PROVE typed[j].seq \in Nat
  <2>1. typed \in Seq([seq : Seqs, reset : BOOLEAN])
    BY DEF TypeOK
  <2>2. typed[j] \in [seq : Seqs, reset : BOOLEAN]
    BY <1>1, <2>1, ElementOfSeq
  <2>3. typed[j].seq \in 0 .. MAX_SEQ
    BY <2>2 DEF Seqs
  <2> QED
    BY <2>3, NetworkAssumption
<1> QED
  BY <1>1

\* A frame under way commands something that was typed, and says what was typed
\* as long as no copy has mixed two frames.
Sound(f) == f.cmd \in 1 .. Len(typed) /\ (whole => Genuine(f))

SoundFrames ==
  /\ \A n \in Senders : slot[n] \in {"queued", "copying"} => Sound(packet[n])
  /\ \A n \in Senders : slot[n] = "copying" => Sound(fifo[n])
  /\ \A n \in Receivers : \A i \in 1 .. Len(inbox[n]) : Sound(inbox[n][i])

\* NetInv, but numbers need not grow any more once a restart of the PC program
\* has taken a number again.
CoreInv == /\ TypeOK /\ SoundFrames
           /\ whole => CarKnows
           /\ CAREFUL \/ orderly => NumbersGrow

\* What it says of the frames under way.
LEMMA CoreMeansNet ==
  ASSUME CoreInv
  PROVE  CommandsAreTyped /\ GenuineIfWhole
<1>1. \A f \in UnderWay : Sound(f)
  BY DEF CoreInv, SoundFrames, UnderWay
<1> QED
  BY <1>1 DEF CoreInv, CommandsAreTyped, GenuineIfWhole, Sound

\* What would be obeyed is later than what has been.
LEMMA GenuineObeysInOrder ==
  ASSUME CoreInv, NumbersGrow
  PROVE  ObeysInOrder
<1>1. SUFFICES ASSUME whole, NEW i \in 1 .. Len(inbox[CAR]), Newer(inbox[CAR][i])
               PROVE  inbox[CAR][i].cmd > lastKey
  BY DEF ObeysInOrder
<1> DEFINE f == inbox[CAR][i]
<1>2. CAR \in Receivers /\ TypeOK /\ CarKnows
  BY <1>1 DEF Receivers, CoreInv
<1>3. f.cmd \in 1 .. Len(typed) /\ f.seq = typed[f.cmd].seq
  BY <1>1, <1>2 DEF CoreInv, SoundFrames, Sound, Genuine
<1>4. Len(typed) \in Nat /\ lastKey \in Nat /\ carSeq \in Nat /\ f.seq > carSeq
  BY <1>1, <1>2 DEF TypeOK, Keys, Seqs, Newer
<1>5. CASE lastKey = 0
  BY <1>3, <1>4, <1>5
<1>6. CASE lastKey # 0
  <2>1. lastKey \in 1 .. Len(typed) /\ carSeq = typed[lastKey].seq
    BY <1>2, <1>6 DEF CarKnows
  <2>2. f.cmd # lastKey
    BY <1>3, <1>4, <2>1
  <2>3. ASSUME f.cmd < lastKey PROVE FALSE
    <3>1. typed[f.cmd].seq < typed[lastKey].seq
      BY <1>3, <2>1, <2>3 DEF NumbersGrow
    <3>2. f.seq \in Nat
      BY <1>2, <1>3, TypedNumbers
    <3> QED
      BY <1>3, <1>4, <2>1, <3>1, <3>2
  <2> QED
    BY <1>3, <1>4, <2>2, <2>3
<1> QED
  BY <1>5, <1>6

\* A key is typed: it has a higher number than all before it.
LEMMA TypeStep ==
  ASSUME CoreInv, NEW reset \in BOOLEAN, Type(reset)
  PROVE  CoreInv'
<1> DEFINE r == [seq |-> counter, reset |-> reset]
<1>1. /\ TypeOK /\ SoundFrames /\ (whole => CarKnows)
      /\ CAREFUL \/ orderly => NumbersGrow
  BY DEF CoreInv
<1>2. /\ serial = 0 /\ Len(typed) < MAX_KEYS /\ counter <= MAX_SEQ
      /\ counter' = counter + 1 /\ typed' = Append(typed, r)
      /\ serial' = Len(typed) + 1
      /\ UNCHANGED <<packet, slot, fifo, whole, busy_radio, pktID, inbox,
                     carSeq, lastKey, obeyed, orderly>>
  BY DEF Type, carVars, radioVars
<1>3. counter \in Nat /\ r \in [seq : Seqs, reset : BOOLEAN]
  BY <1>1, <1>2, NetworkAssumption DEF TypeOK, Seqs
<1>4. /\ typed \in Seq([seq : Seqs, reset : BOOLEAN])
      /\ typed' \in Seq([seq : Seqs, reset : BOOLEAN])
      /\ Len(typed) \in Nat /\ Len(typed') = Len(typed) + 1
      /\ \A j \in 1 .. Len(typed) : typed'[j] = typed[j]
      /\ typed'[Len(typed) + 1] = r
  BY <1>1, <1>2, <1>3 DEF TypeOK
<1>5. patient' \in BOOLEAN
  BY <1>1 DEF Type, TypeOK, Quiet
<1>6. TypeOK'
  BY <1>1, <1>2, <1>3, <1>4, <1>5, NetworkAssumption DEF TypeOK
<1>7. CAREFUL \/ orderly' => NumbersGrow'
  <2> HAVE CAREFUL \/ orderly'
  <2>0. NumbersGrow
    BY <1>1, <1>2
  <2>1. \A j \in 1 .. Len(typed) : typed[j].seq < counter /\ typed[j].seq \in Nat
    BY <1>1, <2>0, TypedNumbers DEF NumbersGrow
  <2>2. \A j \in 1 .. Len(typed') : j \in 1 .. Len(typed) \/ j = Len(typed) + 1
    BY <1>4
  <2> QED
    BY <1>2, <1>3, <1>4, <2>0, <2>1, <2>2 DEF NumbersGrow
<1>8. SoundFrames'
  <2>1. \A n \in Senders : slot'[n] \in {"queued", "copying"} => Sound(packet[n])'
    BY <1>1, <1>2, <1>4 DEF SoundFrames, Sound, Genuine
  <2>2. \A n \in Senders : slot'[n] = "copying" => Sound(fifo[n])'
    BY <1>1, <1>2, <1>4 DEF SoundFrames, Sound, Genuine
  <2>3. \A n \in Receivers : \A i \in 1 .. Len(inbox'[n]) : Sound(inbox[n][i])'
    BY <1>1, <1>2, <1>4 DEF SoundFrames, Sound, Genuine
  <2> QED
    BY <2>1, <2>2, <2>3 DEF SoundFrames
<1>9. whole' => CarKnows'
  BY <1>1, <1>2, <1>4 DEF CarKnows
<1> QED
  BY <1>6, <1>7, <1>8, <1>9 DEF CoreInv

\* Steps that type nothing and leave the frames under way sound.
LEMMA OtherSteps ==
  ASSUME CoreInv, TypeOK', typed' = typed, orderly' => orderly,
         counter' \in Nat, CAREFUL \/ orderly' => counter' >= counter,
         SoundFrames', whole' => CarKnows'
  PROVE  CoreInv'
<1>1. /\ TypeOK /\ counter \in Nat
      /\ CAREFUL \/ orderly => NumbersGrow
  BY DEF CoreInv, TypeOK
<1>2. \A j \in 1 .. Len(typed) : typed[j].seq \in Nat
  BY <1>1, TypedNumbers
<1>3. CAREFUL \/ orderly' => NumbersGrow'
  BY <1>1, <1>2 DEF NumbersGrow
<1> QED
  BY <1>3 DEF CoreInv

\* Counting and restarting touch no frame.
LEMMA FreshNumbers ==
  ASSUME CoreInv,
         TypeOther \/ \E first \in Seqs : Restart(first)
  PROVE  CoreInv'
<1>1. TypeOK /\ SoundFrames /\ (whole => CarKnows)
  BY DEF CoreInv
<1>2. UNCHANGED <<typed, serial, patient, packet, slot, fifo, whole, pktID, inbox,
                  carSeq, lastKey, obeyed>>
  BY DEF TypeOther, Restart, radioVars, carVars
<1>3. /\ counter' \in 0 .. MAX_SEQ + 1 /\ counter' \in Nat
      /\ CAREFUL \/ orderly' => counter' >= counter
  BY <1>1, NetworkAssumption DEF TypeOther, Restart, pcVars,
     TypeOK, Seqs
<1>4. orderly' \in BOOLEAN /\ (orderly' => orderly)
  <2>1. orderly' = orderly \/ \E b \in BOOLEAN : orderly' = (orderly /\ b)
    BY DEF TypeOther, Restart
  <2> QED
    BY <1>1, <2>1 DEF TypeOK
<1>5. busy_radio' \in [Relays -> BOOLEAN]
  BY <1>1 DEF TypeOther, Restart, TypeOK
<1>6. TypeOK'
  BY <1>1, <1>2, <1>3, <1>4, <1>5 DEF TypeOK
<1>7. SoundFrames' /\ (whole' => CarKnows')
  BY <1>1, <1>2 DEF SoundFrames, Sound, Genuine, CarKnows
<1> QED
  BY <1>2, <1>3, <1>4, <1>6, <1>7, OtherSteps

\* Nor does data traffic.
LEMMA DataFlagStep ==
  ASSUME CoreInv, NEW n \in Relays,
         DataSendRefused(n) \/ DataSendDone(n)
  PROVE  CoreInv'
<1>1. TypeOK /\ SoundFrames /\ (whole => CarKnows)
  BY DEF CoreInv
<1>2. UNCHANGED <<typed, serial, patient, packet, slot, fifo, whole, pktID, inbox,
                  carSeq, lastKey, obeyed>>
  BY DEF DataSendRefused, DataSendDone, pcVars, radioVars, carVars
<1>3. counter' \in 0 .. MAX_SEQ + 1 /\ counter' \in Nat /\ counter' >= counter
  BY <1>1, NetworkAssumption DEF DataSendRefused, DataSendDone, pcVars,
     TypeOK, Seqs
<1>4. orderly' \in BOOLEAN /\ (orderly' => orderly)
  BY <1>1 DEF DataSendRefused, DataSendDone, TypeOK
<1>5. busy_radio' \in [Relays -> BOOLEAN]
  BY <1>1 DEF DataSendRefused, DataSendDone, TypeOK
<1>6. TypeOK'
  BY <1>1, <1>2, <1>3, <1>4, <1>5 DEF TypeOK
<1>7. SoundFrames' /\ (whole' => CarKnows')
  BY <1>1, <1>2 DEF SoundFrames, Sound, Genuine, CarKnows
<1> QED
  BY <1>2, <1>3, <1>4, <1>6, <1>7, OtherSteps

\* A sound frame that overwrites a packet leaves the packet sound and what the
\* copy under way, if there is one, will give.
LEMMA OverwriteStep ==
  ASSUME CoreInv, NEW n \in Senders, NEW f \in Frame, Sound(f), Overwrite(n, f),
         typed' = typed, inbox' \in [Receivers -> Seq(Frame)],
         \A m \in Receivers : \A i \in 1 .. Len(inbox'[m]) : Sound(inbox'[m][i]),
         NEW x \in {slot[n], "queued"}, slot' = [slot EXCEPT ![n] = x],
         x = slot[n] \/ slot[n] = "free"
  PROVE  /\ packet' \in [Senders -> Frame]
         /\ fifo' \in [Senders -> Frame]
         /\ slot' \in [Senders -> {"free", "queued", "copying", "sent"}]
         /\ whole' \in BOOLEAN /\ (whole' => whole)
         /\ SoundFrames'
<1>1. /\ TypeOK /\ SoundFrames /\ whole \in BOOLEAN /\ f \in Frame
      /\ packet \in [Senders -> Frame] /\ fifo \in [Senders -> Frame]
      /\ slot \in [Senders -> {"free", "queued", "copying", "sent"}]
  BY DEF CoreInv, TypeOK
<1>2. packet' = [packet EXCEPT ![n] = f]
  BY DEF Overwrite
<1>3. PICK h \in Frame : /\ fifo' = [fifo EXCEPT ![n] = h]
                         /\ h.cmd \in {fifo[n].cmd, f.cmd}
                         /\ h = fifo[n] \/ slot[n] = "copying"
                         /\ whole' \in BOOLEAN /\ (whole' => whole /\ h \in {fifo[n], f})
  <2>1. CASE slot[n] = "copying" /\ f # fifo[n]
    <3>1. PICK h \in Mixed(fifo[n], f) : /\ fifo' = [fifo EXCEPT ![n] = h]
                                         /\ whole' = (whole /\ h \in {fifo[n], f})
      BY <2>1 DEF Overwrite
    <3>2. h \in Frame /\ h.cmd \in {fifo[n].cmd, f.cmd}
      BY DEF Mixed
    <3> QED
      BY <1>1, <2>1, <3>1, <3>2
  <2>2. CASE slot[n] # "copying" \/ f = fifo[n]
    <3>1. UNCHANGED <<fifo, whole>>
      BY <2>2 DEF Overwrite
    <3>2. fifo' = [fifo EXCEPT ![n] = fifo[n]] /\ fifo[n] \in Frame
      BY <1>1, <3>1
    <3> QED
      BY <1>1, <3>1, <3>2
  <2> QED
    BY <2>1, <2>2
<1>4. /\ packet' \in [Senders -> Frame] /\ fifo' \in [Senders -> Frame]
      /\ slot' \in [Senders -> {"free", "queued", "copying", "sent"}]
  BY <1>1, <1>2, <1>3
<1>5. \A g : Sound(g) => Sound(g)'
  BY <1>3 DEF Sound, Genuine
<1>6. ASSUME NEW m \in Senders, slot'[m] \in {"queued", "copying"} PROVE Sound(packet[m])'
  <2>1. CASE m = n
    BY <1>1, <1>2, <1>3, <2>1 DEF Sound, Genuine
  <2>2. CASE m # n
    <3>1. packet'[m] = packet[m] /\ slot'[m] = slot[m]
      BY <1>1, <1>2, <2>2
    <3> QED
      BY <1>1, <1>3, <1>6, <3>1 DEF SoundFrames, Sound, Genuine
  <2> QED
    BY <2>1, <2>2
<1>7. ASSUME NEW m \in Senders, slot'[m] = "copying" PROVE Sound(fifo[m])'
  <2>1. CASE m = n
    <3>1. slot[n] = "copying" /\ fifo'[m] = h /\ Sound(fifo[n])
      BY <1>1, <1>3, <1>7, <2>1 DEF SoundFrames
    <3>2. h.cmd \in 1 .. Len(typed) /\ (whole' => whole /\ (h = fifo[n] \/ h = f))
      BY <1>3, <3>1 DEF Sound
    <3> QED
      BY <3>1, <3>2 DEF Sound, Genuine
  <2>2. CASE m # n
    <3>1. fifo'[m] = fifo[m] /\ slot'[m] = slot[m]
      BY <1>1, <1>3, <2>2
    <3> QED
      BY <1>1, <1>3, <1>7, <3>1 DEF SoundFrames, Sound, Genuine
  <2> QED
    BY <2>1, <2>2
<1>8. \A m \in Receivers : \A i \in 1 .. Len(inbox'[m]) : Sound(inbox[m][i])'
  BY <1>3 DEF Sound, Genuine
<1> QED
  BY <1>3, <1>4, <1>6, <1>7, <1>8 DEF SoundFrames

\* The PC node takes a frame from the serial line.
LEMMA SerialStep ==
  ASSUME CoreInv, SerialReceive
  PROVE  CoreInv'
<1> DEFINE g == [seq |-> typed[serial].seq, cmd |-> serial]
<1>1. TypeOK /\ SoundFrames /\ (whole => CarKnows) /\ PC \in Senders
  BY DEF CoreInv, Senders
<1>2. /\ serial # 0 /\ serial' = 0 /\ Overwrite(PC, g)
      /\ \E x \in {slot[PC], "queued"} : /\ slot' = [slot EXCEPT ![PC] = x]
                                         /\ x = slot[PC] \/ slot[PC] = "free"
      /\ UNCHANGED <<counter, typed, patient, busy_radio, pktID, inbox, carSeq, lastKey,
                     obeyed, orderly>>
  BY DEF SerialReceive, Send, carVars
<1>3. serial \in 1 .. Len(typed) /\ Len(typed) \in Nat /\ Len(typed) <= MAX_KEYS
  BY <1>1, <1>2 DEF TypeOK
<1>4. typed[serial].seq \in Seqs
  <2>1. typed \in Seq([seq : Seqs, reset : BOOLEAN])
    BY <1>1 DEF TypeOK
  <2>2. typed[serial] \in [seq : Seqs, reset : BOOLEAN]
    BY <1>3, <2>1, ElementOfSeq
  <2> QED
    BY <2>2
<1>5. g \in Frame /\ Sound(g)
  BY <1>3, <1>4, NetworkAssumption DEF Frame, Keys, Genuine, Sound
<1> HIDE DEF g
<1>6. /\ inbox' \in [Receivers -> Seq(Frame)]
      /\ \A m \in Receivers : \A i \in 1 .. Len(inbox'[m]) : Sound(inbox'[m][i])
  BY <1>1, <1>2 DEF TypeOK, SoundFrames
<1>7. /\ packet' \in [Senders -> Frame] /\ fifo' \in [Senders -> Frame]
      /\ slot' \in [Senders -> {"free", "queued", "copying", "sent"}]
      /\ whole' \in BOOLEAN /\ (whole' => whole) /\ SoundFrames'
  BY <1>1, <1>2, <1>5, <1>6, OverwriteStep
<1>8. TypeOK'
  BY <1>1, <1>2, <1>3, <1>7 DEF TypeOK
<1>9. (whole' => CarKnows') /\ counter' \in Nat /\ counter' >= counter
  BY <1>1, <1>2, <1>7 DEF CarKnows, TypeOK
<1> QED
  BY <1>2, <1>7, <1>8, <1>9, OtherSteps

\* What a node hears is sound, and the rest of its queue stays so.
LEMMA HeardStep ==
  ASSUME CoreInv, NEW n \in Receivers, NEW f \in Frame, Heard(n, f)
  PROVE  /\ Sound(f)
         /\ inbox' \in [Receivers -> Seq(Frame)]
         /\ \A m \in Receivers : \A i \in 1 .. Len(inbox'[m]) : Sound(inbox'[m][i])
<1>1. /\ inbox \in [Receivers -> Seq(Frame)]
      /\ \A m \in Receivers : \A i \in 1 .. Len(inbox[m]) : Sound(inbox[m][i])
  BY DEF CoreInv, TypeOK, SoundFrames
<1>2. inbox[n] # << >> /\ f = Head(inbox[n]) /\ inbox' = [inbox EXCEPT ![n] = Tail(@)]
  BY DEF Heard
<1>3. inbox[n] \in Seq(Frame) /\ Len(inbox[n]) \in Nat /\ Len(inbox[n]) > 0
  BY <1>1, <1>2
<1>4. /\ f = inbox[n][1] /\ Tail(inbox[n]) \in Seq(Frame)
      /\ Len(Tail(inbox[n])) = Len(inbox[n]) - 1
      /\ \A i \in 1 .. Len(inbox[n]) - 1 : Tail(inbox[n])[i] = inbox[n][i + 1]
  BY <1>2, <1>3
<1>5. Sound(f)
  BY <1>1, <1>3, <1>4
<1>6. inbox' \in [Receivers -> Seq(Frame)]
  BY <1>1, <1>2, <1>4
<1>7. ASSUME NEW m \in Receivers, NEW i \in 1 .. Len(inbox'[m]) PROVE Sound(inbox'[m][i])
  <2>1. CASE m = n
    <3>1. inbox'[m] = Tail(inbox[n]) /\ i \in 1 .. Len(inbox[n]) - 1
      BY <1>1, <1>2, <1>4, <1>7, <2>1
    <3>2. inbox'[m][i] = inbox[n][i + 1] /\ i + 1 \in 1 .. Len(inbox[n])
      BY <1>3, <1>4, <3>1
    <3> QED
      BY <1>1, <3>2
  <2>2. CASE m # n
    BY <1>1, <1>2, <1>7, <2>2
  <2> QED
    BY <2>1, <2>2
<1> QED
  BY <1>5, <1>6, <1>7

\* A relay takes a frame or skips it.
LEMMA RelayReceiveStep ==
  ASSUME CoreInv, NEW n \in Relays, RelayReceive(n)
  PROVE  CoreInv'
<1>1. TypeOK /\ SoundFrames /\ (whole => CarKnows) /\ n \in Receivers /\ n \in Senders
  BY DEF CoreInv, Receivers, Senders
<1>2. PICK f \in Frame : /\ Heard(n, f)
                         /\ LET id == IF IsReset(f) THEN 0 ELSE pktID[n]
                            IN RelayTakes(n, f, id) \/ RelaySkips(n, f, id)
  BY DEF RelayReceive
<1>3. UNCHANGED <<counter, typed, serial, patient, carSeq, lastKey, obeyed, orderly>>
  BY DEF RelayReceive, pcVars, carVars
<1>4. /\ Sound(f) /\ inbox' \in [Receivers -> Seq(Frame)]
      /\ \A m \in Receivers : \A i \in 1 .. Len(inbox'[m]) : Sound(inbox'[m][i])
  BY <1>1, <1>2, HeardStep
<1>5. PICK id \in Seqs : RelayTakes(n, f, id) \/ RelaySkips(n, f, id)
  BY <1>1, <1>2, NetworkAssumption DEF TypeOK, Seqs
<1>6. /\ packet' \in [Senders -> Frame] /\ fifo' \in [Senders -> Frame]
      /\ slot' \in [Senders -> {"free", "queued", "copying", "sent"}]
      /\ whole' \in BOOLEAN /\ (whole' => whole) /\ SoundFrames'
      /\ busy_radio' \in [Relays -> BOOLEAN]
      /\ pktID' \in [Relays -> Seqs]
  <2>1. f.seq \in Seqs
    BY DEF Frame
  <2>2. CASE RelayTakes(n, f, id)
    <3>1. /\ Overwrite(n, f)
          /\ \E x \in {slot[n], "queued"} : /\ slot' = [slot EXCEPT ![n] = x]
                                            /\ x = slot[n] \/ slot[n] = "free"
          /\ \E x \in BOOLEAN : busy_radio' = [busy_radio EXCEPT ![n] = x]
          /\ \E x \in Seqs : pktID' = [pktID EXCEPT ![n] = x]
      <4>1. /\ slot = [slot EXCEPT ![n] = slot[n]]
            /\ busy_radio = [busy_radio EXCEPT ![n] = busy_radio[n]]
            /\ busy_radio[n] \in BOOLEAN
        BY <1>1 DEF TypeOK
      <4> QED
        BY <1>5, <2>1, <2>2, <4>1 DEF RelayTakes, Send
    <3>2. /\ packet' \in [Senders -> Frame] /\ fifo' \in [Senders -> Frame]
          /\ slot' \in [Senders -> {"free", "queued", "copying", "sent"}]
          /\ whole' \in BOOLEAN /\ (whole' => whole) /\ SoundFrames'
      BY <1>1, <1>3, <1>4, <3>1, OverwriteStep
    <3> QED
      BY <1>1, <3>1, <3>2 DEF TypeOK
  <2>3. CASE RelaySkips(n, f, id)
    <3>1. UNCHANGED <<packet, slot, fifo, whole, busy_radio>> /\ pktID' = [pktID EXCEPT ![n] = id]
      BY <2>3 DEF RelaySkips, radioVars
    <3>2. SoundFrames'
      BY <1>1, <1>3, <1>4, <3>1 DEF SoundFrames, Sound, Genuine
    <3> QED
      BY <1>1, <1>5, <3>1, <3>2 DEF TypeOK
  <2> QED
    BY <1>5, <2>2, <2>3
<1>7. TypeOK'
  BY <1>1, <1>3, <1>4, <1>6 DEF TypeOK
<1>8. (whole' => CarKnows') /\ counter' \in Nat /\ counter' >= counter
  BY <1>1, <1>3, <1>6 DEF CarKnows, TypeOK
<1> QED
  BY <1>3, <1>6, <1>7, <1>8, OtherSteps

\* The car obeys a frame or ignores it.
LEMMA CarStep ==
  ASSUME CoreInv, CarReceive
  PROVE  CoreInv'
<1>1. TypeOK /\ SoundFrames /\ (whole => CarKnows) /\ CAR \in Receivers
  BY DEF CoreInv, Receivers
<1>2. PICK f \in Frame : /\ Heard(CAR, f)
                         /\ IF ~Newer(f) THEN UNCHANGED carVars
                            ELSE /\ obeyed' = f.cmd
                                 /\ carSeq' = IF IsReset(f) THEN 0 ELSE f.seq
                                 /\ lastKey' = IF IsReset(f) THEN 0 ELSE f.cmd
  BY DEF CarReceive
<1>3. UNCHANGED <<counter, typed, serial, patient, packet, slot, fifo, whole,
                  busy_radio, pktID, orderly>>
  BY DEF CarReceive, pcVars, radioVars
<1>4. /\ Sound(f) /\ inbox' \in [Receivers -> Seq(Frame)]
      /\ \A m \in Receivers : \A i \in 1 .. Len(inbox'[m]) : Sound(inbox'[m][i])
  BY <1>1, <1>2, HeardStep
<1>5. f.seq \in Seqs /\ f.cmd \in Keys /\ 0 \in Seqs /\ 0 \in Keys
  BY NetworkAssumption DEF Frame, Seqs, Keys
<1>6. carSeq' \in Seqs /\ lastKey' \in Keys /\ obeyed' \in Keys
  BY <1>1, <1>2, <1>5 DEF TypeOK, carVars
<1>7. TypeOK'
  BY <1>1, <1>3, <1>4, <1>6 DEF TypeOK
<1>8. SoundFrames'
  BY <1>1, <1>3, <1>4 DEF SoundFrames, Sound, Genuine
<1>9. (whole' => CarKnows') /\ counter' \in Nat /\ counter' >= counter
  BY <1>1, <1>2, <1>3, <1>4 DEF CarKnows, Sound, Genuine, TypeOK, carVars
<1> QED
  BY <1>3, <1>7, <1>8, <1>9, OtherSteps

\* A radio begins to copy a packet, sends what it has copied, or reports it sent.
LEMMA RadioStepInv ==
  ASSUME CoreInv, NEW n \in Senders, RadioStep(n)
  PROVE  CoreInv'
<1>1. TypeOK /\ SoundFrames /\ (whole => CarKnows)
  BY DEF CoreInv
<1>2. UNCHANGED <<counter, typed, serial, patient, packet, whole, pktID, carSeq, lastKey, obeyed>>
  BY DEF RadioStep, CopyStarts, SendDone, Transmit, pcVars, carVars
<1>3. /\ slot' \in [Senders -> {"free", "queued", "copying", "sent"}]
      /\ fifo' \in [Senders -> Frame]
      /\ busy_radio' \in [Relays -> BOOLEAN]
      /\ orderly' \in BOOLEAN /\ (orderly' => orderly)
      /\ \A m \in Senders : slot'[m] \in {"queued", "copying"} => slot[m] \in {"queued", "copying"}
      /\ \A m \in Senders : slot'[m] = "copying" =>
           \/ slot[m] = "copying" /\ fifo'[m] = fifo[m]
           \/ slot[m] = "queued" /\ fifo'[m] = packet[m]
  <2>1. CASE CopyStarts(n)
    BY <1>1, <2>1 DEF CopyStarts, TypeOK
  <2>2. CASE SendDone(n)
    BY <1>1, <2>2 DEF SendDone, TypeOK
  <2>3. CASE \E S \in SUBSET Receivers : Transmit(n, S)
    <3>1. Blank \in Frame
      BY NetworkAssumption DEF Blank, Frame, Seqs, Keys
    <3> QED
      BY <1>1, <2>3, <3>1 DEF Transmit, TypeOK
  <2> QED
    BY <2>1, <2>2, <2>3 DEF RadioStep
<1>4. /\ inbox' \in [Receivers -> Seq(Frame)]
      /\ \A m \in Receivers : \A i \in 1 .. Len(inbox'[m]) : Sound(inbox'[m][i])
  <2>1. CASE CopyStarts(n) \/ SendDone(n)
    BY <1>1, <2>1 DEF CopyStarts, SendDone, TypeOK, SoundFrames
  <2>2. CASE \E S \in SUBSET Receivers : Transmit(n, S)
    <3>1. PICK S \in SUBSET Receivers : Transmit(n, S)
      BY <2>2
    <3>2. /\ fifo[n] \in Frame /\ Sound(fifo[n])
          /\ inbox' = [m \in Receivers |->
                         IF m \in S THEN Append(inbox[m], fifo[n]) ELSE inbox[m]]
      BY <1>1, <3>1 DEF Transmit, TypeOK, SoundFrames
    <3>3. \A m \in Receivers : inbox[m] \in Seq(Frame)
      BY <1>1 DEF TypeOK
    <3>4. \A m \in Receivers : /\ Append(inbox[m], fifo[n]) \in Seq(Frame)
                               /\ \A i \in 1 .. Len(Append(inbox[m], fifo[n])) :
                                    Sound(Append(inbox[m], fifo[n])[i])
      BY <1>1, <3>2, <3>3 DEF SoundFrames
    <3> QED
      BY <1>1, <3>2, <3>3, <3>4 DEF SoundFrames
  <2> QED
    BY <2>1, <2>2 DEF RadioStep
<1>5. TypeOK'
  BY <1>1, <1>2, <1>3, <1>4 DEF TypeOK
<1>6. SoundFrames'
  <2>1. \A m \in Senders : slot'[m] \in {"queued", "copying"} => Sound(packet[m])'
    BY <1>1, <1>2, <1>3 DEF SoundFrames, Sound, Genuine
  <2>2. \A m \in Senders : slot'[m] = "copying" => Sound(fifo'[m])
    BY <1>1, <1>3 DEF SoundFrames
  <2>3. \A m \in Senders : slot'[m] = "copying" => Sound(fifo[m])'
    BY <1>2, <2>2 DEF Sound, Genuine
  <2>4. \A m \in Receivers : \A i \in 1 .. Len(inbox'[m]) : Sound(inbox[m][i])'
    BY <1>2, <1>4 DEF Sound, Genuine
  <2> QED
    BY <2>1, <2>3, <2>4 DEF SoundFrames
<1>7. (whole' => CarKnows') /\ counter' \in Nat /\ counter' >= counter
  BY <1>1, <1>2 DEF CarKnows, TypeOK
<1> QED
  BY <1>2, <1>3, <1>5, <1>6, <1>7, OtherSteps

\* Every step keeps the invariant.
LEMMA NetStep ==
  ASSUME CoreInv, [Next]_vars
  PROVE  CoreInv'
<1>1. CASE PcStep
  <2>1. CASE \E reset \in BOOLEAN : Type(reset)
    BY <2>1, TypeStep
  <2>2. CASE TypeOther \/ \E first \in Seqs : Restart(first)
    BY <2>2, FreshNumbers
  <2> QED
    BY <1>1, <2>1, <2>2, SerialStep DEF PcStep
<1>2. CASE CarReceive
  BY <1>2, CarStep
<1>3. ASSUME NEW n \in Relays, RelayStep(n) PROVE CoreInv'
  BY <1>3, RelayReceiveStep, DataFlagStep DEF RelayStep
<1>4. ASSUME NEW n \in Senders, RadioStep(n) PROVE CoreInv'
  BY <1>4, RadioStepInv
<1>5. CASE UNCHANGED vars
  <2>1. CoreInv /\ UNCHANGED vars
    BY <1>5
  <2>2. TypeOK' /\ SoundFrames'
    BY <2>1 DEF CoreInv, TypeOK, SoundFrames, Sound, Genuine, vars, pcVars, radioVars, carVars
  <2>3. (whole' => CarKnows') /\ (CAREFUL \/ orderly' => NumbersGrow')
    BY <2>1 DEF CoreInv, NumbersGrow, CarKnows, vars, pcVars, radioVars, carVars
  <2> QED
    BY <2>2, <2>3 DEF CoreInv
<1> QED
  BY <1>1, <1>2, <1>3, <1>4, <1>5 DEF Next

\* It holds at first.
LEMMA NetInit ==
  ASSUME Init
  PROVE  CoreInv
<1>1. TypeOK
  BY NetworkAssumption DEF Init, TypeOK, Frame, Blank, Seqs, Keys
<1>2. Len(typed) = 0 /\ \A n \in Receivers : Len(inbox[n]) = 0
  BY DEF Init
<1>3. SoundFrames /\ NumbersGrow /\ CarKnows
  BY <1>2 DEF Init, NumbersGrow, SoundFrames, CarKnows
<1> QED
  BY <1>1, <1>3 DEF CoreInv

\* The inductive invariant of the network, whatever is lost, late or typed.
LEMMA CoreInvariant == Spec => []CoreInv
<1>1. Init => CoreInv
  BY NetInit
<1>2. CoreInv /\ [Next]_vars => CoreInv'
  BY NetStep
<1> QED
  BY <1>1, <1>2, PTL DEF Spec

\* NetInv: whatever overwrites a packet while a send of it is pending, and
\* however often a copy is cut, what is under way names typed keys; and it says
\* what was typed as long as no copy has mixed two frames (TestSerialC.nc:42-44,
\* RelayC.nc:67-84).
THEOREM NetworkInvariant == CAREFUL => (Spec => []NetInv)
<1>1. ASSUME CAREFUL PROVE Spec => []NetInv
  <2>1. CoreInv => NetInv
    BY <1>1, CoreMeansNet DEF CoreInv, NetInv
  <2> QED
    BY <2>1, CoreInvariant, PTL
<1> QED
  BY <1>1

\* Between two resets the car obeys keys in the order in which they were
\* typed and none twice, as long as no copy has mixed two frames.
THEOREM CarObeysInOrder == CAREFUL => (Spec => []ObeysInOrder)
<1>1. ASSUME CAREFUL PROVE Spec => []ObeysInOrder
  <2>1. CoreInv => ObeysInOrder
    BY <1>1, GenuineObeysInOrder DEF CoreInv
  <2> QED
    BY <2>1, CoreInvariant, PTL
<1> QED
  BY <1>1
----------------------------------------------------------------------------
\* The last key typed, and its number.
Last == Len(typed)
LastSeq == typed[Last].seq

\* A sender's packet holds the frame of the last key.
Has(n) == packet[n].cmd = Last

\* The keys whose frames wait at a node.
Waits(n) == {inbox[n][i].cmd : i \in 1 .. Len(inbox[n])}

\* The last key has come to the node.
Got(m) == Last \in Waits(m) \/ (m \in Relays /\ Has(m)) \/ (m = CAR /\ obeyed = Last)

\* Packets and the car hold keys that have been typed.
CmdsTyped == (\A n \in Senders : packet[n].cmd <= Last) /\ obeyed <= Last

\* Nothing but the last key is under way, and nothing at all before the PC
\* node has it.
OnlyLast ==
  /\ serial # 0 => /\ serial = Last
                   /\ \A n \in Senders : slot[n] = "free"
                   /\ \A n \in Receivers : inbox[n] = << >>
  /\ \A n \in Senders : slot[n] # "free" => Has(n)
  /\ \A n \in Senders : slot[n] = "copying" => fifo[n].cmd = Last
  /\ \A n \in Receivers : Waits(n) \subseteq {Last}
  /\ whole

\* A relay's flag is set only while its send is pending.
FlagsPend == \A n \in Relays : busy_radio[n] => slot[n] # "free"

\* Car and relays keep numbers lower than the next one.
NumbersBelow == /\ carSeq = 0 \/ carSeq < counter
                /\ \A n \in Relays : pktID[n] = 0 \/ pktID[n] < counter

\* The car and the relays can only skip the last key once they have got it;
\* and who has it passes it on.
LastGoesOn ==
  Last > 0 /\ LastSeq > 0 =>
    /\ carSeq < LastSeq \/ obeyed = Last
    /\ \A n \in Relays : pktID[n] < LastSeq \/ Has(n)
    /\ serial = 0 => Has(PC)
    /\ \A n \in Senders : Has(n) => \/ slot[n] \in {"queued", "copying"}
                                    \/ \A m \in Receivers : <<n, m>> \in Link => Got(m)

\* The inductive invariant of keys that are typed at rest.
OrderParts == /\ CmdsTyped
              /\ patient => OnlyLast
              /\ patient /\ orderly => FlagsPend /\ NumbersBelow /\ LastGoesOn
OrderInv == CoreInv /\ OrderParts

\* Numbers of frames and keys are numbers.
LEMMA OrderTypes ==
  ASSUME CoreInv
  PROVE  /\ TypeOK /\ Last \in Nat /\ counter \in Nat /\ serial \in Nat
         /\ Last > 0 => LastSeq \in Nat /\ Last \in 1 .. Len(typed)
         /\ \A n \in Relays : pktID[n] \in Nat /\ n \in Senders /\ n \in Receivers /\ n # PC
         /\ \A n \in Senders : packet[n] \in Frame /\ packet[n].cmd \in Nat /\ fifo[n] \in Frame
         /\ \A n \in Receivers : inbox[n] \in Seq(Frame)
         /\ carSeq \in Nat /\ obeyed \in Nat /\ PC \in Senders /\ CAR \in Receivers
         /\ CAR \notin Relays
<1>1. TypeOK
  BY DEF CoreInv
<1>2. Last \in Nat /\ counter \in Nat /\ serial \in Nat /\ carSeq \in Nat /\ obeyed \in Nat
  BY <1>1, NetworkAssumption DEF TypeOK, Last, Seqs, Keys
<1>3. Last > 0 => LastSeq \in Nat /\ Last \in 1 .. Len(typed)
  BY <1>1, <1>2, TypedNumbers DEF Last, LastSeq
<1>4. \A n \in Relays : pktID[n] \in Nat /\ n \in Senders /\ n \in Receivers /\ n # PC
  BY <1>1, NetworkAssumption DEF TypeOK, Seqs, Senders, Receivers
<1>5. \A n \in Senders : packet[n] \in Frame /\ packet[n].cmd \in Nat /\ fifo[n] \in Frame
  BY <1>1, NetworkAssumption DEF TypeOK, Frame, Keys
<1>6. \A n \in Receivers : inbox[n] \in Seq(Frame)
  BY <1>1 DEF TypeOK
<1>7. PC \in Senders /\ CAR \in Receivers /\ CAR \notin Relays
  BY NetworkAssumption DEF Senders, Receivers
<1> QED
  BY <1>1, <1>2, <1>3, <1>4, <1>5, <1>6, <1>7

\* The frame at the head leaves the keys that wait at its node.
LEMMA HeardWaits ==
  ASSUME TypeOK, NEW n \in Receivers, NEW f \in Frame, Heard(n, f)
  PROVE  /\ f.cmd \in Waits(n) /\ inbox[n] # << >>
         /\ Waits(n)' \subseteq Waits(n) /\ Waits(n) \subseteq Waits(n)' \cup {f.cmd}
         /\ \A m \in Receivers \ {n} : Waits(m)' = Waits(m)
<1>1. inbox[n] # << >> /\ f = Head(inbox[n]) /\ inbox' = [inbox EXCEPT ![n] = Tail(@)]
  BY DEF Heard
<1>2. inbox \in [Receivers -> Seq(Frame)] /\ inbox[n] \in Seq(Frame)
  BY DEF TypeOK
<1>3. inbox'[n] = Tail(inbox[n]) /\ \A m \in Receivers \ {n} : inbox'[m] = inbox[m]
  BY <1>1, <1>2
<1>4. /\ Len(inbox[n]) \in Nat /\ Len(inbox[n]) > 0 /\ f = inbox[n][1]
      /\ Len(inbox'[n]) = Len(inbox[n]) - 1
      /\ \A i \in 1 .. Len(inbox[n]) - 1 : inbox'[n][i] = inbox[n][i + 1]
  BY <1>1, <1>2, <1>3
<1>5. f.cmd \in Waits(n)
  BY <1>4 DEF Waits
<1>6. Waits(n)' \subseteq Waits(n)
  <2>1. ASSUME NEW i \in 1 .. Len(inbox'[n]) PROVE inbox'[n][i].cmd \in Waits(n)
    <3>1. i + 1 \in 1 .. Len(inbox[n]) /\ inbox'[n][i] = inbox[n][i + 1]
      BY <1>4, <2>1
    <3> QED
      BY <3>1 DEF Waits
  <2> QED
    BY <2>1 DEF Waits
<1>7. Waits(n) \subseteq Waits(n)' \cup {f.cmd}
  <2>1. ASSUME NEW i \in 1 .. Len(inbox[n]), i # 1 PROVE inbox[n][i].cmd \in Waits(n)'
    <3>1. i - 1 \in 1 .. Len(inbox'[n]) /\ inbox'[n][i - 1] = inbox[n][i]
      BY <1>4, <2>1
    <3> QED
      BY <3>1 DEF Waits
  <2> QED
    BY <1>4, <2>1 DEF Waits
<1>8. \A m \in Receivers \ {n} : Waits(m)' = Waits(m)
  BY <1>3 DEF Waits
<1> QED
  BY <1>1, <1>5, <1>6, <1>7, <1>8

\* A frame that is received joins the keys that wait.
LEMMA TransmitWaits ==
  ASSUME TypeOK, NEW n \in Senders, NEW S \in SUBSET Receivers, Transmit(n, S),
         NEW m \in Receivers
  PROVE  Waits(m)' = Waits(m) \cup IF m \in S THEN {fifo[n].cmd} ELSE {}
<1>1. /\ inbox'[m] = IF m \in S THEN Append(inbox[m], fifo[n]) ELSE inbox[m]
      /\ inbox[m] \in Seq(Frame) /\ fifo[n] \in Frame
  BY DEF Transmit, TypeOK
<1>2. CASE m \notin S
  BY <1>1, <1>2 DEF Waits
<1>3. CASE m \in S
  <2>1. /\ Len(inbox[m]) \in Nat /\ Len(inbox'[m]) = Len(inbox[m]) + 1
        /\ inbox'[m][Len(inbox[m]) + 1] = fifo[n]
        /\ \A i \in 1 .. Len(inbox[m]) : inbox'[m][i] = inbox[m][i]
    BY <1>1, <1>3
  <2>2. \A i \in 1 .. Len(inbox'[m]) : i \in 1 .. Len(inbox[m]) \/ i = Len(inbox[m]) + 1
    BY <2>1
  <2>3. Waits(m)' \subseteq Waits(m) \cup {fifo[n].cmd}
    BY <2>1, <2>2 DEF Waits
  <2>4. Waits(m) \subseteq Waits(m)' /\ fifo[n].cmd \in Waits(m)'
    BY <2>1 DEF Waits
  <2> QED
    BY <1>3, <2>3, <2>4
<1> QED
  BY <1>2, <1>3

\* A key is typed.
LEMMA OrderType ==
  ASSUME OrderInv, CoreInv', NEW reset \in BOOLEAN, Type(reset)
  PROVE  OrderParts'
<1>1. /\ counter' = counter + 1 /\ typed' = Append(typed, [seq |-> counter, reset |-> reset])
      /\ serial' = Len(typed) + 1 /\ patient' = (patient /\ Quiet)
      /\ UNCHANGED <<packet, slot, fifo, whole, busy_radio, pktID, inbox, carSeq, obeyed, orderly>>
      /\ counter <= MAX_SEQ
  BY DEF Type, carVars, radioVars
<1>2. CoreInv /\ CmdsTyped
  BY DEF OrderInv, OrderParts
<1>3. Last' = Last + 1 /\ LastSeq' = counter /\ Last \in Nat /\ counter \in Nat
  <2>1. typed \in Seq([seq : Seqs, reset : BOOLEAN])
    BY <1>2, OrderTypes DEF TypeOK
  <2>2. Last \in Nat /\ counter \in Nat
    BY <1>2, OrderTypes
  <2>3. [seq |-> counter, reset |-> reset] \in [seq : Seqs, reset : BOOLEAN]
    BY <1>1, <2>2, NetworkAssumption DEF Seqs
  <2> QED
    BY <1>1, <2>1, <2>2, <2>3 DEF Last, LastSeq
<1>4. CmdsTyped' /\ \A n \in Senders : ~Has(n)'
  BY <1>1, <1>2, <1>3, OrderTypes DEF CmdsTyped, Has
<1>5. ASSUME patient' PROVE OnlyLast'
  <2>1. Quiet /\ OnlyLast
    BY <1>1, <1>5 DEF OrderInv, OrderParts
  <2>2. /\ \A n \in Senders : slot'[n] = "free"
        /\ \A n \in Receivers : inbox'[n] = << >> /\ Waits(n)' = {}
    BY <1>1, <2>1 DEF Quiet, Waits
  <2> QED
    BY <1>1, <1>3, <2>1, <2>2 DEF OnlyLast, Last
<1>6. ASSUME patient', orderly' PROVE FlagsPend' /\ NumbersBelow' /\ LastGoesOn'
  <2>1. FlagsPend /\ NumbersBelow
    BY <1>1, <1>6 DEF OrderInv, OrderParts
  <2>2. FlagsPend' /\ NumbersBelow'
    BY <1>1, <1>2, <2>1, OrderTypes DEF FlagsPend, NumbersBelow
  <2>3. LastGoesOn'
    BY <1>1, <1>2, <1>3, <1>4, <2>1, OrderTypes DEF NumbersBelow, LastGoesOn
  <2> QED
    BY <2>2, <2>3
<1> QED
  BY <1>4, <1>5, <1>6 DEF OrderParts

\* Steps that count, restart, refuse data or give back a flag.
LEMMA OrderCount ==
  ASSUME OrderInv, CoreInv',
         UNCHANGED <<typed, serial, patient, packet, slot, fifo, whole, pktID, inbox, carSeq, obeyed>>,
         orderly' => /\ orderly /\ counter' >= counter
                     /\ \A n \in Relays : busy_radio'[n] => busy_radio[n]
  PROVE  OrderParts'
<1>1. CoreInv /\ CmdsTyped
  BY DEF OrderInv, OrderParts
<1>2. /\ Last' = Last /\ LastSeq' = LastSeq /\ counter \in Nat /\ counter' \in Nat
      /\ \A n \in Receivers : Waits(n)' = Waits(n)
  BY <1>1, OrderTypes DEF Last, LastSeq, Waits, CoreInv, TypeOK
<1>3. CmdsTyped'
  BY <1>1, <1>2 DEF CmdsTyped
<1>4. patient' => OnlyLast'
  BY <1>2 DEF OrderInv, OrderParts, OnlyLast, Has
<1>5. ASSUME patient', orderly' PROVE FlagsPend' /\ NumbersBelow' /\ LastGoesOn'
  <2>1. FlagsPend /\ NumbersBelow /\ LastGoesOn
    BY <1>5 DEF OrderInv, OrderParts
  <2>2. FlagsPend' /\ NumbersBelow'
    BY <1>1, <1>2, <1>5, <2>1, OrderTypes DEF FlagsPend, NumbersBelow
  <2>3. LastGoesOn'
    BY <1>2, <2>1 DEF LastGoesOn, Has, Got
  <2> QED
    BY <2>2, <2>3
<1> QED
  BY <1>3, <1>4, <1>5 DEF OrderParts

\* The PC node takes the key from the serial line.
LEMMA OrderSerial ==
  ASSUME OrderInv, CoreInv', SerialReceive
  PROVE  OrderParts'
<1> DEFINE g == [seq |-> typed[serial].seq, cmd |-> serial]
<1>1. CoreInv /\ CmdsTyped /\ TypeOK /\ PC \in Senders /\ PC \notin Relays
  BY OrderTypes, NetworkAssumption DEF OrderInv, OrderParts, Receivers
<1>2. /\ serial # 0 /\ serial' = 0 /\ packet' = [packet EXCEPT ![PC] = g]
      /\ slot' = [slot EXCEPT ![PC] = IF slot[PC] = "free" THEN "queued" ELSE slot[PC]]
      /\ slot[PC] # "copying" => UNCHANGED <<fifo, whole>>
      /\ UNCHANGED <<counter, typed, patient, busy_radio, pktID, inbox, carSeq, obeyed, orderly>>
  BY DEF SerialReceive, Send, Overwrite, carVars
<1>3. /\ packet'[PC] = g /\ \A n \in Senders \ {PC} : packet'[n] = packet[n]
      /\ slot'[PC] = IF slot[PC] = "free" THEN "queued" ELSE slot[PC]
      /\ \A n \in Senders \ {PC} : slot'[n] = slot[n]
  BY <1>1, <1>2 DEF TypeOK
<1>4. /\ Last' = Last /\ LastSeq' = LastSeq /\ serial <= Last
      /\ \A n \in Receivers : Waits(n)' = Waits(n)
  BY <1>1, <1>2 DEF Last, LastSeq, Waits, TypeOK
<1>5. CmdsTyped'
  BY <1>1, <1>2, <1>3, <1>4 DEF CmdsTyped
<1>6. ASSUME patient'
      PROVE  /\ OnlyLast /\ OnlyLast' /\ slot'[PC] = "queued" /\ Has(PC)'
             /\ \A n \in Senders \ {PC} : slot'[n] = "free"
  <2>1. OnlyLast
    BY <1>2, <1>6 DEF OrderInv, OrderParts
  <2>2. /\ serial = Last /\ slot[PC] = "free"
        /\ \A n \in Senders \ {PC} : slot[n] = "free"
    BY <1>1, <1>2, <2>1 DEF OnlyLast
  <2>3. /\ slot'[PC] = "queued" /\ UNCHANGED <<fifo, whole>>
        /\ \A n \in Senders \ {PC} : slot'[n] = "free"
    BY <1>2, <1>3, <2>2
  <2>4. Has(PC)'
    BY <1>3, <1>4, <2>2, <2>3 DEF Has
  <2>5. OnlyLast'
    BY <1>2, <1>4, <2>1, <2>2, <2>3, <2>4 DEF OnlyLast
  <2> QED
    BY <2>1, <2>3, <2>4, <2>5
<1>7. ASSUME patient', orderly' PROVE FlagsPend' /\ NumbersBelow' /\ LastGoesOn'
  <2>1. FlagsPend /\ NumbersBelow /\ LastGoesOn /\ OnlyLast
    BY <1>2, <1>6, <1>7 DEF OrderInv, OrderParts
  <2>2. \A n \in Relays : n \in Senders \ {PC} /\ (Has(n)' <=> Has(n))
    BY <1>1, <1>3, <1>4 DEF Senders, Has
  <2>3. FlagsPend' /\ NumbersBelow'
    BY <1>2, <1>3, <2>1, <2>2 DEF FlagsPend, NumbersBelow
  <2>4. \A m \in Receivers : Got(m) => Got(m)'
    BY <1>2, <1>4, <2>2 DEF Got
  <2>5. LastGoesOn'
    BY <1>2, <1>3, <1>4, <1>6, <1>7, <2>1, <2>2, <2>4 DEF LastGoesOn, OnlyLast, Has
  <2> QED
    BY <2>3, <2>5
<1> QED
  BY <1>5, <1>6, <1>7 DEF OrderParts

\* What a node hears is the last key's frame.
LEMMA HeardIsLast ==
  ASSUME CoreInv, OnlyLast, NEW n \in Receivers, NEW f \in Frame, Heard(n, f)
  PROVE  /\ Genuine(f) /\ f.cmd = Last /\ Last > 0 /\ f.seq = LastSeq
         /\ serial = 0
<1>1. Genuine(f)
  BY HeardStep DEF Sound, OnlyLast
<1>2. f.cmd = Last
  BY OrderTypes, HeardWaits DEF OnlyLast
<1>3. serial = 0
  BY OrderTypes, HeardWaits DEF OnlyLast
<1> QED
  BY <1>1, <1>2, <1>3 DEF Genuine, LastSeq, Last

\* When it overwrites a packet that is being copied, it changes nothing.
LEMMA SameFrame ==
  ASSUME CoreInv, OnlyLast, NEW n \in Senders, NEW f \in Frame, Genuine(f), f.cmd = Last,
         Overwrite(n, f)
  PROVE  UNCHANGED <<fifo, whole>>
<1>1. SUFFICES ASSUME slot[n] = "copying" PROVE f = fifo[n]
  BY DEF Overwrite
<1>2. fifo[n] \in Frame /\ fifo[n].cmd = Last /\ Genuine(fifo[n])
  BY <1>1, OrderTypes DEF CoreInv, SoundFrames, Sound, OnlyLast
<1>3. f.seq = fifo[n].seq /\ f.cmd = fifo[n].cmd
  BY <1>2 DEF Genuine
<1> QED
  BY <1>2, <1>3 DEF Frame

\* A relay hears the key.
LEMMA OrderRelay ==
  ASSUME OrderInv, CoreInv', NEW n \in Relays, RelayReceive(n)
  PROVE  OrderParts'
<1>1. /\ CoreInv /\ CmdsTyped /\ TypeOK /\ n \in Senders /\ n \in Receivers /\ n # PC
      /\ pktID[n] \in Nat /\ CAR \notin Relays
  BY OrderTypes DEF OrderInv, OrderParts
<1>2. PICK f \in Frame : /\ Heard(n, f)
                         /\ LET id == IF IsReset(f) THEN 0 ELSE pktID[n]
                            IN RelayTakes(n, f, id) \/ RelaySkips(n, f, id)
  BY DEF RelayReceive
<1>3. PICK id \in {0, pktID[n]} : RelayTakes(n, f, id) \/ RelaySkips(n, f, id)
  BY <1>2
<1>4. UNCHANGED <<counter, typed, serial, patient, carSeq, lastKey, obeyed, orderly>>
  BY DEF RelayReceive, pcVars, carVars
<1>5. /\ Last' = Last /\ LastSeq' = LastSeq
  BY <1>4 DEF Last, LastSeq
<1>6. /\ \A m \in Senders \ {n} : packet'[m] = packet[m] /\ slot'[m] = slot[m]
      /\ \A m \in Relays \ {n} : pktID'[m] = pktID[m] /\ busy_radio'[m] = busy_radio[m]
      /\ \/ /\ packet'[n] = f /\ pktID'[n] \in {id, f.seq} /\ Overwrite(n, f)
            /\ slot'[n] = IF slot[n] = "free" /\ ~busy_radio[n] THEN "queued" ELSE slot[n]
            /\ busy_radio'[n] => busy_radio[n] \/ slot[n] # "free"
         \/ /\ f.seq <= id /\ packet'[n] = packet[n] /\ pktID'[n] = id
            /\ UNCHANGED <<fifo, whole>>
            /\ slot'[n] = slot[n] /\ busy_radio'[n] = busy_radio[n]
  <2>1. CASE RelaySkips(n, f, id)
    BY <1>1, <2>1 DEF RelaySkips, TypeOK, radioVars
  <2>2. CASE RelayTakes(n, f, id)
    <3>1. /\ packet' = [packet EXCEPT ![n] = f] /\ Overwrite(n, f)
          /\ \/ pktID' = [pktID EXCEPT ![n] = id]
             \/ pktID' = [pktID EXCEPT ![n] = f.seq]
      BY <2>2 DEF RelayTakes, Send, Overwrite
    <3>2. \/ slot' = slot /\ busy_radio' = busy_radio /\ busy_radio[n]
          \/ /\ slot' = [slot EXCEPT ![n] = "queued"] /\ slot[n] = "free"
             /\ busy_radio' = busy_radio /\ ~busy_radio[n]
          \/ /\ slot' = [slot EXCEPT ![n] = slot[n]] /\ slot[n] # "free"
             /\ busy_radio' = [busy_radio EXCEPT ![n] = TRUE]
      BY <2>2 DEF RelayTakes, Send
    <3>3. /\ packet'[n] = f /\ pktID'[n] \in {id, f.seq}
          /\ \A m \in Senders \ {n} : packet'[m] = packet[m]
          /\ \A m \in Relays \ {n} : pktID'[m] = pktID[m]
      BY <1>1, <3>1 DEF TypeOK
    <3>4. /\ \A m \in Senders \ {n} : slot'[m] = slot[m]
          /\ \A m \in Relays \ {n} : busy_radio'[m] = busy_radio[m]
          /\ slot'[n] = IF slot[n] = "free" /\ ~busy_radio[n] THEN "queued" ELSE slot[n]
          /\ busy_radio'[n] => busy_radio[n] \/ slot[n] # "free"
      BY <1>1, <3>2 DEF TypeOK
    <3> QED
      BY <3>1, <3>3, <3>4
  <2> QED
    BY <1>3, <2>1, <2>2
<1>7. f.cmd <= Last
  <2>1. Sound(f)
    BY <1>1, <1>2, HeardStep, OrderTypes
  <2> QED
    BY <1>1, <2>1 DEF Sound, Last, TypeOK
<1>8. CmdsTyped'
  BY <1>1, <1>4, <1>5, <1>6, <1>7 DEF CmdsTyped
<1>9. ASSUME patient'
      PROVE  /\ OnlyLast /\ OnlyLast' /\ UNCHANGED <<fifo, whole>>
             /\ f.cmd = Last /\ Last > 0 /\ f.seq = LastSeq /\ serial = 0
             /\ f.seq \in Nat /\ Waits(n)' \subseteq Waits(n)
             /\ \A m \in Receivers \ {n} : Waits(m)' = Waits(m)
  <2>1. OnlyLast
    BY <1>4, <1>9 DEF OrderInv, OrderParts
  <2>2. /\ Genuine(f) /\ f.cmd = Last /\ Last > 0 /\ f.seq = LastSeq /\ serial = 0
        /\ f.seq \in Nat
    BY <1>1, <1>2, <2>1, HeardIsLast, OrderTypes
  <2>3. /\ Waits(n)' \subseteq Waits(n)
        /\ \A m \in Receivers \ {n} : Waits(m)' = Waits(m)
    BY <1>1, <1>2, HeardWaits
  <2>4. UNCHANGED <<fifo, whole>>
    BY <1>1, <1>6, <2>1, <2>2, SameFrame
  <2>5. ASSUME NEW m \in Senders, slot'[m] # "free" PROVE Has(m)'
    <3>1. CASE m # n
      BY <1>5, <1>6, <2>1, <2>5, <3>1 DEF OnlyLast, Has
    <3>2. CASE packet'[n] = f
      BY <1>5, <1>6, <2>1, <2>2, <2>5, <3>2 DEF OnlyLast, Has
    <3>3. CASE packet'[n] = packet[n] /\ slot'[n] = slot[n]
      BY <1>5, <1>6, <2>1, <2>5, <3>3 DEF OnlyLast, Has
    <3> QED
      BY <1>6, <3>1, <3>2, <3>3
  <2>6. ASSUME NEW m \in Senders, slot'[m] = "copying" PROVE fifo'[m].cmd = Last'
    <3>1. slot[m] = "copying"
      BY <1>6, <2>6
    <3> QED
      BY <1>5, <2>1, <2>4, <3>1 DEF OnlyLast
  <2>7. \A m \in Receivers : Waits(m)' \subseteq {Last}'
    BY <1>1, <1>5, <2>1, <2>3 DEF OnlyLast
  <2>8. OnlyLast'
    BY <1>4, <2>1, <2>2, <2>4, <2>5, <2>6, <2>7 DEF OnlyLast
  <2> QED
    BY <2>1, <2>2, <2>3, <2>4, <2>8
<1>10. ASSUME patient', orderly' PROVE FlagsPend' /\ NumbersBelow' /\ LastGoesOn'
  <2>1. FlagsPend /\ NumbersBelow /\ LastGoesOn /\ NumbersGrow /\ OnlyLast
    BY <1>4, <1>9, <1>10 DEF OrderInv, OrderParts, CoreInv
  <2>2. /\ f.cmd = Last /\ Last > 0 /\ f.seq = LastSeq /\ serial = 0
        /\ f.seq \in Nat /\ LastSeq < counter /\ Last \in 1 .. Len(typed)
    BY <1>1, <1>9, <1>10, <2>1, OrderTypes DEF NumbersGrow, LastSeq
  <2>3. /\ Waits(n)' \subseteq Waits(n)
        /\ \A m \in Receivers \ {n} : Waits(m)' = Waits(m)
    BY <1>9, <1>10
  <2>4. ASSUME NEW m \in Relays, busy_radio'[m] PROVE slot'[m] # "free"
    <3>1. CASE m # n
      BY <1>6, <2>1, <2>4, <3>1 DEF FlagsPend, Senders
    <3>2. CASE m = n
      BY <1>1, <1>6, <2>1, <2>4, <3>2 DEF FlagsPend
    <3> QED
      BY <3>1, <3>2
  <2>5. FlagsPend' /\ NumbersBelow'
    BY <1>1, <1>4, <1>6, <2>1, <2>2, <2>4 DEF FlagsPend, NumbersBelow
  <2>6. SUFFICES ASSUME LastSeq > 0 PROVE LastGoesOn'
    BY <1>5, <2>5 DEF LastGoesOn
  <2>7. Has(n)'
    <3>1. CASE packet'[n] = f
      BY <1>5, <2>2, <3>1 DEF Has
    <3>2. CASE f.seq <= id /\ packet'[n] = packet[n]
      <4>1. ~(pktID[n] < LastSeq)
        BY <1>1, <1>3, <2>2, <2>6, <3>2
      <4>2. Has(n)
        BY <2>1, <2>2, <2>6, <4>1 DEF LastGoesOn
      <4> QED
        BY <1>5, <3>2, <4>2 DEF Has
    <3> QED
      BY <1>6, <3>1, <3>2
  <2>8. \A m \in Receivers : Got(m) => Got(m)'
    BY <1>1, <1>4, <1>5, <1>6, <2>3, <2>7 DEF Got, Has, Senders
  <2>9. ASSUME NEW m \in Senders, Has(m)'
        PROVE  slot'[m] \in {"queued", "copying"} \/ \A j \in Receivers : <<m, j>> \in Link => Got(j)'
    <3>1. CASE m # n
      BY <1>5, <1>6, <2>1, <2>2, <2>6, <2>8, <2>9, <3>1 DEF LastGoesOn, Has
    <3>2. CASE m = n /\ slot[n] = "free" /\ packet'[n] = f /\ slot'[n] = "queued"
      BY <3>2
    <3>3. CASE m = n /\ Has(n)
      <4>1. slot[n] \in {"queued", "copying"} => slot'[n] = slot[n]
        BY <1>6
      <4> QED
        BY <2>1, <2>2, <2>6, <2>8, <3>3, <4>1 DEF LastGoesOn
    <3>4. \/ slot[n] = "free" /\ packet'[n] = f /\ slot'[n] = "queued"
          \/ Has(n)
      <4>1. slot[n] # "free" => Has(n)
        BY <1>1, <2>1 DEF OnlyLast
      <4>2. slot[n] = "free" => ~busy_radio[n]
        BY <2>1 DEF FlagsPend
      <4>3. packet'[n] = packet[n] => Has(n)
        BY <1>5, <2>7 DEF Has
      <4> QED
        BY <1>6, <4>1, <4>2, <4>3
    <3> QED
      BY <3>1, <3>2, <3>3, <3>4
  <2>10. \A m \in Relays : pktID'[m] < LastSeq \/ Has(m)'
    BY <1>1, <1>5, <1>6, <2>1, <2>2, <2>6, <2>7 DEF LastGoesOn, Has, Senders
  <2>11. Has(PC)' /\ (carSeq < LastSeq \/ obeyed = Last)
    BY <1>1, <1>5, <1>6, <2>1, <2>2, <2>6, OrderTypes DEF LastGoesOn, Has
  <2> QED
    BY <1>4, <1>5, <2>9, <2>10, <2>11 DEF LastGoesOn
<1> QED
  BY <1>8, <1>9, <1>10 DEF OrderParts

\* The car hears the key.
LEMMA OrderCar ==
  ASSUME OrderInv, CoreInv', CarReceive
  PROVE  OrderParts'
<1>1. /\ CoreInv /\ CmdsTyped /\ TypeOK /\ CAR \in Receivers /\ carSeq \in Nat
      /\ CAR \notin Relays
  BY OrderTypes DEF OrderInv, OrderParts
<1>2. PICK f \in Frame : /\ Heard(CAR, f)
                         /\ IF ~Newer(f) THEN UNCHANGED carVars
                            ELSE /\ obeyed' = f.cmd
                                 /\ carSeq' = IF IsReset(f) THEN 0 ELSE f.seq
                                 /\ lastKey' = IF IsReset(f) THEN 0 ELSE f.cmd
  BY DEF CarReceive
<1>3. /\ UNCHANGED <<counter, typed, serial, patient, packet, slot, fifo, whole,
                     busy_radio, pktID, orderly>>
      /\ Last' = Last /\ LastSeq' = LastSeq
  BY DEF CarReceive, pcVars, radioVars, Last, LastSeq
<1>4. /\ carSeq' \in {carSeq, 0, f.seq} /\ (obeyed' = f.cmd \/ UNCHANGED <<obeyed, carSeq>>)
      /\ Newer(f) => obeyed' = f.cmd
  BY <1>2 DEF carVars
<1>5. f.cmd <= Last
  <2>1. Sound(f)
    BY <1>1, <1>2, HeardStep
  <2> QED
    BY <1>1, <2>1 DEF Sound, Last, TypeOK
<1>6. CmdsTyped'
  BY <1>1, <1>3, <1>4, <1>5 DEF CmdsTyped
<1>7. /\ Waits(CAR)' \subseteq Waits(CAR)
      /\ \A m \in Receivers \ {CAR} : Waits(m)' = Waits(m)
  BY <1>1, <1>2, HeardWaits
<1>8. ASSUME patient'
      PROVE  /\ OnlyLast /\ OnlyLast' /\ serial = 0
             /\ f.cmd = Last /\ Last > 0 /\ f.seq = LastSeq
  <2>1. OnlyLast
    BY <1>3, <1>8 DEF OrderInv, OrderParts
  <2>2. f.cmd = Last /\ Last > 0 /\ f.seq = LastSeq /\ serial = 0
    BY <1>1, <1>2, <2>1, HeardIsLast
  <2>3. OnlyLast'
    BY <1>3, <1>7, <2>1, <2>2 DEF OnlyLast, Has
  <2> QED
    BY <2>1, <2>2, <2>3
<1>9. ASSUME patient', orderly' PROVE FlagsPend' /\ NumbersBelow' /\ LastGoesOn'
  <2>1. FlagsPend /\ NumbersBelow /\ LastGoesOn /\ NumbersGrow
    BY <1>3, <1>9 DEF OrderInv, OrderParts, CoreInv
  <2>2. /\ f.cmd = Last /\ Last > 0 /\ f.seq = LastSeq /\ serial = 0
        /\ LastSeq < counter /\ LastSeq \in Nat
    BY <1>1, <1>8, <1>9, <2>1, OrderTypes DEF NumbersGrow, LastSeq
  <2>3. FlagsPend' /\ NumbersBelow'
    BY <1>3, <1>4, <2>1, <2>2 DEF FlagsPend, NumbersBelow
  <2>4. LastSeq > 0 => obeyed' = Last
    <3>1. ~Newer(f) => ~(carSeq < LastSeq)
      BY <1>1, <2>2 DEF Newer
    <3> QED
      BY <1>4, <2>1, <2>2, <3>1 DEF LastGoesOn
  <2>5. LastSeq > 0 => \A m \in Receivers : Got(m) => Got(m)'
    BY <1>1, <1>3, <1>7, <2>4 DEF Got, Has
  <2>6. LastGoesOn'
    BY <1>3, <2>1, <2>4, <2>5 DEF LastGoesOn, Has
  <2> QED
    BY <2>3, <2>6
<1> QED
  BY <1>6, <1>8, <1>9 DEF OrderParts

\* The radio begins to copy a packet.
LEMMA OrderCopyStarts ==
  ASSUME OrderInv, CoreInv', NEW n \in Senders, CopyStarts(n)
  PROVE  OrderParts'
<1>1. CoreInv /\ CmdsTyped /\ TypeOK
  BY OrderTypes DEF OrderInv, OrderParts
<1>2. /\ slot[n] = "queued" /\ slot' = [slot EXCEPT ![n] = "copying"]
      /\ fifo' = [fifo EXCEPT ![n] = packet[n]]
      /\ UNCHANGED <<counter, typed, serial, patient, packet, whole, busy_radio, pktID, inbox,
                     carSeq, obeyed, orderly>>
  BY DEF CopyStarts, pcVars, carVars
<1>3. /\ Last' = Last /\ LastSeq' = LastSeq /\ \A m \in Receivers : Waits(m)' = Waits(m)
      /\ slot'[n] = "copying" /\ fifo'[n] = packet[n]
      /\ \A m \in Senders \ {n} : slot'[m] = slot[m] /\ fifo'[m] = fifo[m]
  BY <1>1, <1>2 DEF Last, LastSeq, Waits, TypeOK
<1>4. CmdsTyped'
  BY <1>1, <1>2, <1>3 DEF CmdsTyped
<1>5. ASSUME patient' PROVE OnlyLast'
  <2>1. OnlyLast /\ Has(n) /\ serial = 0
    BY <1>2, <1>5 DEF OrderInv, OrderParts, OnlyLast
  <2>2. \A m \in Senders : slot'[m] # "free" => Has(m)'
    BY <1>2, <1>3, <2>1 DEF OnlyLast, Has
  <2>3. \A m \in Senders : slot'[m] = "copying" => fifo'[m].cmd = Last'
    BY <1>3, <2>1 DEF OnlyLast, Has
  <2> QED
    BY <1>2, <1>3, <2>1, <2>2, <2>3 DEF OnlyLast
<1>6. ASSUME patient', orderly' PROVE FlagsPend' /\ NumbersBelow' /\ LastGoesOn'
  <2>1. FlagsPend /\ NumbersBelow /\ LastGoesOn
    BY <1>2, <1>6 DEF OrderInv, OrderParts
  <2>2. FlagsPend' /\ NumbersBelow'
    BY <1>2, <1>3, <2>1 DEF FlagsPend, NumbersBelow, Senders
  <2>3. \A m \in Receivers : Got(m) => Got(m)'
    BY <1>2, <1>3 DEF Got, Has
  <2>4. LastGoesOn'
    BY <1>2, <1>3, <2>1, <2>3 DEF LastGoesOn, Has
  <2> QED
    BY <2>2, <2>4
<1> QED
  BY <1>4, <1>5, <1>6 DEF OrderParts

\* A packet is sent.
LEMMA OrderTransmit ==
  ASSUME OrderInv, CoreInv', NEW n \in Senders, NEW S \in SUBSET Receivers, Transmit(n, S)
  PROVE  OrderParts'
<1>1. CoreInv /\ CmdsTyped /\ TypeOK
  BY OrderTypes DEF OrderInv, OrderParts
<1>2. /\ slot[n] = "copying" /\ slot' = [slot EXCEPT ![n] = "sent"]
      /\ fifo' = [fifo EXCEPT ![n] = Blank]
      /\ UNCHANGED <<counter, typed, serial, patient, packet, whole, busy_radio, pktID,
                     carSeq, obeyed>>
      /\ orderly' = (orderly /\ \A m \in Receivers : <<n, m>> \in Link => m \in S)
  BY DEF Transmit, pcVars, carVars
<1>3. /\ Last' = Last /\ LastSeq' = LastSeq /\ slot'[n] = "sent"
      /\ \A m \in Senders \ {n} : slot'[m] = slot[m] /\ fifo'[m] = fifo[m]
  BY <1>1, <1>2 DEF Last, LastSeq, TypeOK
<1>4. CmdsTyped'
  BY <1>1, <1>2, <1>3 DEF CmdsTyped
<1>5. ASSUME patient'
      PROVE  /\ OnlyLast'
             /\ \A m \in Receivers : Waits(m)' = Waits(m) \cup IF m \in S THEN {Last} ELSE {}
  <2>1. OnlyLast /\ Has(n) /\ serial = 0 /\ fifo[n].cmd = Last
    BY <1>2, <1>5 DEF OrderInv, OrderParts, OnlyLast
  <2>2. \A m \in Receivers : Waits(m)' = Waits(m) \cup IF m \in S THEN {Last} ELSE {}
    BY <1>1, <2>1, TransmitWaits
  <2>3. \A m \in Senders : slot'[m] # "free" => Has(m)'
    BY <1>2, <1>3, <2>1 DEF OnlyLast, Has
  <2>4. \A m \in Senders : slot'[m] = "copying" => fifo'[m].cmd = Last'
    BY <1>3, <2>1 DEF OnlyLast
  <2>5. OnlyLast'
    BY <1>2, <1>3, <2>1, <2>2, <2>3, <2>4 DEF OnlyLast
  <2> QED
    BY <2>2, <2>5
<1>6. ASSUME patient', orderly' PROVE FlagsPend' /\ NumbersBelow' /\ LastGoesOn'
  <2>1. /\ FlagsPend /\ NumbersBelow /\ LastGoesOn
        /\ \A m \in Receivers : <<n, m>> \in Link => m \in S
    BY <1>2, <1>6 DEF OrderInv, OrderParts
  <2>2. FlagsPend' /\ NumbersBelow'
    BY <1>2, <1>3, <2>1 DEF FlagsPend, NumbersBelow, Senders
  <2>3. /\ \A m \in Receivers : Got(m) => Got(m)'
        /\ \A m \in Receivers : <<n, m>> \in Link => Got(m)'
    BY <1>2, <1>3, <1>5, <1>6, <2>1 DEF Got, Has
  <2>4. LastGoesOn'
    BY <1>2, <1>3, <2>1, <2>3 DEF LastGoesOn, Has
  <2> QED
    BY <2>2, <2>4
<1> QED
  BY <1>4, <1>5, <1>6 DEF OrderParts

\* A send ends.
LEMMA OrderSendDone ==
  ASSUME OrderInv, CoreInv', NEW n \in Senders, SendDone(n)
  PROVE  OrderParts'
<1>1. CoreInv /\ CmdsTyped /\ TypeOK
  BY OrderTypes DEF OrderInv, OrderParts
<1>2. /\ slot[n] = "sent" /\ slot' = [slot EXCEPT ![n] = "free"]
      /\ busy_radio' = [m \in Relays |-> IF m = n THEN FALSE ELSE busy_radio[m]]
      /\ UNCHANGED <<counter, typed, serial, patient, packet, fifo, whole, pktID, inbox,
                     carSeq, obeyed, orderly>>
  BY DEF SendDone, pcVars, carVars
<1>3. /\ Last' = Last /\ LastSeq' = LastSeq /\ \A m \in Receivers : Waits(m)' = Waits(m)
      /\ slot'[n] = "free" /\ \A m \in Senders \ {n} : slot'[m] = slot[m]
      /\ \A m \in Relays : busy_radio'[m] => m # n /\ busy_radio[m]
  BY <1>1, <1>2 DEF Last, LastSeq, Waits, TypeOK
<1>4. CmdsTyped'
  BY <1>1, <1>2, <1>3 DEF CmdsTyped
<1>5. ASSUME patient' PROVE OnlyLast'
  <2>1. OnlyLast
    BY <1>2, <1>5 DEF OrderInv, OrderParts
  <2> QED
    BY <1>2, <1>3, <2>1 DEF OnlyLast, Has
<1>6. ASSUME patient', orderly' PROVE FlagsPend' /\ NumbersBelow' /\ LastGoesOn'
  <2>1. FlagsPend /\ NumbersBelow /\ LastGoesOn
    BY <1>2, <1>6 DEF OrderInv, OrderParts
  <2>2. FlagsPend' /\ NumbersBelow'
    BY <1>2, <1>3, <2>1 DEF FlagsPend, NumbersBelow, Senders
  <2>3. LastGoesOn'
    BY <1>2, <1>3, <2>1 DEF LastGoesOn, Has, Got
  <2> QED
    BY <2>2, <2>3
<1> QED
  BY <1>4, <1>5, <1>6 DEF OrderParts

\* Every step keeps it.
LEMMA OrderStep ==
  ASSUME OrderInv, [Next]_vars
  PROVE  OrderInv'
<1>1. CoreInv /\ CoreInv'
  BY NetStep DEF OrderInv
<1>2. counter \in Nat
  BY <1>1, OrderTypes
<1> SUFFICES OrderParts'
  BY <1>1 DEF OrderInv
<1>3. CASE PcStep
  <2>1. CASE \E reset \in BOOLEAN : Type(reset)
    BY <1>1, <2>1, OrderType
  <2>2. CASE TypeOther
    BY <1>1, <1>2, <2>2, OrderCount DEF TypeOther, radioVars, carVars
  <2>3. CASE \E first \in Seqs : Restart(first)
    BY <1>1, <2>3, OrderCount DEF Restart, radioVars, carVars
  <2>4. CASE SerialReceive
    BY <1>1, <2>4, OrderSerial
  <2> QED
    BY <1>3, <2>1, <2>2, <2>3, <2>4 DEF PcStep
<1>4. CASE CarReceive
  BY <1>1, <1>4, OrderCar
<1>5. ASSUME NEW n \in Relays, RelayStep(n) PROVE OrderParts'
  <2>1. CASE RelayReceive(n)
    BY <1>1, <2>1, OrderRelay
  <2>2. CASE DataSendRefused(n)
    BY <1>1, <2>2, OrderCount DEF DataSendRefused, pcVars, radioVars, carVars
  <2>3. CASE DataSendDone(n)
    <3>1. \A m \in Relays : busy_radio'[m] => busy_radio[m]
      BY <1>1, <2>3 DEF DataSendDone, CoreInv, TypeOK
    <3> QED
      BY <1>1, <1>2, <2>3, <3>1, OrderCount DEF DataSendDone, pcVars, radioVars, carVars
  <2> QED
    BY <1>5, <2>1, <2>2, <2>3 DEF RelayStep
<1>6. ASSUME NEW n \in Senders, RadioStep(n) PROVE OrderParts'
  BY <1>1, <1>6, OrderCopyStarts, OrderTransmit, OrderSendDone DEF RadioStep
<1>7. CASE UNCHANGED vars
  BY <1>1, <1>2, <1>7, OrderCount DEF vars, pcVars, radioVars, carVars
<1> QED
  BY <1>3, <1>4, <1>5, <1>6, <1>7 DEF Next

\* It holds at first.
LEMMA OrderInit ==
  ASSUME Init
  PROVE  OrderInv
<1>1. CoreInv
  BY NetInit
<1>2. /\ Last = 0 /\ serial = 0 /\ obeyed = 0 /\ carSeq = 0 /\ whole
      /\ \A n \in Senders : slot[n] = "free" /\ packet[n].cmd = 0
      /\ \A n \in Receivers : Waits(n) = {}
      /\ \A n \in Relays : pktID[n] = 0 /\ ~busy_radio[n]
  BY DEF Init, Blank, Last, Waits
<1>3. CmdsTyped /\ OnlyLast /\ FlagsPend /\ NumbersBelow /\ LastGoesOn
  BY <1>2 DEF CmdsTyped, OnlyLast, FlagsPend, NumbersBelow, LastGoesOn
<1> QED
  BY <1>1, <1>3 DEF OrderInv, OrderParts

\* At rest the nodes that have got the last key are closed under hearing.
LEMMA RestMeansObeyed ==
  ASSUME CommandReachesCar, OrderInv
  PROVE  QuietMeansObeyed
<1>1. SUFFICES ASSUME patient, orderly, Quiet, typed # << >>, LastSeq > 0
               PROVE  obeyed = Last
  BY DEF QuietMeansObeyed, Last, LastSeq
<1>2. CoreInv /\ LastGoesOn /\ Last > 0
  BY <1>1, OrderTypes DEF OrderInv, OrderParts, Last, TypeOK
<1>3. \A n \in Receivers : Waits(n) = {}
  BY <1>1 DEF Quiet, Waits
<1> DEFINE S == {n \in Senders : Has(n)} \cup {m \in Receivers : Got(m)}
<1>4. PC \in S
  BY <1>1, <1>2, OrderTypes DEF LastGoesOn, Quiet
<1>5. ASSUME NEW e \in Link, e[1] \in S PROVE e[2] \in S
  <2>1. e[1] \in Senders /\ e[2] \in Receivers /\ e = <<e[1], e[2]>>
    BY NetworkAssumption
  <2>2. Has(e[1])
    BY <1>3, <1>5, <2>1, NetworkAssumption DEF Got, Senders, Receivers
  <2>3. Got(e[2])
    BY <1>1, <1>2, <2>1, <2>2 DEF LastGoesOn, Quiet
  <2> QED
    BY <2>1, <2>3
<1>6. CAR \in S /\ CAR \notin Senders
  <2>1. S \in SUBSET (Senders \cup Receivers)
    OBVIOUS
  <2> QED
    BY <1>4, <1>5, <2>1, NetworkAssumption DEF CommandReachesCar, Senders, Receivers
<1> QED
  BY <1>3, <1>6, NetworkAssumption DEF Got, Senders, Receivers

\* The inductive invariant of keys typed at rest.
LEMMA OrderInvariant == Spec => []OrderInv
<1>1. Init => OrderInv
  BY OrderInit
<1>2. OrderInv /\ [Next]_vars => OrderInv'
  BY OrderStep
<1> QED
  BY <1>1, <1>2, PTL DEF Spec

\* No copy mixes two frames while every key is typed at rest: for any network,
\* with any losses, restarts and data traffic.
THEOREM PatienceKeepsFramesWhole == Spec => []WholeIfPatient
<1>1. OrderInv => WholeIfPatient
  BY DEF OrderInv, OrderParts, OnlyLast, WholeIfPatient
<1> QED
  BY <1>1, OrderInvariant, PTL

\* A command typed at rest has been obeyed when the network is at rest again,
\* if nothing was lost on the way: for every network whose links lead from
\* the PC node to the car (RelayC.nc:61-84, RadioToLedsC.nc:199-201).
THEOREM RestAfterOrder == CommandReachesCar => (Spec => []QuietMeansObeyed)
<1>1. ASSUME CommandReachesCar PROVE Spec => []QuietMeansObeyed
  <2>1. OrderInv => QuietMeansObeyed
    BY <1>1, RestMeansObeyed
  <2> QED
    BY <2>1, OrderInvariant, PTL
<1> QED
  BY <1>1
=============================================================================
