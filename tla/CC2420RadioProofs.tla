------------------------- MODULE CC2420RadioProofs -------------------------
(***************************************************************************)
(* The radio's sending half on the two shared buses, for any clients of    *)
(* USART0: first what each operation of CC2420SpiP does to those who share *)
(* the SPI bus, stated so that the radio's steps see nothing else of it;   *)
(* then the invariant of the radio, step by step; then what its steps are  *)
(* to the sender, to the SPI bus and to USART0.                            *)
(***************************************************************************)
EXTENDS CC2420Radio, Uart0ArbiterProofs

BusInv == ArbInv /\ SpiTypeOK /\ SpiInv

\* The stack owns USART0 although it does not work.
Kept == Owner(SPI) /\ ~working

\* A step changes nothing for client d of the SPI bus.
SameFor(d) == (Holds(d)' <=> Holds(d)) /\ (WaitsFor(d)' <=> WaitsFor(d))

----------------------------------------------------------------------------
(* The operations of CC2420SpiP.                                           *)

\* A step that leaves USART0 alone keeps what is said of it.
LEMMA ArbUnchanged ==
  ASSUME UNCHANGED arbVars
  PROVE  /\ ArbInv => ArbInv'
         /\ \A c : /\ Owner(c)' <=> Owner(c)
                   /\ Queued(c)' <=> Queued(c)
                   /\ Promised(c)' <=> Promised(c)
                   /\ Involved(c)' <=> Involved(c)
  BY DEF arbVars, ArbInv, ArbTypeOK, TaskMatchesState, IdleMeansNobodyWaits, OwnerIsClient,
         ServedOnce, Owner, Queued, Promised, Involved

\* A set of at most three numbers has a least one.
LEMMA LeastOfThree ==
  ASSUME NEW x \in Nat, NEW y \in Nat, NEW z \in Nat,
         NEW S, S # {}, S \subseteq {x, y, z}
  PROVE  \E s \in S : \A t \in S : s <= t
<1>1. \A s \in S : s = x \/ s = y \/ s = z
  OBVIOUS
<1>2. x \in S \/ y \in S \/ z \in S
  BY <1>1
<1>3. ASSUME NEW a \in S, x \in S => a <= x, y \in S => a <= y, z \in S => a <= z
      PROVE  \E s \in S : \A t \in S : s <= t
  <2>1. \A t \in S : a <= t
    BY <1>1, <1>3
  <2> QED
    BY <2>1
<1>4. \/ x \in S /\ (y \in S => x <= y) /\ (z \in S => x <= z)
      \/ y \in S /\ (x \in S => y <= x) /\ (z \in S => y <= z)
      \/ z \in S /\ (x \in S => z <= x) /\ (y \in S => z <= y)
  BY <1>2
<1>5. CASE x \in S /\ (y \in S => x <= y) /\ (z \in S => x <= z)
  BY <1>3, <1>5
<1>6. CASE y \in S /\ (x \in S => y <= x) /\ (z \in S => y <= z)
  BY <1>3, <1>6
<1>7. CASE z \in S /\ (x \in S => z <= x) /\ (y \in S => z <= y)
  BY <1>3, <1>7
<1> QED
  BY <1>4, <1>5, <1>6, <1>7

\* Who waits, or holds, is involved; who is idle appears nowhere.
LEMMA IdleClients ==
  ASSUME NEW c \in SpiClients
  PROVE  Idle(c) <=> m_holder # c /\ c \notin m_requests
  BY DEF Idle, WaitsFor, Holds

\* Taking the bus at once makes the client its holder and changes nothing for the others.
LEMMA TakeNowBus ==
  ASSUME BusInv, NEW c \in SpiClients, TakeNow(c)
  PROVE  /\ BusInv' /\ ~Kept'
         /\ Holds(c)' /\ ~WaitsFor(c)'
         /\ \A d \in SpiClients \ {c} : SameFor(d)
<1> USE SpiAssumption
<1>1. /\ ~working /\ working' /\ m_holder' = c /\ m_holder = NO_HOLDER
      /\ m_requests = {} /\ m_requests' = {} /\ ~grantTask /\ grantTask' = FALSE
      /\ working' = TRUE
  BY DEF TakeNow, CanTakeNow, BusInv, SpiInv, SpiTypeOK
<1>2. ArbInv' /\ Owner(SPI)' /\ Involved(SPI)'
  <2>1. CASE Owner(SPI)
    BY <2>1, ArbUnchanged DEF TakeNow, BusInv, Involved
  <2>2. CASE ~Owner(SPI)
    <3>1. ImmediateRequest(SPI) /\ arbState = "CONTROLLED"
      BY <2>2 DEF TakeNow, CanTakeNow
    <3>2. ArbInv'
      BY <3>1, ImmediateRequestInv DEF BusInv
    <3> QED
      BY <3>1, <3>2 DEF ImmediateRequest, Owner, Involved
  <2> QED
    BY <2>1, <2>2
<1>3. SpiTypeOK' /\ SpiInv'
  BY <1>1, <1>2 DEF SpiTypeOK, SpiInv, ArbInv, BusInv
<1> QED
  BY <1>1, <1>2, <1>3 DEF BusInv, Kept, Holds, WaitsFor, SameFor

\* A request waits, for the first client on USART0, for the others behind the holder.
LEMMA SpiRequestBus ==
  ASSUME BusInv, NEW c \in SpiClients, Idle(c), SpiRequest(c)
  PROVE  /\ BusInv' /\ ~Kept'
         /\ ~Holds(c)' /\ WaitsFor(c)'
         /\ \A d \in SpiClients \ {c} : SameFor(d)
<1> USE SpiAssumption
<1>0. m_holder # c /\ c \notin m_requests
  BY IdleClients
<1>1. CASE ~working
  <2>1. /\ working' /\ m_holder' = c /\ m_holder = NO_HOLDER
        /\ m_requests = {} /\ m_requests' = {} /\ ~grantTask
        /\ ~Queued(SPI) /\ ~Promised(SPI)
    BY <1>1 DEF SpiRequest, BusInv, SpiInv, SpiTypeOK
  <2>2. ArbInv' /\ Involved(SPI)' /\ (grantTask' <=> Owner(SPI)') /\ grantTask' \in BOOLEAN
    <3>1. CASE Owner(SPI)
      <4>1. grantTask' = TRUE /\ UNCHANGED arbVars
        BY <1>1, <3>1 DEF SpiRequest
      <4> QED
        BY <3>1, <4>1, ArbUnchanged DEF BusInv, Involved
    <3>2. CASE ~Owner(SPI)
      <4>1. Request(SPI) /\ UNCHANGED grantTask /\ ~Involved(SPI)
        BY <1>1, <2>1, <3>2 DEF SpiRequest, Involved
      <4> QED
        BY <2>1, <3>2, <4>1, RequestInv, RequestInvolves DEF BusInv, SpiTypeOK
    <3> QED
      BY <3>1, <3>2
  <2>3. SpiTypeOK' /\ SpiInv'
    BY <2>1, <2>2 DEF SpiTypeOK, SpiInv, ArbInv, BusInv
  <2> QED
    BY <2>1, <2>2, <2>3 DEF BusInv, Kept, Holds, WaitsFor, SameFor
<1>2. CASE working
  <2>1. /\ m_requests' = m_requests \cup {c}
        /\ UNCHANGED <<working, m_holder, grantTask, arbVars>>
    BY <1>2 DEF SpiRequest
  <2>2. ArbInv' /\ SpiTypeOK'
    BY <2>1, ArbUnchanged DEF BusInv, SpiTypeOK, ArbInv
  <2>3. SpiInv'
    BY <1>0, <1>2, <2>1, ArbUnchanged DEF BusInv, SpiInv
  <2> QED
    BY <1>0, <1>2, <2>1, <2>2, <2>3, ArbUnchanged DEF BusInv, Kept, Holds, WaitsFor, SameFor
<1> QED
  BY <1>1, <1>2 DEF BusInv, SpiTypeOK

\* The bus is handed on, or USART0 is given back, or kept if abort says so.
LEMMA SpiReleaseBus ==
  ASSUME BusInv, NEW c \in SpiClients, Holds(c), NEW abort, SpiRelease(c, abort)
  PROVE  /\ BusInv' /\ (Kept' => abort)
         /\ Idle(c)'
         /\ \A d \in SpiClients \ {c} : SameFor(d)
<1> USE SpiAssumption
<1>0. m_holder = c /\ Owner(SPI) /\ ~grantTask /\ working /\ c \notin m_requests
  BY DEF Holds, BusInv, SpiInv
<1>1. CASE HandOn
  <2>1. m_requests # {} /\ m_requests \subseteq SpiClients
    BY <1>1 DEF HandOn, BusInv, SpiTypeOK
  <2>2. NextRequest \in m_requests
    <3>1. CTL \in Nat /\ TX \in Nat /\ RX \in Nat /\ m_requests \subseteq {CTL, TX, RX}
      BY <2>1, RadioAssumption
    <3>2. \E x \in m_requests : \A y \in m_requests : x <= y
      BY <2>1, <3>1, LeastOfThree
    <3> QED
      BY <3>2 DEF NextRequest
  <2>3. /\ m_holder' = NextRequest /\ m_requests' = m_requests \ {NextRequest}
        /\ grantTask' /\ UNCHANGED <<working, arbVars>>
    BY <1>1 DEF HandOn
  <2>4. ArbInv' /\ Owner(SPI)' /\ Involved(SPI)'
    BY <1>0, <2>3, ArbUnchanged DEF BusInv, Involved
  <2>5. SpiTypeOK' /\ SpiInv'
    BY <1>0, <1>1, <2>1, <2>2, <2>3, <2>4 DEF HandOn, SpiTypeOK, SpiInv, ArbInv, BusInv
  <2> QED
    BY <1>0, <2>2, <2>3, <2>4, <2>5 DEF BusInv, Kept, Holds, WaitsFor, Idle, SameFor
<1>2. CASE GiveBack(abort)
  <2>1. /\ m_requests = {} /\ m_requests' = {} /\ m_holder' = NO_HOLDER
        /\ ~working' /\ ~grantTask' /\ grantTask' \in BOOLEAN /\ working' \in BOOLEAN
    BY <1>0, <1>2 DEF GiveBack, BusInv, SpiTypeOK
  <2>2. /\ ArbInv' /\ ~Queued(SPI)' /\ ~Promised(SPI)'
        /\ Owner(SPI)' => abort
    <3>1. CASE abort
      <4>1. ~Queued(SPI) /\ ~Promised(SPI)
        BY <1>0 DEF Owner, Promised, BusInv, ArbInv, ServedOnce, TaskMatchesState
      <4> QED
        BY <1>2, <3>1, <4>1, ArbUnchanged DEF GiveBack, BusInv
    <3>2. CASE ~abort
      BY <1>0, <1>2, <3>2, ReleaseInv, ReleaseInvolves DEF GiveBack, BusInv, Involved
    <3> QED
      BY <3>1, <3>2
  <2>3. SpiTypeOK' /\ SpiInv'
    BY <2>1, <2>2 DEF SpiTypeOK, SpiInv, ArbInv, BusInv
  <2> QED
    BY <1>0, <2>1, <2>2, <2>3 DEF BusInv, Kept, Holds, WaitsFor, Idle, SameFor
<1> QED
  BY <1>0, <1>1, <1>2 DEF SpiRelease

\* A release of the arbiter by a stack that does not work: nobody sees it.
LEMMA IdleReleaseBus ==
  ASSUME BusInv, ~working, Release(SPI), UNCHANGED spiVars
  PROVE  /\ BusInv' /\ ~Kept'
         /\ \A d \in SpiClients : SameFor(d)
<1> USE SpiAssumption
<1>1. /\ m_holder = NO_HOLDER /\ m_requests = {} /\ ~grantTask
      /\ ~Queued(SPI) /\ ~Promised(SPI)
  BY DEF BusInv, SpiInv, SpiTypeOK
<1>2. ArbInv' /\ ~Involved(SPI)'
  <2>1. CASE Owner(SPI)
    BY <2>1, ReleaseInv, ReleaseInvolves DEF BusInv
  <2>2. CASE ~Owner(SPI)
    BY <1>1, <2>2, ArbUnchanged DEF Release, BusInv, Involved
  <2> QED
    BY <2>1, <2>2
<1> QED
  BY <1>1, <1>2 DEF BusInv, SpiTypeOK, SpiInv, ArbInv, spiVars, Involved, Kept,
                    Holds, WaitsFor, SameFor

\* attemptRelease gives USART0 back, or does nothing while a client works.
LEMMA AttemptReleaseBus ==
  ASSUME BusInv, AttemptRelease
  PROVE  /\ BusInv' /\ ~Kept'
         /\ \A d \in SpiClients : SameFor(d)
<1>1. CASE ~working
  BY <1>1, IdleReleaseBus DEF AttemptRelease, BusInv, SpiInv, SpiTypeOK
<1>2. CASE working
  BY <1>2, ArbUnchanged DEF AttemptRelease, BusInv, SpiInv, SpiTypeOK, ArbInv, spiVars,
                            Kept, Holds, WaitsFor, SameFor
<1> QED
  BY <1>1, <1>2

\* The grant of USART0 becomes a grant of the SPI bus, and nothing else.
LEMMA SpiGrantedBus ==
  ASSUME BusInv, SpiGranted
  PROVE  /\ BusInv' /\ ~Kept'
         /\ \A d \in SpiClients : SameFor(d)
<1> USE SpiAssumption
<1>1. ArbInv' /\ Owner(SPI)' /\ ~Owner(SPI) /\ Involved(SPI)'
  BY GrantedTaskInv, GrantedTaskInvolves DEF SpiGranted, BusInv, Involved
<1>2. working /\ ~grantTask /\ grantTask' = TRUE /\ UNCHANGED <<working, m_holder, m_requests>>
  BY <1>1 DEF SpiGranted, GrantedTask, Promised, BusInv, SpiInv
<1> QED
  BY <1>1, <1>2 DEF BusInv, SpiTypeOK, SpiInv, ArbInv, Kept, Holds, WaitsFor, SameFor

\* A grant makes one client that waits the holder.
LEMMA GrantBus ==
  ASSUME BusInv, NEW c \in SpiClients, Grant(c),
         UNCHANGED <<working, m_holder, m_requests, arbVars>>
  PROVE  /\ BusInv' /\ ~Kept'
         /\ WaitsFor(c) /\ Holds(c)' /\ ~WaitsFor(c)'
         /\ \A d \in SpiClients \ {c} : SameFor(d)
  BY ArbUnchanged, SpiAssumption
  DEF Grant, BusInv, SpiTypeOK, SpiInv, ArbInv, Kept, Holds, WaitsFor, SameFor

\* What another client of USART0 does is not seen on the SPI bus.
LEMMA OtherClientBus ==
  ASSUME BusInv, NEW c \in Others,
         \/ ClientRequests(c) \/ ClientTriesAtOnce(c) \/ ClientReleases(c)
         \/ GrantedTask(c),
         UNCHANGED spiVars
  PROVE  /\ BusInv' /\ (Kept' <=> Kept)
         /\ \A d \in SpiClients : SameFor(d)
<1> USE SpiAssumption
<1>1. c \in Clients /\ c # SPI
  BY DEF Others
<1>2. ArbInv' /\ (Owner(SPI)' <=> Owner(SPI)) /\ (Involved(SPI)' <=> Involved(SPI))
  <2>1. CASE ClientRequests(c)
    BY <1>1, <2>1, RequestInv, RequestInvolves DEF ClientRequests, BusInv
  <2>2. CASE ClientTriesAtOnce(c)
    BY <1>1, <2>2, ImmediateRequestInv, ImmediateRequestInvolves DEF ClientTriesAtOnce, BusInv
  <2>3. CASE ClientReleases(c)
    BY <1>1, <2>3, ReleaseInv, ReleaseInvolves DEF ClientReleases, BusInv
  <2>4. CASE GrantedTask(c)
    BY <1>1, <2>4, GrantedTaskInv, GrantedTaskInvolves DEF BusInv
  <2> QED
    BY <2>1, <2>2, <2>3, <2>4
<1>3. SpiTypeOK' /\ SpiInv'
  <2>1. CASE working
    BY <1>2, <2>1 DEF BusInv, SpiTypeOK, SpiInv, ArbInv, spiVars
  <2>2. CASE ~working
    <3>1. ~Queued(SPI)' /\ ~Promised(SPI)'
      <4>1. CASE Owner(SPI)
        BY <1>2, <4>1 DEF Owner, Promised, ArbInv, ServedOnce, TaskMatchesState
      <4>2. CASE ~Owner(SPI)
        BY <1>2, <2>2, <4>2 DEF BusInv, SpiInv, Involved
      <4> QED
        BY <4>1, <4>2
    <3> QED
      BY <1>2, <2>2, <3>1 DEF BusInv, SpiTypeOK, SpiInv, ArbInv, spiVars
  <2> QED
    BY <2>1, <2>2
<1> QED
  BY <1>2, <1>3 DEF BusInv, spiVars, Kept, Holds, WaitsFor, SameFor

\* A step that leaves both buses alone changes nothing for their clients.
LEMMA BusUnchanged ==
  ASSUME UNCHANGED busVars
  PROVE  /\ BusInv => BusInv'
         /\ Kept' <=> Kept
         /\ \A d : SameFor(d)
  BY ArbUnchanged
  DEF busVars, spiVars, BusInv, SpiTypeOK, SpiInv, ArbInv, Kept, Holds, WaitsFor, SameFor

\* A strobe in vain in the interrupt: USART0 is taken and given back at once.
LEMMA CongestedBus ==
  ASSUME BusInv, CongestedInInterrupt
  PROVE  /\ BusInv' /\ ~Kept'
         /\ \A d \in SpiClients : SameFor(d)
<1> USE SpiAssumption
<1>1. ~working /\ UNCHANGED spiVars
  BY DEF CongestedInInterrupt, CanTakeNow
<1>2. CASE Owner(SPI)
  BY <1>1, <1>2, IdleReleaseBus DEF CongestedInInterrupt
<1>3. CASE ~Owner(SPI)
  <2>1. /\ arbState = "CONTROLLED" /\ reqResId' = SPI
        /\ UNCHANGED <<arbState, resId, resQ, grantedTask>>
    BY <1>1, <1>3 DEF CongestedInInterrupt, CanTakeNow
  <2>2. ArbInv' /\ ~Owner(SPI)' /\ ~Queued(SPI)' /\ ~Promised(SPI)'
    BY <1>1, <1>3, <2>1
    DEF BusInv, SpiInv, ArbInv, ArbTypeOK, TaskMatchesState, IdleMeansNobodyWaits,
        OwnerIsClient, ServedOnce, Owner, Queued, Promised
  <2> QED
    BY <1>1, <1>3, <2>1, <2>2 DEF BusInv, SpiTypeOK, SpiInv, ArbInv, spiVars, Kept, Holds,
                                  WaitsFor, SameFor
<1> QED
  BY <1>2, <1>3

----------------------------------------------------------------------------
(* The steps of the radio.                                                 *)

Inv == ArbInv /\ RadioInv /\ SentMeansSent

\* The three clients are clients, and three.
LEMMA ThreeClients ==
  /\ CTL \in SpiClients /\ TX \in SpiClients /\ RX \in SpiClients
  /\ CTL # TX /\ CTL # RX /\ TX # RX
  BY RadioAssumption

\* What is said of the radio itself, the bus seen through Holds, WaitsFor and
\* Kept only.
OwnStates == /\ csma \in {"stopped", "starting", "started", "transmitting"}
             /\ boot \in {"off", "vreg", "bus", "osc", "task", "on"}
             /\ m_state \in {"stopped", "started", "load", "sample_cca",
                             "begin_transmit", "sfd", "efd", "ack_wait"}
             /\ capture \in {"off", "rising", "falling"}
             /\ task \in {"none", "arm", "backoff", "told"}
             /\ sendErr \in {"SUCCESS", "ERETRY"}
             /\ air \in {"none", "strobed", "tx", "rx"}

OwnFlags == /\ ackReq \in BOOLEAN /\ writing \in BOOLEAN /\ backoff \in BOOLEAN
            /\ abortSpiRelease \in BOOLEAN /\ m_receiving \in BOOLEAN
            /\ sfdHigh \in BOOLEAN /\ edge \in BOOLEAN /\ doneTask \in BOOLEAN
            /\ left \in BOOLEAN /\ calm \in BOOLEAN

OwnInv == /\ OwnStates /\ OwnFlags
          /\ OneAnswer /\ SomethingComes /\ TransmitterUsesBus
          /\ Kept => abortSpiRelease
          /\ StartsFirst /\ HalfDone /\ EdgeIsOwn /\ SentMeansSent

\* The invariant, as that of the two buses and that of the radio on them.
LEMMA InvParts == Inv <=> BusInv /\ OwnInv
  BY DEF Inv, BusInv, OwnInv, RadioInv, TypeOK, OwnStates, OwnFlags, SpiTypeOK, ArbInv,
         KeepsUsartForAck, Kept

\* The same after a step.
LEMMA InvPartsNext == Inv' <=> BusInv' /\ OwnInv'
  BY DEF Inv, BusInv, OwnInv, RadioInv, TypeOK, OwnStates, OwnFlags, SpiTypeOK, ArbInv,
         KeepsUsartForAck, Kept

\* Init keeps the invariant.
LEMMA InitInv == Init => Inv
<1> SUFFICES ASSUME Init PROVE Inv
  OBVIOUS
<1>1. ArbInv /\ ~Owner(SPI) /\ ~Queued(SPI) /\ ~Promised(SPI)
  BY ArbInitInv DEF Init, SpiInit, ArbInit, Owner, Queued, Promised
<1>2. BusInv
  BY <1>1, SpiAssumption DEF Init, SpiInit, BusInv, SpiTypeOK, SpiInv, ArbInv
<1>3. \A c \in SpiClients : ~Holds(c) /\ ~WaitsFor(c)
  BY SpiAssumption DEF Init, SpiInit, Holds, WaitsFor
<1>4. OwnStates /\ OwnFlags
  BY DEF Init, OwnStates, OwnFlags
<1> QED
  BY <1>1, <1>2, <1>3, <1>4, InvParts, ThreeClients
  DEF Init, OwnInv, OneAnswer, SomethingComes, TransmitterUsesBus, Kept, StartsFirst,
      HalfDone, EdgeIsOwn, SentMeansSent, Idle, SFD

\* The step lemmas below are each about one action: first what it does to the
\* bus, then that the radio's own part is kept.
(* Start.                                                                  *)

(* Start.                                                                  *)

(* Start.                                                                  *)

(* Start.                                                                  *)

(* Start.                                                                  *)

(* Start.                                                                  *)

\* SplitControlStart keeps the invariant.
LEMMA SplitControlStartInv ==
  ASSUME BusInv, OwnInv, SplitControlStart
  PROVE  BusInv' /\ OwnInv'
<1>1. /\ BusInv' /\ (Kept' <=> Kept)
      /\ SameFor(CTL) /\ SameFor(TX) /\ SameFor(RX)
  BY BusUnchanged DEF SplitControlStart
<1> QED
  BY <1>1, ThreeClients
  DEF OwnInv, OwnStates, OwnFlags, OneAnswer, SomethingComes, TransmitterUsesBus,
      StartsFirst, HalfDone, EdgeIsOwn, SentMeansSent, Idle, SFD, SameFor, txVars,
      sfdVars, doneVars, airVars, SplitControlStart

\* StartVRegDone keeps the invariant.
LEMMA StartVRegDoneInv ==
  ASSUME BusInv, OwnInv, StartVRegDone
  PROVE  BusInv' /\ OwnInv'
<1>1. /\ BusInv' /\ ~Kept' /\ ~Holds(CTL)' /\ WaitsFor(CTL)'
      /\ SameFor(TX) /\ SameFor(RX)
  BY SpiRequestBus, ThreeClients DEF StartVRegDone, OwnInv, StartsFirst
<1> QED
  BY <1>1, ThreeClients
  DEF OwnInv, OwnStates, OwnFlags, OneAnswer, SomethingComes, TransmitterUsesBus,
      StartsFirst, HalfDone, EdgeIsOwn, SentMeansSent, Idle, SFD, SameFor, txVars,
      sfdVars, doneVars, airVars, StartVRegDone

\* ControlGranted keeps the invariant.
LEMMA ControlGrantedInv ==
  ASSUME BusInv, OwnInv, ControlGranted
  PROVE  BusInv' /\ OwnInv'
<1>1. /\ BusInv' /\ ~Kept' /\ WaitsFor(CTL) /\ Holds(CTL)' /\ ~WaitsFor(CTL)'
      /\ SameFor(TX) /\ SameFor(RX)
  BY GrantBus, ThreeClients DEF ControlGranted
<1> QED
  BY <1>1, ThreeClients
  DEF OwnInv, OwnStates, OwnFlags, OneAnswer, SomethingComes, TransmitterUsesBus,
      StartsFirst, HalfDone, EdgeIsOwn, SentMeansSent, Idle, SFD, SameFor, txVars,
      sfdVars, doneVars, airVars, ControlGranted

\* StartOscillatorDone keeps the invariant.
LEMMA StartOscillatorDoneInv ==
  ASSUME BusInv, OwnInv, StartOscillatorDone
  PROVE  BusInv' /\ OwnInv'
<1>1. /\ BusInv' /\ (Kept' <=> Kept)
      /\ SameFor(CTL) /\ SameFor(TX) /\ SameFor(RX)
  BY BusUnchanged DEF StartOscillatorDone
<1> QED
  BY <1>1, ThreeClients
  DEF OwnInv, OwnStates, OwnFlags, OneAnswer, SomethingComes, TransmitterUsesBus,
      StartsFirst, HalfDone, EdgeIsOwn, SentMeansSent, Idle, SFD, SameFor, txVars,
      sfdVars, doneVars, airVars, StartOscillatorDone

\* StartDoneTask keeps the invariant.
LEMMA StartDoneTaskInv ==
  ASSUME BusInv, OwnInv, StartDoneTask
  PROVE  BusInv' /\ OwnInv'
<1>1. /\ BusInv' /\ ~Kept' /\ Idle(CTL)'
      /\ SameFor(TX) /\ SameFor(RX)
  BY SpiReleaseBus, ThreeClients DEF StartDoneTask, OwnInv, StartsFirst
<1> QED
  BY <1>1, ThreeClients
  DEF OwnInv, OwnStates, OwnFlags, OneAnswer, SomethingComes, TransmitterUsesBus,
      StartsFirst, HalfDone, EdgeIsOwn, SentMeansSent, Idle, SFD, SameFor, txVars,
      sfdVars, doneVars, airVars, StartDoneTask

----------------------------------------------------------------------------
(* CC2420CsmaP.                                                            *)

\* SendDoneTask keeps the invariant.
LEMMA SendDoneTaskInv ==
  ASSUME BusInv, OwnInv, SendDoneTask
  PROVE  BusInv' /\ OwnInv'
<1>1. /\ BusInv' /\ (Kept' <=> Kept)
      /\ SameFor(CTL) /\ SameFor(TX) /\ SameFor(RX)
  BY BusUnchanged DEF SendDoneTask
<1>2. OwnStates'
  BY <1>1
  DEF OwnInv, OwnStates, txVars, sfdVars, doneVars, airVars, SendDoneTask
<1>3. OwnFlags'
  BY <1>1
  DEF OwnInv, OwnFlags, txVars, sfdVars, doneVars, airVars, SendDoneTask
<1>4. OneAnswer'
  BY <1>1
  DEF OwnInv, OwnStates, OwnFlags, OneAnswer, StartsFirst, txVars, sfdVars, doneVars,
      airVars, SendDoneTask
<1>5. HalfDone'
  BY <1>1
  DEF OwnInv, OwnStates, OwnFlags, OneAnswer, HalfDone, StartsFirst, TransmitterUsesBus,
      txVars, sfdVars, doneVars, airVars, SendDoneTask
<1>6. SomethingComes'
  BY <1>1, ThreeClients
  DEF OwnInv, OwnStates, OwnFlags, OneAnswer, HalfDone, SomethingComes,
      TransmitterUsesBus, EdgeIsOwn, SFD, SameFor, txVars, sfdVars, doneVars, airVars,
      SendDoneTask
<1>7. TransmitterUsesBus' /\ StartsFirst' /\ (Kept' => abortSpiRelease')
  BY <1>1, ThreeClients
  DEF OwnInv, OwnStates, OwnFlags, OneAnswer, HalfDone, TransmitterUsesBus, StartsFirst,
      Idle, SameFor, txVars, sfdVars, doneVars, airVars, SendDoneTask
<1>8. EdgeIsOwn'
  BY <1>1
  DEF OwnInv, OwnStates, OwnFlags, StartsFirst, EdgeIsOwn, SentMeansSent, SomethingComes,
      SFD, txVars, sfdVars, doneVars, airVars, SendDoneTask
<1>9. SentMeansSent'
  BY <1>1
  DEF OwnInv, OwnStates, OwnFlags, OneAnswer, StartsFirst, EdgeIsOwn, SentMeansSent, SFD,
      txVars, sfdVars, doneVars, airVars, SendDoneTask
<1> QED
  BY <1>1, <1>2, <1>3, <1>4, <1>5, <1>6, <1>7, <1>8, <1>9 DEF OwnInv

\* HandlerReturns keeps the invariant.
LEMMA HandlerReturnsInv ==
  ASSUME BusInv, OwnInv, HandlerReturns
  PROVE  BusInv' /\ OwnInv'
<1>1. /\ BusInv' /\ (Kept' <=> Kept)
      /\ SameFor(CTL) /\ SameFor(TX) /\ SameFor(RX)
  BY BusUnchanged DEF HandlerReturns
<1> QED
  BY <1>1, ThreeClients
  DEF OwnInv, OwnStates, OwnFlags, OneAnswer, SomethingComes, TransmitterUsesBus,
      StartsFirst, HalfDone, EdgeIsOwn, SentMeansSent, Idle, SFD, SameFor, txVars,
      sfdVars, doneVars, airVars, HandlerReturns

\* What is sent is loaded at once if the bus is free; else the bus is asked for.
LEMMA SendInv ==
  ASSUME BusInv, OwnInv, NEW a \in ACK_REQS, Send(a)
  PROVE  BusInv' /\ OwnInv'
<1>1. /\ m_state = "started" /\ a \in BOOLEAN /\ ~Holds(TX) /\ ~WaitsFor(TX)
      /\ BusInv' /\ ~Kept' /\ SameFor(CTL) /\ SameFor(RX)
      /\ writing' \in BOOLEAN
      /\ writing' => Holds(TX)' /\ ~WaitsFor(TX)'
      /\ ~writing' => ~Holds(TX)' /\ WaitsFor(TX)'
  <2>1. m_state = "started" /\ a \in BOOLEAN /\ Load /\ writing = FALSE /\ Idle(TX)
    BY RadioAssumption
    DEF Send, OwnInv, OwnFlags, OneAnswer, HalfDone, TransmitterUsesBus, Idle
  <2>2. CASE CanTakeNow
    BY <2>1, <2>2, TakeNowBus, ThreeClients DEF Load, Idle
  <2>3. CASE ~CanTakeNow
    BY <2>1, <2>3, SpiRequestBus, ThreeClients DEF Load, Idle
  <2> QED
    BY <2>1, <2>2, <2>3 DEF Idle
<1>2. OwnStates'
  BY <1>1
  DEF OwnInv, OwnStates, txVars, sfdVars, doneVars, airVars, Send
<1>3. OwnFlags'
  BY <1>1
  DEF OwnInv, OwnFlags, txVars, sfdVars, doneVars, airVars, Send
<1>4. OneAnswer'
  BY <1>1
  DEF OwnInv, OwnStates, OwnFlags, OneAnswer, StartsFirst, txVars, sfdVars, doneVars,
      airVars, Send
<1>5. HalfDone'
  BY <1>1
  DEF OwnInv, OwnStates, OwnFlags, OneAnswer, HalfDone, StartsFirst, TransmitterUsesBus,
      txVars, sfdVars, doneVars, airVars, Send
<1>6. SomethingComes'
  BY <1>1, ThreeClients
  DEF OwnInv, OwnStates, OwnFlags, OneAnswer, HalfDone, SomethingComes,
      TransmitterUsesBus, EdgeIsOwn, SFD, SameFor, txVars, sfdVars, doneVars, airVars,
      Send
<1>7. TransmitterUsesBus' /\ StartsFirst' /\ (Kept' => abortSpiRelease')
  BY <1>1, ThreeClients
  DEF OwnInv, OwnStates, OwnFlags, OneAnswer, HalfDone, TransmitterUsesBus, StartsFirst,
      Idle, SameFor, txVars, sfdVars, doneVars, airVars, Send
<1>8. EdgeIsOwn'
  BY <1>1
  DEF OwnInv, OwnStates, OwnFlags, StartsFirst, EdgeIsOwn, SentMeansSent, SomethingComes,
      SFD, txVars, sfdVars, doneVars, airVars, Send
<1>9. SentMeansSent'
  BY <1>1
  DEF OwnInv, OwnStates, OwnFlags, OneAnswer, StartsFirst, EdgeIsOwn, SentMeansSent, SFD,
      txVars, sfdVars, doneVars, airVars, Send
<1> QED
  BY <1>1, <1>2, <1>3, <1>4, <1>5, <1>6, <1>7, <1>8, <1>9 DEF OwnInv

----------------------------------------------------------------------------
(* CC2420TransmitP.                                                        *)

\* TxFifoWritten keeps the invariant.
LEMMA TxFifoWrittenInv ==
  ASSUME BusInv, OwnInv, TxFifoWritten
  PROVE  BusInv' /\ OwnInv'
<1>1. /\ m_state = "load" /\ ~abortSpiRelease /\ writing
      /\ BusInv' /\ ~Kept' /\ Idle(TX)'
      /\ SameFor(CTL) /\ SameFor(RX)
  <2>1. m_state = "load" /\ ~abortSpiRelease /\ writing /\ Holds(TX)
    BY DEF TxFifoWritten, OwnInv, HalfDone, TransmitterUsesBus
  <2> QED
    BY <2>1, SpiReleaseBus, ThreeClients DEF TxFifoWritten
<1>2. OwnStates'
  BY <1>1
  DEF OwnInv, OwnStates, txVars, sfdVars, doneVars, airVars, TxFifoWritten
<1>3. OwnFlags'
  BY <1>1
  DEF OwnInv, OwnFlags, txVars, sfdVars, doneVars, airVars, TxFifoWritten
<1>4. OneAnswer'
  BY <1>1
  DEF OwnInv, OwnStates, OwnFlags, OneAnswer, StartsFirst, txVars, sfdVars, doneVars,
      airVars, TxFifoWritten
<1>5. HalfDone'
  BY <1>1
  DEF OwnInv, OwnStates, OwnFlags, OneAnswer, HalfDone, StartsFirst, TransmitterUsesBus,
      txVars, sfdVars, doneVars, airVars, TxFifoWritten
<1>6. SomethingComes'
  BY <1>1, ThreeClients
  DEF OwnInv, OwnStates, OwnFlags, OneAnswer, HalfDone, SomethingComes,
      TransmitterUsesBus, EdgeIsOwn, SFD, SameFor, txVars, sfdVars, doneVars, airVars,
      TxFifoWritten
<1>7. TransmitterUsesBus' /\ StartsFirst' /\ (Kept' => abortSpiRelease')
  BY <1>1, ThreeClients
  DEF OwnInv, OwnStates, OwnFlags, OneAnswer, HalfDone, TransmitterUsesBus, StartsFirst,
      Idle, SameFor, txVars, sfdVars, doneVars, airVars, TxFifoWritten
<1>8. EdgeIsOwn'
  BY <1>1
  DEF OwnInv, OwnStates, OwnFlags, StartsFirst, EdgeIsOwn, SentMeansSent, SomethingComes,
      SFD, txVars, sfdVars, doneVars, airVars, TxFifoWritten
<1>9. SentMeansSent'
  BY <1>1
  DEF OwnInv, OwnStates, OwnFlags, OneAnswer, StartsFirst, EdgeIsOwn, SentMeansSent, SFD,
      txVars, sfdVars, doneVars, airVars, TxFifoWritten
<1> QED
  BY <1>1, <1>2, <1>3, <1>4, <1>5, <1>6, <1>7, <1>8, <1>9 DEF OwnInv

\* TransmitGranted keeps the invariant.
LEMMA TransmitGrantedInv ==
  ASSUME BusInv, OwnInv, TransmitGranted
  PROVE  BusInv' /\ OwnInv'
<1>1. /\ BusInv' /\ ~Kept' /\ WaitsFor(TX) /\ Holds(TX)' /\ ~WaitsFor(TX)'
      /\ SameFor(CTL) /\ SameFor(RX)
  BY GrantBus, ThreeClients DEF TransmitGranted
<1>2. OwnStates'
  BY <1>1
  DEF OwnInv, OwnStates, txVars, sfdVars, doneVars, airVars, TransmitGranted,
      LoadGranted, AttemptInTask, Strobed
<1>3. OwnFlags'
  BY <1>1
  DEF OwnInv, OwnFlags, txVars, sfdVars, doneVars, airVars, TransmitGranted, LoadGranted,
      AttemptInTask, Strobed
<1>4. OneAnswer'
  BY <1>1
  DEF OwnInv, OwnStates, OwnFlags, OneAnswer, StartsFirst, txVars, sfdVars, doneVars,
      airVars, TransmitGranted, LoadGranted, AttemptInTask, Strobed
<1>5. HalfDone'
  BY <1>1
  DEF OwnInv, OwnStates, OwnFlags, OneAnswer, HalfDone, StartsFirst, TransmitterUsesBus,
      txVars, sfdVars, doneVars, airVars, TransmitGranted, LoadGranted, AttemptInTask,
      Strobed
<1>6. SomethingComes'
  BY <1>1, ThreeClients
  DEF OwnInv, OwnStates, OwnFlags, OneAnswer, HalfDone, SomethingComes,
      TransmitterUsesBus, EdgeIsOwn, SFD, SameFor, txVars, sfdVars, doneVars, airVars,
      TransmitGranted, LoadGranted, AttemptInTask, Strobed
<1>7. TransmitterUsesBus' /\ StartsFirst' /\ (Kept' => abortSpiRelease')
  BY <1>1, ThreeClients
  DEF OwnInv, OwnStates, OwnFlags, OneAnswer, HalfDone, TransmitterUsesBus, StartsFirst,
      Idle, SameFor, txVars, sfdVars, doneVars, airVars, TransmitGranted, LoadGranted,
      AttemptInTask, Strobed
<1>8. EdgeIsOwn'
  BY <1>1
  DEF OwnInv, OwnStates, OwnFlags, StartsFirst, EdgeIsOwn, SentMeansSent, SomethingComes,
      SFD, txVars, sfdVars, doneVars, airVars, TransmitGranted, LoadGranted,
      AttemptInTask, Strobed
<1>9. SentMeansSent'
  BY <1>1
  DEF OwnInv, OwnStates, OwnFlags, OneAnswer, StartsFirst, EdgeIsOwn, SentMeansSent, SFD,
      txVars, sfdVars, doneVars, airVars, TransmitGranted, LoadGranted, AttemptInTask,
      Strobed
<1> QED
  BY <1>1, <1>2, <1>3, <1>4, <1>5, <1>6, <1>7, <1>8, <1>9 DEF OwnInv

\* AttemptEnds keeps the invariant.
LEMMA AttemptEndsInv ==
  ASSUME BusInv, OwnInv, AttemptEnds
  PROVE  BusInv' /\ OwnInv'
<1>1. /\ BusInv' /\ SameFor(CTL) /\ SameFor(RX)
      /\ task \in {"arm", "backoff"}
      /\ task = "arm" => SameFor(TX) /\ (Kept' <=> Kept)
      /\ task = "backoff" => m_state = "sample_cca" /\ Idle(TX)' /\ ~Kept'
  <2>1. CASE task = "arm"
    BY <2>1, BusUnchanged DEF AttemptEnds
  <2>2. CASE task = "backoff"
    <3>1. m_state = "sample_cca" /\ Holds(TX) /\ ~abortSpiRelease
      BY <2>2 DEF OwnInv, HalfDone, TransmitterUsesBus
    <3> QED
      BY <2>2, <3>1, SpiReleaseBus, ThreeClients DEF AttemptEnds
  <2> QED
    BY <2>1, <2>2 DEF AttemptEnds
<1> QED
  BY <1>1, ThreeClients
  DEF OwnInv, OwnStates, OwnFlags, OneAnswer, SomethingComes, TransmitterUsesBus,
      StartsFirst, HalfDone, EdgeIsOwn, SentMeansSent, Idle, SFD, SameFor, txVars,
      sfdVars, doneVars, airVars, AttemptEnds

(* BackoffTimer.fired, by m_state.                                         *)

\* BackoffClear keeps the invariant.
LEMMA BackoffClearInv ==
  ASSUME BusInv, OwnInv, backoff, BackoffClear,
         UNCHANGED <<csma, boot, ackReq, writing, task, left>>
  PROVE  BusInv' /\ OwnInv'
<1>1. /\ BusInv' /\ (Kept' <=> Kept)
      /\ SameFor(CTL) /\ SameFor(TX) /\ SameFor(RX)
  BY BusUnchanged DEF BackoffClear
<1> QED
  BY <1>1, ThreeClients
  DEF OwnInv, OwnStates, OwnFlags, OneAnswer, SomethingComes, TransmitterUsesBus,
      StartsFirst, HalfDone, EdgeIsOwn, SentMeansSent, Idle, SFD, SameFor, sfdVars,
      doneVars, BackoffClear

\* AttemptInInterrupt keeps the invariant.
LEMMA AttemptInInterruptInv ==
  ASSUME BusInv, OwnInv, backoff, AttemptInInterrupt,
         UNCHANGED <<csma, boot, ackReq, writing, task, left>>
  PROVE  BusInv' /\ OwnInv'
<1>1. /\ BusInv' /\ ~Kept' /\ Holds(TX)' /\ ~WaitsFor(TX)'
      /\ ~Holds(TX)
      /\ SameFor(CTL) /\ SameFor(RX)
  BY TakeNowBus, ThreeClients DEF AttemptInInterrupt, TakeNow, CanTakeNow, BusInv, SpiInv,
                                  SpiTypeOK, Holds, SpiAssumption
<1> QED
  BY <1>1, ThreeClients
  DEF OwnInv, OwnStates, OwnFlags, OneAnswer, SomethingComes, TransmitterUsesBus,
      StartsFirst, HalfDone, EdgeIsOwn, SentMeansSent, Idle, SFD, SameFor, sfdVars,
      doneVars, AttemptInInterrupt, Strobed

\* CongestedInInterrupt keeps the invariant.
LEMMA CongestedInInterruptInv ==
  ASSUME BusInv, OwnInv, backoff, CongestedInInterrupt,
         UNCHANGED <<csma, boot, ackReq, writing, task, left>>
  PROVE  BusInv' /\ OwnInv'
<1>1. /\ BusInv' /\ ~Kept'
      /\ SameFor(CTL) /\ SameFor(TX) /\ SameFor(RX)
  BY CongestedBus, ThreeClients
<1> QED
  BY <1>1, ThreeClients
  DEF OwnInv, OwnStates, OwnFlags, OneAnswer, SomethingComes, TransmitterUsesBus,
      StartsFirst, HalfDone, EdgeIsOwn, SentMeansSent, Idle, SFD, SameFor, sfdVars,
      doneVars, CongestedInInterrupt

\* AttemptLater keeps the invariant.
LEMMA AttemptLaterInv ==
  ASSUME BusInv, OwnInv, backoff, AttemptLater,
         UNCHANGED <<csma, boot, ackReq, writing, task, left>>
  PROVE  BusInv' /\ OwnInv'
<1>1. /\ BusInv' /\ ~Kept' /\ ~Holds(TX)' /\ WaitsFor(TX)'
      /\ SameFor(CTL) /\ SameFor(RX)
  <2>1. Idle(TX)
    BY DEF AttemptLater, OwnInv, TransmitterUsesBus, HalfDone, Idle
  <2> QED
    BY <2>1, SpiRequestBus, ThreeClients DEF AttemptLater
<1>2. OwnStates'
  BY <1>1
  DEF OwnInv, OwnStates, sfdVars, doneVars, AttemptLater
<1>3. OwnFlags'
  BY <1>1
  DEF OwnInv, OwnFlags, sfdVars, doneVars, AttemptLater
<1>4. OneAnswer'
  BY <1>1
  DEF OwnInv, OwnStates, OwnFlags, OneAnswer, StartsFirst, sfdVars, doneVars,
      AttemptLater
<1>5. HalfDone'
  BY <1>1
  DEF OwnInv, OwnStates, OwnFlags, OneAnswer, HalfDone, StartsFirst, TransmitterUsesBus,
      sfdVars, doneVars, AttemptLater
<1>6. SomethingComes'
  BY <1>1, ThreeClients
  DEF OwnInv, OwnStates, OwnFlags, OneAnswer, HalfDone, SomethingComes,
      TransmitterUsesBus, EdgeIsOwn, SFD, SameFor, sfdVars, doneVars, AttemptLater
<1>7. TransmitterUsesBus' /\ StartsFirst' /\ (Kept' => abortSpiRelease')
  BY <1>1, ThreeClients
  DEF OwnInv, OwnStates, OwnFlags, OneAnswer, HalfDone, TransmitterUsesBus, StartsFirst,
      Idle, SameFor, sfdVars, doneVars, AttemptLater
<1>8. EdgeIsOwn'
  BY <1>1
  DEF OwnInv, OwnStates, OwnFlags, StartsFirst, EdgeIsOwn, SentMeansSent, SomethingComes,
      SFD, sfdVars, doneVars, AttemptLater
<1>9. SentMeansSent'
  BY <1>1
  DEF OwnInv, OwnStates, OwnFlags, OneAnswer, StartsFirst, EdgeIsOwn, SentMeansSent, SFD,
      sfdVars, doneVars, AttemptLater
<1> QED
  BY <1>1, <1>2, <1>3, <1>4, <1>5, <1>6, <1>7, <1>8, <1>9 DEF OwnInv

\* NoAck keeps the invariant.
LEMMA NoAckInv ==
  ASSUME BusInv, OwnInv, backoff, NoAck,
         UNCHANGED <<csma, boot, ackReq, writing, task, left>>
  PROVE  BusInv' /\ OwnInv'
<1>1. /\ BusInv' /\ ~Kept'
      /\ SameFor(CTL) /\ SameFor(TX) /\ SameFor(RX)
  BY AttemptReleaseBus, ThreeClients DEF NoAck
<1>2. OwnStates'
  BY <1>1
  DEF OwnInv, OwnStates, sfdVars, doneVars, NoAck, SignalDone
<1>3. OwnFlags'
  BY <1>1
  DEF OwnInv, OwnFlags, sfdVars, doneVars, NoAck, SignalDone
<1>4. OneAnswer'
  BY <1>1
  DEF OwnInv, OwnStates, OwnFlags, OneAnswer, StartsFirst, sfdVars, doneVars, NoAck,
      SignalDone
<1>5. HalfDone'
  BY <1>1
  DEF OwnInv, OwnStates, OwnFlags, OneAnswer, HalfDone, StartsFirst, TransmitterUsesBus,
      sfdVars, doneVars, NoAck, SignalDone
<1>6. SomethingComes'
  BY <1>1, ThreeClients
  DEF OwnInv, OwnStates, OwnFlags, OneAnswer, HalfDone, SomethingComes,
      TransmitterUsesBus, EdgeIsOwn, SFD, SameFor, sfdVars, doneVars, NoAck, SignalDone
<1>7. TransmitterUsesBus' /\ StartsFirst' /\ (Kept' => abortSpiRelease')
  BY <1>1, ThreeClients
  DEF OwnInv, OwnStates, OwnFlags, OneAnswer, HalfDone, TransmitterUsesBus, StartsFirst,
      Idle, SameFor, sfdVars, doneVars, NoAck, SignalDone
<1>8. EdgeIsOwn'
  BY <1>1
  DEF OwnInv, OwnStates, OwnFlags, StartsFirst, EdgeIsOwn, SentMeansSent, SomethingComes,
      SFD, sfdVars, doneVars, NoAck, SignalDone
<1>9. SentMeansSent'
  BY <1>1
  DEF OwnInv, OwnStates, OwnFlags, OneAnswer, StartsFirst, EdgeIsOwn, SentMeansSent, SFD,
      sfdVars, doneVars, NoAck, SignalDone
<1> QED
  BY <1>1, <1>2, <1>3, <1>4, <1>5, <1>6, <1>7, <1>8, <1>9 DEF OwnInv

\* NoSfd keeps the invariant.
LEMMA NoSfdInv ==
  ASSUME BusInv, OwnInv, backoff, NoSfd,
         UNCHANGED <<csma, boot, ackReq, writing, task, left>>
  PROVE  BusInv' /\ OwnInv'
<1>1. /\ BusInv' /\ ~Kept' /\ Idle(TX)'
      /\ SameFor(CTL) /\ SameFor(RX)
  <2>1. Holds(TX)
    BY DEF NoSfd, OwnInv, TransmitterUsesBus
  <2> QED
    BY <2>1, SpiReleaseBus, ThreeClients DEF NoSfd
<1> QED
  BY <1>1, ThreeClients
  DEF OwnInv, OwnStates, OwnFlags, OneAnswer, SomethingComes, TransmitterUsesBus,
      StartsFirst, HalfDone, EdgeIsOwn, SentMeansSent, Idle, SFD, SameFor, sfdVars,
      doneVars, NoSfd, SignalDone

\* TooLate keeps the invariant.
LEMMA TooLateInv ==
  ASSUME BusInv, OwnInv, backoff, TooLate,
         UNCHANGED <<csma, boot, ackReq, writing, task, left>>
  PROVE  BusInv' /\ OwnInv'
<1>1. /\ BusInv' /\ (Kept' <=> Kept)
      /\ SameFor(CTL) /\ SameFor(TX) /\ SameFor(RX)
  BY BusUnchanged DEF TooLate
<1>2. OwnStates'
  BY <1>1
  DEF OwnInv, OwnStates, sfdVars, doneVars, TooLate
<1>3. OwnFlags'
  BY <1>1
  DEF OwnInv, OwnFlags, sfdVars, doneVars, TooLate
<1>4. OneAnswer'
  BY <1>1
  DEF OwnInv, OwnStates, OwnFlags, OneAnswer, StartsFirst, sfdVars, doneVars, TooLate
<1>5. HalfDone'
  BY <1>1
  DEF OwnInv, OwnStates, OwnFlags, OneAnswer, HalfDone, StartsFirst, TransmitterUsesBus,
      sfdVars, doneVars, TooLate
<1>6. SomethingComes'
  BY <1>1, ThreeClients
  DEF OwnInv, OwnStates, OwnFlags, OneAnswer, HalfDone, SomethingComes,
      TransmitterUsesBus, EdgeIsOwn, SFD, SameFor, sfdVars, doneVars, TooLate
<1>7. TransmitterUsesBus' /\ StartsFirst' /\ (Kept' => abortSpiRelease')
  BY <1>1, ThreeClients
  DEF OwnInv, OwnStates, OwnFlags, OneAnswer, HalfDone, TransmitterUsesBus, StartsFirst,
      Idle, SameFor, sfdVars, doneVars, TooLate
<1>8. EdgeIsOwn'
  BY <1>1
  DEF OwnInv, OwnStates, OwnFlags, StartsFirst, EdgeIsOwn, SentMeansSent, SomethingComes,
      SFD, sfdVars, doneVars, TooLate
<1>9. SentMeansSent'
  BY <1>1
  DEF OwnInv, OwnStates, OwnFlags, OneAnswer, StartsFirst, EdgeIsOwn, SentMeansSent, SFD,
      sfdVars, doneVars, TooLate
<1> QED
  BY <1>1, <1>2, <1>3, <1>4, <1>5, <1>6, <1>7, <1>8, <1>9 DEF OwnInv

\* BackoffTimerFired keeps the invariant.
LEMMA BackoffTimerFiredInv ==
  ASSUME BusInv, OwnInv, BackoffTimerFired
  PROVE  BusInv' /\ OwnInv'
  BY BackoffClearInv, AttemptInInterruptInv, CongestedInInterruptInv, AttemptLaterInv,
     NoAckInv, NoSfdInv, TooLateInv
  DEF BackoffTimerFired

\* AckReceived keeps the invariant.
LEMMA AckReceivedInv ==
  ASSUME BusInv, OwnInv, AckReceived
  PROVE  BusInv' /\ OwnInv'
<1>1. /\ BusInv' /\ ~Kept'
      /\ SameFor(CTL) /\ SameFor(TX) /\ SameFor(RX)
  BY AttemptReleaseBus, ThreeClients DEF AckReceived
<1>2. OwnStates'
  BY <1>1
  DEF OwnInv, OwnStates, sfdVars, airVars, AckReceived, SignalDone
<1>3. OwnFlags'
  BY <1>1
  DEF OwnInv, OwnFlags, sfdVars, airVars, AckReceived, SignalDone
<1>4. OneAnswer'
  BY <1>1
  DEF OwnInv, OwnStates, OwnFlags, OneAnswer, StartsFirst, sfdVars, airVars, AckReceived,
      SignalDone
<1>5. HalfDone'
  BY <1>1
  DEF OwnInv, OwnStates, OwnFlags, OneAnswer, HalfDone, StartsFirst, TransmitterUsesBus,
      sfdVars, airVars, AckReceived, SignalDone
<1>6. SomethingComes'
  BY <1>1, ThreeClients
  DEF OwnInv, OwnStates, OwnFlags, OneAnswer, HalfDone, SomethingComes,
      TransmitterUsesBus, EdgeIsOwn, SFD, SameFor, sfdVars, airVars, AckReceived,
      SignalDone
<1>7. TransmitterUsesBus' /\ StartsFirst' /\ (Kept' => abortSpiRelease')
  BY <1>1, ThreeClients
  DEF OwnInv, OwnStates, OwnFlags, OneAnswer, HalfDone, TransmitterUsesBus, StartsFirst,
      Idle, SameFor, sfdVars, airVars, AckReceived, SignalDone
<1>8. EdgeIsOwn'
  BY <1>1
  DEF OwnInv, OwnStates, OwnFlags, StartsFirst, EdgeIsOwn, SentMeansSent, SomethingComes,
      SFD, sfdVars, airVars, AckReceived, SignalDone
<1>9. SentMeansSent'
  BY <1>1
  DEF OwnInv, OwnStates, OwnFlags, OneAnswer, StartsFirst, EdgeIsOwn, SentMeansSent, SFD,
      sfdVars, airVars, AckReceived, SignalDone
<1> QED
  BY <1>1, <1>2, <1>3, <1>4, <1>5, <1>6, <1>7, <1>8, <1>9 DEF OwnInv

(* CaptureSFD.captured, by m_state and SFD.                                *)

\* SfdSeen keeps the invariant.
LEMMA SfdSeenInv ==
  ASSUME BusInv, OwnInv, edge, edge' = FALSE, SfdSeen,
         UNCHANGED <<csma, boot, ackReq, writing, task, airVars>>
  PROVE  BusInv' /\ OwnInv'
<1>1. /\ BusInv' /\ (Kept' => ackReq) /\ Idle(TX)'
      /\ SameFor(CTL) /\ SameFor(RX)
  <2>1. Holds(TX)
    BY DEF SfdSeen, OwnInv, TransmitterUsesBus
  <2> QED
    BY <2>1, SpiReleaseBus, ThreeClients DEF SfdSeen
<1> QED
  BY <1>1, ThreeClients
  DEF OwnInv, OwnStates, OwnFlags, OneAnswer, SomethingComes, TransmitterUsesBus,
      StartsFirst, HalfDone, EdgeIsOwn, SentMeansSent, Idle, SFD, SameFor, doneVars,
      airVars, SfdSeen, Awaits

\* SfdMissed keeps the invariant.
LEMMA SfdMissedInv ==
  ASSUME BusInv, OwnInv, edge, edge' = FALSE, SfdMissed,
         UNCHANGED <<csma, boot, ackReq, writing, task, airVars>>
  PROVE  BusInv' /\ OwnInv'
<1>1. /\ BusInv' /\ (Kept' => ackReq) /\ Idle(TX)'
      /\ SameFor(CTL) /\ SameFor(RX)
  <2>1. Holds(TX)
    BY DEF SfdMissed, OwnInv, TransmitterUsesBus
  <2> QED
    BY <2>1, SpiReleaseBus, ThreeClients DEF SfdMissed
<1> QED
  BY <1>1, ThreeClients
  DEF OwnInv, OwnStates, OwnFlags, OneAnswer, SomethingComes, TransmitterUsesBus,
      StartsFirst, HalfDone, EdgeIsOwn, SentMeansSent, Idle, SFD, SameFor, doneVars,
      airVars, SfdMissed, Awaits, OwnFrameOver, SignalDone

\* EfdSeen keeps the invariant.
LEMMA EfdSeenInv ==
  ASSUME BusInv, OwnInv, edge, edge' = FALSE, EfdSeen,
         UNCHANGED <<csma, boot, ackReq, writing, task, airVars>>
  PROVE  BusInv' /\ OwnInv'
<1>1. /\ BusInv' /\ SameFor(CTL) /\ SameFor(TX) /\ SameFor(RX)
      /\ ackReq => (Kept' <=> Kept)
      /\ ~ackReq => ~Kept' /\ UNCHANGED backoff
  <2>1. CASE ackReq
    BY <2>1, BusUnchanged DEF EfdSeen
  <2>2. CASE ~ackReq
    BY <2>2, AttemptReleaseBus, ThreeClients DEF EfdSeen
  <2> QED
    BY <2>1, <2>2
<1>2. OwnStates'
  BY <1>1
  DEF OwnInv, OwnStates, doneVars, airVars, EfdSeen, Awaits, OwnFrameOver, SignalDone
<1>3. OwnFlags'
  BY <1>1
  DEF OwnInv, OwnFlags, doneVars, airVars, EfdSeen, Awaits, OwnFrameOver, SignalDone
<1>4. OneAnswer'
  BY <1>1
  DEF OwnInv, OwnStates, OwnFlags, OneAnswer, StartsFirst, doneVars, airVars, EfdSeen,
      Awaits, OwnFrameOver, SignalDone
<1>5. HalfDone'
  BY <1>1
  DEF OwnInv, OwnStates, OwnFlags, OneAnswer, HalfDone, StartsFirst, TransmitterUsesBus,
      doneVars, airVars, EfdSeen, Awaits, OwnFrameOver, SignalDone
<1>6. SomethingComes'
  BY <1>1, ThreeClients
  DEF OwnInv, OwnStates, OwnFlags, OneAnswer, HalfDone, SomethingComes,
      TransmitterUsesBus, EdgeIsOwn, SFD, SameFor, doneVars, airVars, EfdSeen, Awaits,
      OwnFrameOver, SignalDone
<1>7. TransmitterUsesBus' /\ StartsFirst' /\ (Kept' => abortSpiRelease')
  BY <1>1, ThreeClients
  DEF OwnInv, OwnStates, OwnFlags, OneAnswer, HalfDone, TransmitterUsesBus, StartsFirst,
      Idle, SameFor, doneVars, airVars, EfdSeen, Awaits, OwnFrameOver, SignalDone
<1>8. EdgeIsOwn'
  BY <1>1
  DEF OwnInv, OwnStates, OwnFlags, StartsFirst, EdgeIsOwn, SentMeansSent, SomethingComes,
      SFD, doneVars, airVars, EfdSeen, Awaits, OwnFrameOver, SignalDone
<1>9. SentMeansSent'
  BY <1>1
  DEF OwnInv, OwnStates, OwnFlags, OneAnswer, StartsFirst, EdgeIsOwn, SentMeansSent, SFD,
      doneVars, airVars, EfdSeen, Awaits, OwnFrameOver, SignalDone
<1> QED
  BY <1>1, <1>2, <1>3, <1>4, <1>5, <1>6, <1>7, <1>8, <1>9 DEF OwnInv

\* OtherFrame keeps the invariant.
LEMMA OtherFrameInv ==
  ASSUME BusInv, OwnInv, edge, edge' = FALSE, OtherFrame,
         UNCHANGED <<csma, boot, ackReq, writing, task, airVars>>
  PROVE  BusInv' /\ OwnInv'
<1>1. /\ BusInv' /\ (Kept' <=> Kept)
      /\ SameFor(CTL) /\ SameFor(TX) /\ SameFor(RX)
  BY BusUnchanged DEF OtherFrame
<1>2. OwnStates'
  BY <1>1
  DEF OwnInv, OwnStates, doneVars, airVars, OtherFrame, Awaits
<1>3. OwnFlags'
  BY <1>1
  DEF OwnInv, OwnFlags, doneVars, airVars, OtherFrame, Awaits
<1>4. OneAnswer'
  BY <1>1
  DEF OwnInv, OwnStates, OwnFlags, OneAnswer, StartsFirst, doneVars, airVars, OtherFrame,
      Awaits
<1>5. HalfDone'
  BY <1>1
  DEF OwnInv, OwnStates, OwnFlags, OneAnswer, HalfDone, StartsFirst, TransmitterUsesBus,
      doneVars, airVars, OtherFrame, Awaits
<1>6. SomethingComes'
  BY <1>1, ThreeClients
  DEF OwnInv, OwnStates, OwnFlags, OneAnswer, HalfDone, SomethingComes,
      TransmitterUsesBus, EdgeIsOwn, SFD, SameFor, doneVars, airVars, OtherFrame, Awaits
<1>7. TransmitterUsesBus' /\ StartsFirst' /\ (Kept' => abortSpiRelease')
  BY <1>1, ThreeClients
  DEF OwnInv, OwnStates, OwnFlags, OneAnswer, HalfDone, TransmitterUsesBus, StartsFirst,
      Idle, SameFor, doneVars, airVars, OtherFrame, Awaits
<1>8. EdgeIsOwn'
  BY <1>1
  DEF OwnInv, OwnStates, OwnFlags, StartsFirst, EdgeIsOwn, SentMeansSent, SomethingComes,
      SFD, doneVars, airVars, OtherFrame, Awaits
<1>9. SentMeansSent'
  BY <1>1
  DEF OwnInv, OwnStates, OwnFlags, OneAnswer, StartsFirst, EdgeIsOwn, SentMeansSent, SFD,
      doneVars, airVars, OtherFrame, Awaits
<1> QED
  BY <1>1, <1>2, <1>3, <1>4, <1>5, <1>6, <1>7, <1>8, <1>9 DEF OwnInv

\* Captured keeps the invariant.
LEMMA CapturedInv ==
  ASSUME BusInv, OwnInv, Captured
  PROVE  BusInv' /\ OwnInv'
  BY SfdSeenInv, SfdMissedInv, EfdSeenInv, OtherFrameInv DEF Captured

----------------------------------------------------------------------------
(* The chip, the receiver and the other clients of USART0.                 *)

\* OwnFrameBegins keeps the invariant.
LEMMA OwnFrameBeginsInv ==
  ASSUME BusInv, OwnInv, OwnFrameBegins
  PROVE  BusInv' /\ OwnInv'
<1>1. /\ BusInv' /\ (Kept' <=> Kept)
      /\ SameFor(CTL) /\ SameFor(TX) /\ SameFor(RX)
  BY BusUnchanged DEF OwnFrameBegins, Chip
<1> QED
  BY <1>1, ThreeClients
  DEF OwnInv, OwnStates, OwnFlags, OneAnswer, SomethingComes, TransmitterUsesBus,
      StartsFirst, HalfDone, EdgeIsOwn, SentMeansSent, Idle, SFD, SameFor, txVars,
      doneVars, OwnFrameBegins, Chip

\* OtherFrameBegins keeps the invariant.
LEMMA OtherFrameBeginsInv ==
  ASSUME BusInv, OwnInv, OtherFrameBegins
  PROVE  BusInv' /\ OwnInv'
<1>1. /\ BusInv' /\ (Kept' <=> Kept)
      /\ SameFor(CTL) /\ SameFor(TX) /\ SameFor(RX)
  BY BusUnchanged DEF OtherFrameBegins, Chip
<1> QED
  BY <1>1, ThreeClients
  DEF OwnInv, OwnStates, OwnFlags, OneAnswer, SomethingComes, TransmitterUsesBus,
      StartsFirst, HalfDone, EdgeIsOwn, SentMeansSent, Idle, SFD, SameFor, txVars,
      doneVars, OtherFrameBegins, Chip

\* FrameEnds keeps the invariant.
LEMMA FrameEndsInv ==
  ASSUME BusInv, OwnInv, FrameEnds
  PROVE  BusInv' /\ OwnInv'
<1>1. /\ BusInv' /\ (Kept' <=> Kept)
      /\ SameFor(CTL) /\ SameFor(TX) /\ SameFor(RX)
  BY BusUnchanged DEF FrameEnds, Chip
<1>2. OwnStates'
  BY <1>1
  DEF OwnInv, OwnStates, txVars, doneVars, FrameEnds, Chip
<1>3. OwnFlags'
  BY <1>1
  DEF OwnInv, OwnFlags, txVars, doneVars, FrameEnds, Chip
<1>4. OneAnswer'
  BY <1>1
  DEF OwnInv, OwnStates, OwnFlags, OneAnswer, StartsFirst, txVars, doneVars, FrameEnds,
      Chip
<1>5. HalfDone'
  BY <1>1
  DEF OwnInv, OwnStates, OwnFlags, OneAnswer, HalfDone, StartsFirst, TransmitterUsesBus,
      txVars, doneVars, FrameEnds, Chip
<1>6. SomethingComes'
  BY <1>1, ThreeClients
  DEF OwnInv, OwnStates, OwnFlags, OneAnswer, HalfDone, SomethingComes,
      TransmitterUsesBus, EdgeIsOwn, SFD, SameFor, txVars, doneVars, FrameEnds, Chip
<1>7. TransmitterUsesBus' /\ StartsFirst' /\ (Kept' => abortSpiRelease')
  BY <1>1, ThreeClients
  DEF OwnInv, OwnStates, OwnFlags, OneAnswer, HalfDone, TransmitterUsesBus, StartsFirst,
      Idle, SameFor, txVars, doneVars, FrameEnds, Chip
<1>8. EdgeIsOwn'
  BY <1>1
  DEF OwnInv, OwnStates, OwnFlags, StartsFirst, EdgeIsOwn, SentMeansSent, SomethingComes,
      SFD, txVars, doneVars, FrameEnds, Chip
<1>9. SentMeansSent'
  BY <1>1
  DEF OwnInv, OwnStates, OwnFlags, OneAnswer, StartsFirst, EdgeIsOwn, SentMeansSent, SFD,
      txVars, doneVars, FrameEnds, Chip
<1> QED
  BY <1>1, <1>2, <1>3, <1>4, <1>5, <1>6, <1>7, <1>8, <1>9 DEF OwnInv

\* BeginReceive keeps the invariant.
LEMMA BeginReceiveInv ==
  ASSUME BusInv, OwnInv, BeginReceive
  PROVE  BusInv' /\ OwnInv'
<1>1. /\ BusInv' /\ ~Kept' /\ boot = "on"
      /\ SameFor(CTL) /\ SameFor(TX)
  <2>1. CASE CanTakeNow
    BY <2>1, TakeNowBus, ThreeClients DEF BeginReceive
  <2>2. CASE ~CanTakeNow
    BY <2>2, SpiRequestBus, ThreeClients DEF BeginReceive, Idle
  <2> QED
    BY <2>1, <2>2 DEF BeginReceive
<1> QED
  BY <1>1, ThreeClients
  DEF OwnInv, OwnStates, OwnFlags, OneAnswer, SomethingComes, TransmitterUsesBus,
      StartsFirst, HalfDone, EdgeIsOwn, SentMeansSent, Idle, SFD, SameFor, txVars,
      sfdVars, doneVars, airVars, BeginReceive, BusOnly

\* ReceiveGranted keeps the invariant.
LEMMA ReceiveGrantedInv ==
  ASSUME BusInv, OwnInv, ReceiveGranted
  PROVE  BusInv' /\ OwnInv'
<1>1. /\ BusInv' /\ ~Kept' /\ WaitsFor(RX)
      /\ SameFor(CTL) /\ SameFor(TX)
  BY GrantBus, ThreeClients DEF ReceiveGranted
<1> QED
  BY <1>1, ThreeClients
  DEF OwnInv, OwnStates, OwnFlags, OneAnswer, SomethingComes, TransmitterUsesBus,
      StartsFirst, HalfDone, EdgeIsOwn, SentMeansSent, Idle, SFD, SameFor, txVars,
      sfdVars, doneVars, airVars, ReceiveGranted, BusOnly

\* ReceiveEnds keeps the invariant.
LEMMA ReceiveEndsInv ==
  ASSUME BusInv, OwnInv, ReceiveEnds
  PROVE  BusInv' /\ OwnInv'
<1>1. /\ BusInv' /\ (Kept' => abortSpiRelease) /\ Holds(RX)
      /\ SameFor(CTL) /\ SameFor(TX)
  BY SpiReleaseBus, ThreeClients DEF ReceiveEnds
<1> QED
  BY <1>1, ThreeClients
  DEF OwnInv, OwnStates, OwnFlags, OneAnswer, SomethingComes, TransmitterUsesBus,
      StartsFirst, HalfDone, EdgeIsOwn, SentMeansSent, Idle, SFD, SameFor, txVars,
      sfdVars, doneVars, airVars, ReceiveEnds, BusOnly

\* UsartGranted keeps the invariant.
LEMMA UsartGrantedInv ==
  ASSUME BusInv, OwnInv, UsartGranted
  PROVE  BusInv' /\ OwnInv'
<1>1. /\ BusInv' /\ ~Kept'
      /\ SameFor(CTL) /\ SameFor(TX) /\ SameFor(RX)
  BY SpiGrantedBus, ThreeClients DEF UsartGranted
<1> QED
  BY <1>1, ThreeClients
  DEF OwnInv, OwnStates, OwnFlags, OneAnswer, SomethingComes, TransmitterUsesBus,
      StartsFirst, HalfDone, EdgeIsOwn, SentMeansSent, Idle, SFD, SameFor, txVars,
      sfdVars, doneVars, airVars, UsartGranted, BusOnly

\* OtherClient keeps the invariant.
LEMMA OtherClientInv ==
  ASSUME BusInv, OwnInv, NEW c \in Others, OtherClient(c)
  PROVE  BusInv' /\ OwnInv'
<1>1. /\ BusInv' /\ (Kept' <=> Kept)
      /\ SameFor(CTL) /\ SameFor(TX) /\ SameFor(RX)
  BY OtherClientBus, ThreeClients DEF OtherClient
<1> QED
  BY <1>1, ThreeClients
  DEF OwnInv, OwnStates, OwnFlags, OneAnswer, SomethingComes, TransmitterUsesBus,
      StartsFirst, HalfDone, EdgeIsOwn, SentMeansSent, Idle, SFD, SameFor, txVars,
      sfdVars, doneVars, airVars, OtherClient, BusOnly

\* A stutter keeps everything.
LEMMA StutterInv ==
  ASSUME BusInv, OwnInv, UNCHANGED vars
  PROVE  BusInv' /\ OwnInv'
<1>1. /\ BusInv' /\ (Kept' <=> Kept)
      /\ SameFor(CTL) /\ SameFor(TX) /\ SameFor(RX)
  BY BusUnchanged DEF vars
<1> QED
  BY <1>1, ThreeClients
  DEF OwnInv, OwnStates, OwnFlags, OneAnswer, SomethingComes, TransmitterUsesBus,
      StartsFirst, HalfDone, EdgeIsOwn, SentMeansSent, Idle, SFD, SameFor, txVars,
      sfdVars, doneVars, airVars, vars

----------------------------------------------------------------------------

\* Next keeps the invariant.
LEMMA NextInv ==
  ASSUME Inv, [Next]_vars
  PROVE  Inv'
<1>1. BusInv /\ OwnInv
  BY InvParts
<1>2. CASE Starting
  BY <1>1, <1>2, SplitControlStartInv, StartVRegDoneInv, ControlGrantedInv,
     StartOscillatorDoneInv, StartDoneTaskInv, InvPartsNext
  DEF Starting
<1>3. CASE Sending
  BY <1>1, <1>3, SendDoneTaskInv, HandlerReturnsInv, SendInv, InvPartsNext DEF Sending
<1>4. CASE Transmitting
  BY <1>1, <1>4, TxFifoWrittenInv, TransmitGrantedInv, AttemptEndsInv,
     BackoffTimerFiredInv, AckReceivedInv, CapturedInv, InvPartsNext
  DEF Transmitting
<1>5. CASE Outside
  BY <1>1, <1>5, OwnFrameBeginsInv, OtherFrameBeginsInv, FrameEndsInv, InvPartsNext
  DEF Outside
<1>6. CASE Receiving
  BY <1>1, <1>6, BeginReceiveInv, ReceiveGrantedInv, ReceiveEndsInv, InvPartsNext
  DEF Receiving
<1>7. CASE UsartGranted
  BY <1>1, <1>7, UsartGrantedInv, InvPartsNext
<1>8. CASE \E c \in Others : OtherClient(c)
  BY <1>1, <1>8, OtherClientInv, InvPartsNext
<1>9. CASE UNCHANGED vars
  BY <1>1, <1>9, StutterInv, InvPartsNext
<1> QED
  BY <1>2, <1>3, <1>4, <1>5, <1>6, <1>7, <1>8, <1>9 DEF Next

\* The invariant of the radio holds with any clients of USART0 beside it: one
\* sendDone for each send, no state in which everything waits, and USART0 is kept
\* from others only while the stack works or waits for an acknowledgement.
THEOREM RadioInvariant == Spec => [](ArbInv /\ RadioInv)
<1>1. Inv /\ [Next]_vars => Inv'
  BY NextInv
<1>2. Spec => []Inv
  BY <1>1, InitInv, PTL DEF Spec
<1>3. Inv => ArbInv /\ RadioInv
  BY DEF Inv
<1> QED
  BY <1>2, <1>3, PTL

\* A frame reported as sent has left, and the transmitter does not rest while the
\* chip sends, as long as no edge was pending when a strobe was accepted.
THEOREM ReportedFramesHaveLeft == Spec => []SentMeansSent
<1>1. Inv /\ [Next]_vars => Inv'
  BY NextInv
<1>2. Spec => []Inv
  BY <1>1, InitInv, PTL DEF Spec
<1>3. Inv => SentMeansSent
  BY DEF Inv
<1> QED
  BY <1>2, <1>3, PTL

----------------------------------------------------------------------------
(* The contract of a sender.                                               *)

\* A step that neither takes a send nor answers one is not seen.
LEMMA OtherStepsMap ==
  ASSUME csma' = "transmitting" <=> csma = "transmitting",
         task' = "told" <=> task = "told"
  PROVE  UNCHANGED Slots!slotVars
  BY DEF Slots!slotVars

\* A sender sees three steps of the radio, and no other.
LEMMA NextMaps ==
  ASSUME Inv, [Next]_vars
  PROVE  [Slots!SlotNext]_Slots!slotVars
<1> USE DEF Slots!SlotNext
<1>0. /\ OneAnswer /\ StartsFirst /\ TX # NO_HOLDER
      /\ BusOnly => UNCHANGED <<csma, task>>
  BY SpiAssumption, RadioAssumption DEF Inv, RadioInv, BusOnly
<1>1. CASE \E a \in ACK_REQS : Send(a)
  <2>1. csma = "started" /\ csma' = "transmitting" /\ UNCHANGED task
    BY <1>1 DEF Send
  <2>2. Slots!AcceptSend(TX)
    BY <2>1 DEF Slots!AcceptSend
  <2> QED
    BY <2>2
<1>2. CASE SendDoneTask
  <2>1. csma = "transmitting" /\ csma' = "started" /\ task = "none" /\ task' = "told"
    BY <1>0, <1>2 DEF SendDoneTask, OneAnswer
  <2>2. Slots!Tell(TX)
    BY <2>1 DEF Slots!Tell
  <2> QED
    BY <2>2
<1>3. CASE HandlerReturns
  <2>1. task = "told" /\ task' = "none" /\ UNCHANGED csma
    BY <1>3 DEF HandlerReturns
  <2>2. Slots!Told
    BY <1>0, <2>1 DEF Slots!Told
  <2> QED
    BY <2>2
<1>4. CASE Starting
  <2>0. Grant(CTL) => boot # "on"
    BY <1>0, ThreeClients, SpiAssumption DEF Grant, StartsFirst, Idle, WaitsFor
  <2>1. boot # "on"
    BY <1>0, <1>4, <2>0 DEF Starting, SplitControlStart, StartVRegDone, ControlGranted,
       StartOscillatorDone, StartDoneTask, StartsFirst
  <2>2. csma # "transmitting"
    BY <1>0, <2>1 DEF StartsFirst
  <2>3. csma' \in {csma, "starting", "started"} /\ UNCHANGED task
    BY <1>4 DEF Starting, SplitControlStart, StartVRegDone, ControlGranted,
       StartOscillatorDone, StartDoneTask
  <2> QED
    BY <2>2, <2>3, OtherStepsMap
<1>5. CASE Transmitting
  <2>1. UNCHANGED csma /\ (task' = "told" <=> task = "told")
    BY <1>5 DEF Transmitting, TxFifoWritten, TransmitGranted, LoadGranted, AttemptInTask,
       AttemptEnds, BackoffTimerFired, AckReceived, Captured
  <2> QED
    BY <2>1, OtherStepsMap
<1>6. CASE Outside \/ Receiving \/ UsartGranted \/ \E c \in Others : OtherClient(c)
  <2>1. UNCHANGED <<csma, task>>
    BY <1>0, <1>6 DEF Outside, OwnFrameBegins, OtherFrameBegins, FrameEnds, Chip, Receiving,
       BeginReceive, ReceiveGranted, ReceiveEnds, UsartGranted, OtherClient
  <2> QED
    BY <2>1, OtherStepsMap
<1>7. CASE UNCHANGED vars
  BY <1>7, OtherStepsMap DEF vars
<1> QED
  BY <1>1, <1>2, <1>3, <1>4, <1>5, <1>6, <1>7 DEF Next, Sending

\* The radio answers every send it takes by one sendDone: what the send queue
\* relies on when it hands over the next message.
THEOREM RadioUsesSlots == Spec => Slots!SlotSafety
<1>1. Inv /\ [Next]_vars => Inv'
  BY NextInv
<1>2. Inv /\ [Next]_vars => [Slots!SlotNext]_Slots!slotVars
  BY NextMaps
<1>3. Init => Inv /\ Slots!SlotInit
  BY InitInv DEF Init, Slots!SlotInit
<1> QED
  BY <1>1, <1>2, <1>3, PTL DEF Spec, Slots!SlotSafety

----------------------------------------------------------------------------
(* The two buses.                                                          *)

\* What a step of the radio may do to the buses: one operation of CC2420SpiP by
\* a client that may call it, or something that the SPI bus does not see.
SpiOperation(c) == \/ TakeNow(c)
                   \/ Idle(c) /\ SpiRequest(c)
                   \/ \E abort \in BOOLEAN : Holds(c) /\ SpiRelease(c, abort)
                   \/ Grant(c) /\ UNCHANGED <<working, m_holder, m_requests, arbVars>>

UnseenOnSpi == \/ AttemptRelease \/ SpiGranted \/ CongestedInInterrupt
               \/ UNCHANGED busVars
               \/ \E c \in Others : /\ UNCHANGED spiVars
                                    /\ \/ ClientRequests(c) \/ ClientTriesAtOnce(c)
                                       \/ ClientReleases(c) \/ GrantedTask(c)

BusStep == (\E c \in SpiClients : SpiOperation(c)) \/ UnseenOnSpi

\* The transmitter's steps: it asks when it is idle, and releases what it holds.
LEMMA TransmittingUsesBuses ==
  ASSUME Inv, Transmitting
  PROVE  BusStep
<1>1. /\ BusInv /\ OwnInv /\ TX \in SpiClients
      /\ abortSpiRelease \in BOOLEAN /\ ackReq \in BOOLEAN
  BY InvParts, ThreeClients DEF OwnInv, OwnFlags
<1>2. \A abort \in BOOLEAN : Holds(TX) /\ SpiRelease(TX, abort) => BusStep
  BY <1>1 DEF BusStep, SpiOperation
<1>3. CASE TxFifoWritten
  <2>1. Holds(TX) /\ SpiRelease(TX, abortSpiRelease)
    BY <1>1, <1>3 DEF TxFifoWritten, OwnInv, HalfDone, TransmitterUsesBus
  <2> QED
    BY <1>1, <1>2, <2>1
<1>4. CASE TransmitGranted
  BY <1>1, <1>4 DEF TransmitGranted, BusStep, SpiOperation
<1>5. CASE AttemptEnds
  <2>1. task = "backoff" => Holds(TX)
    BY <1>1 DEF OwnInv, TransmitterUsesBus
  <2> QED
    BY <1>1, <1>2, <1>5, <2>1 DEF AttemptEnds, BusStep, UnseenOnSpi
<1>6. CASE BackoffTimerFired
  <2>1. CASE BackoffClear \/ TooLate
    BY <2>1 DEF BackoffClear, TooLate, BusStep, UnseenOnSpi
  <2>2. CASE AttemptInInterrupt
    BY <1>1, <2>2 DEF AttemptInInterrupt, BusStep, SpiOperation
  <2>3. CASE CongestedInInterrupt
    BY <2>3 DEF BusStep, UnseenOnSpi
  <2>4. CASE AttemptLater
    <3>1. backoff /\ task # "backoff" /\ m_state = "begin_transmit"
      BY <1>1, <1>6, <2>4 DEF BackoffTimerFired, AttemptLater, OwnInv, HalfDone
    <3>2. Idle(TX)
      BY <1>1, <3>1 DEF Idle, OwnInv, TransmitterUsesBus
    <3> QED
      BY <1>1, <2>4, <3>2 DEF AttemptLater, BusStep, SpiOperation
  <2>5. CASE NoAck
    BY <2>5 DEF NoAck, BusStep, UnseenOnSpi
  <2>6. CASE NoSfd
    <3>1. Holds(TX)
      BY <1>1, <2>6 DEF NoSfd, OwnInv, TransmitterUsesBus
    <3> QED
      BY <1>2, <2>6, <3>1 DEF NoSfd
  <2> QED
    BY <1>6, <2>1, <2>2, <2>3, <2>4, <2>5, <2>6 DEF BackoffTimerFired
<1>7. CASE AckReceived
  BY <1>7 DEF AckReceived, BusStep, UnseenOnSpi
<1>8. CASE Captured
  <2>1. m_state = "sfd" => Holds(TX)
    BY <1>1 DEF OwnInv, TransmitterUsesBus
  <2>2. CASE SfdSeen
    BY <1>1, <1>2, <2>1, <2>2 DEF SfdSeen
  <2>3. CASE SfdMissed
    BY <1>1, <1>2, <2>1, <2>3 DEF SfdMissed
  <2>4. CASE EfdSeen
    BY <1>1, <2>4 DEF EfdSeen, BusStep, UnseenOnSpi
  <2>5. CASE OtherFrame
    BY <2>5 DEF OtherFrame, BusStep, UnseenOnSpi
  <2> QED
    BY <1>8, <2>2, <2>3, <2>4, <2>5 DEF Captured
<1> QED
  BY <1>3, <1>4, <1>5, <1>6, <1>7, <1>8 DEF Transmitting

\* Every step of the radio uses the buses as their clients may.
LEMMA NextUsesBuses ==
  ASSUME Inv, [Next]_vars
  PROVE  BusStep
<1>1. /\ BusInv /\ OwnInv /\ CTL \in SpiClients /\ TX \in SpiClients /\ RX \in SpiClients
  BY InvParts, ThreeClients
<1>2. CASE Starting
  <2>1. boot \in {"vreg"} => Idle(CTL)
    BY <1>1 DEF OwnInv, StartsFirst
  <2>2. boot = "task" => Holds(CTL)
    BY <1>1 DEF OwnInv, StartsFirst
  <2>3. CASE SplitControlStart \/ StartOscillatorDone
    BY <2>3 DEF SplitControlStart, StartOscillatorDone, BusStep, UnseenOnSpi
  <2>4. CASE StartVRegDone
    BY <1>1, <2>1, <2>4 DEF StartVRegDone, BusStep, SpiOperation
  <2>5. CASE ControlGranted
    BY <1>1, <2>5 DEF ControlGranted, BusStep, SpiOperation
  <2>6. CASE StartDoneTask
    BY <1>1, <2>2, <2>6 DEF StartDoneTask, BusStep, SpiOperation
  <2> QED
    BY <1>2, <2>3, <2>4, <2>5, <2>6 DEF Starting
<1>3. CASE SendDoneTask \/ HandlerReturns
  BY <1>3 DEF SendDoneTask, HandlerReturns, BusStep, UnseenOnSpi
<1>4. CASE \E a \in ACK_REQS : Send(a)
  <2>1. PICK a \in ACK_REQS : Send(a)
    BY <1>4
  <2>2. CASE m_state # "started"
    BY <2>1, <2>2 DEF Send, BusStep, UnseenOnSpi
  <2>3. CASE m_state = "started"
    <3>1. Load /\ task # "backoff"
      BY <1>1, <2>1, <2>3 DEF Send, OwnInv, HalfDone
    <3>2. Idle(TX)
      BY <1>1, <2>3, <3>1 DEF Idle, OwnInv, TransmitterUsesBus
    <3> QED
      BY <1>1, <3>1, <3>2 DEF Load, BusStep, SpiOperation
  <2> QED
    BY <2>2, <2>3
<1>5. CASE Transmitting
  BY <1>5, TransmittingUsesBuses
<1>6. CASE Outside
  BY <1>6 DEF Outside, OwnFrameBegins, OtherFrameBegins, FrameEnds, Chip, BusStep, UnseenOnSpi
<1>7. CASE Receiving
  <2>1. abortSpiRelease \in BOOLEAN
    BY <1>1 DEF OwnInv, OwnFlags
  <2>2. CASE BeginReceive
    BY <1>1, <2>2 DEF BeginReceive, Idle, BusStep, SpiOperation
  <2>3. CASE ReceiveGranted
    BY <1>1, <2>3 DEF ReceiveGranted, BusStep, SpiOperation
  <2>4. CASE ReceiveEnds
    BY <1>1, <2>1, <2>4 DEF ReceiveEnds, BusStep, SpiOperation
  <2> QED
    BY <1>7, <2>2, <2>3, <2>4 DEF Receiving
<1>8. CASE UsartGranted
  BY <1>8 DEF UsartGranted, BusStep, UnseenOnSpi
<1>9. CASE \E c \in Others : OtherClient(c)
  BY <1>9 DEF OtherClient, BusStep, UnseenOnSpi
<1>10. CASE UNCHANGED vars
  BY <1>10 DEF vars, BusStep, UnseenOnSpi
<1> QED
  BY <1>2, <1>3, <1>4, <1>5, <1>6, <1>7, <1>8, <1>9, <1>10 DEF Next, Sending

\* The holder of the SPI bus, seen through Holds.
LEMMA SpiHolderIs ==
  /\ \A c \in SpiClients : Holds(c) <=> SpiHolder = c
  /\ (\A c \in SpiClients : ~Holds(c)) <=> SpiHolder = NO_HOLDER
  BY SpiAssumption DEF SpiHolder, Holds

\* The same after a step.
LEMMA SpiHolderIsNext ==
  /\ \A c \in SpiClients : Holds(c)' <=> SpiHolder' = c
  /\ (\A c \in SpiClients : ~Holds(c)') <=> SpiHolder' = NO_HOLDER
  BY SpiAssumption DEF SpiHolder, Holds

\* A step that changes nothing for any client is not seen.
LEMMA UnseenMaps ==
  ASSUME \A d \in SpiClients : SameFor(d)
  PROVE  UNCHANGED Spi!busVars
<1>1. SpiHolder' = SpiHolder
  BY SpiHolderIs, SpiHolderIsNext DEF SameFor
<1>2. SpiWaiting' = SpiWaiting
  BY DEF SpiWaiting, SameFor
<1> QED
  BY <1>1, <1>2 DEF Spi!busVars

\* What the radio does to the SPI bus is what a bus service does.
LEMMA SpiStepMaps ==
  ASSUME BusInv, BusStep
  PROVE  [Spi!BusNext]_(Spi!busVars)
<1>1. CASE UnseenOnSpi
  BY <1>1, AttemptReleaseBus, SpiGrantedBus, CongestedBus, BusUnchanged, OtherClientBus,
     UnseenMaps
  DEF UnseenOnSpi
<1>2. ASSUME NEW c \in SpiClients, SpiOperation(c) PROVE Spi!BusNext
  <2>1. CASE TakeNow(c)
    <3>1. \A d \in SpiClients : ~Holds(d) /\ ~WaitsFor(d)
      BY <2>1, SpiAssumption DEF TakeNow, CanTakeNow, BusInv, SpiInv, Holds, WaitsFor
    <3>2. /\ Holds(c)' /\ ~WaitsFor(c)'
          /\ \A d \in SpiClients \ {c} : SameFor(d)
      BY <2>1, TakeNowBus
    <3>3. SpiHolder = NO_HOLDER /\ SpiHolder' = c
      BY <3>1, <3>2, SpiHolderIs, SpiHolderIsNext
    <3>4. SpiWaiting = {} /\ SpiWaiting' = {}
      BY <3>1, <3>2 DEF SpiWaiting, SameFor
    <3> QED
      BY <3>3, <3>4 DEF Spi!BusNext, Spi!TakeAtOnce
  <2>2. CASE Idle(c) /\ SpiRequest(c)
    <3>1. /\ ~Holds(c)' /\ WaitsFor(c)' /\ ~Holds(c) /\ ~WaitsFor(c)
          /\ \A d \in SpiClients \ {c} : SameFor(d)
      BY <2>2, SpiRequestBus DEF Idle
    <3>2. SpiHolder' = SpiHolder /\ SpiHolder # c
      BY <3>1, SpiHolderIs, SpiHolderIsNext DEF SameFor
    <3>3. c \notin SpiWaiting /\ SpiWaiting' = SpiWaiting \cup {c}
      BY <3>1 DEF SpiWaiting, SameFor
    <3> QED
      BY <3>2, <3>3 DEF Spi!BusNext, Spi!Ask
  <2>3. CASE \E abort \in BOOLEAN : Holds(c) /\ SpiRelease(c, abort)
    <3>1. /\ Holds(c) /\ Idle(c)'
          /\ \A d \in SpiClients \ {c} : SameFor(d)
      BY <2>3, SpiReleaseBus
    <3>2. SpiHolder = c
      BY <3>1, SpiHolderIs
    <3>3. \A d \in SpiClients : ~Holds(d)'
      BY <3>1, <3>2, SpiHolderIs DEF Idle, SameFor
    <3>4. SpiHolder' = NO_HOLDER
      BY <3>3, SpiHolderIsNext
    <3>5. SpiWaiting' = SpiWaiting
      BY <3>1 DEF SpiWaiting, SameFor, Idle, WaitsFor, Holds, BusInv, SpiInv
    <3> QED
      BY <3>2, <3>4, <3>5 DEF Spi!BusNext, Spi!Give
  <2>4. CASE Grant(c) /\ UNCHANGED <<working, m_holder, m_requests, arbVars>>
    <3>1. /\ WaitsFor(c) /\ Holds(c)' /\ ~WaitsFor(c)'
          /\ \A d \in SpiClients \ {c} : SameFor(d)
      BY <2>4, GrantBus
    <3>2. \A d \in SpiClients : ~Holds(d)
      BY <2>4 DEF Grant, Holds
    <3>3. SpiHolder = NO_HOLDER /\ SpiHolder' = c
      BY <3>1, <3>2, SpiHolderIs, SpiHolderIsNext
    <3>4. c \in SpiWaiting /\ SpiWaiting' = SpiWaiting \ {c}
      BY <3>1 DEF SpiWaiting, SameFor
    <3> QED
      BY <3>3, <3>4 DEF Spi!BusNext, Spi!Grant
  <2> QED
    BY <1>2, <2>1, <2>2, <2>3, <2>4 DEF SpiOperation
<1> QED
  BY <1>1, <1>2 DEF BusStep

\* What the stack sees of the SPI bus is a bus service, although USART0 is given
\* away in between: of the radio's three parts one holds it at a time, and none
\* without having asked.
THEOREM SpiIsABusService == Spec => Spi!BusSafety
<1>1. Inv /\ [Next]_vars => Inv'
  BY NextInv
<1>2. Inv /\ [Next]_vars => [Spi!BusNext]_(Spi!busVars)
  BY NextUsesBuses, SpiStepMaps, InvParts
<1>3. Init => Inv /\ Spi!BusInit
  <2> SUFFICES ASSUME Init PROVE Spi!BusInit
    BY InitInv
  <2>1. \A c \in SpiClients : ~Holds(c) /\ ~WaitsFor(c)
    BY SpiAssumption DEF Init, SpiInit, Holds, WaitsFor
  <2> QED
    BY <2>1, SpiHolderIs DEF Spi!BusInit, SpiWaiting
<1> QED
  BY <1>1, <1>2, <1>3, PTL DEF Spec, Spi!BusSafety

\* The radio asks the arbiter of USART0 for what it has not asked for, and gives
\* back what it owns; the strobe in vain is not seen at all.
LEMMA UsartStepMaps ==
  ASSUME BusInv, BusStep
  PROVE  [Service!BusNext]_(Service!busVars)
<1> USE SpiAssumption
<1>1. /\ ArbInv /\ SpiInv /\ SPI \in Clients
      /\ arbState = "CONTROLLED" => ~Involved(SPI) /\ ~grantedTask
  BY DEF BusInv, ArbInv, ArbTypeOK, TaskMatchesState, IdleMeansNobodyWaits, Involved, Owner,
         Queued, Promised
<1>2. [ArbNext]_arbVars \/ UNCHANGED Service!busVars
  <2>1. CASE UNCHANGED arbVars
    BY <2>1
  <2>2. CASE Release(SPI)
    BY <1>1, <2>2 DEF Release, ArbNext, ClientReleases
  <2>3. ASSUME NEW c \in SpiClients, SpiOperation(c) PROVE [ArbNext]_arbVars
    <3>1. CASE TakeNow(c)
      BY <1>1, <3>1 DEF TakeNow, CanTakeNow, ArbNext, ClientTriesAtOnce
    <3>2. CASE SpiRequest(c)
      <4>1. CASE Request(SPI) /\ ~working /\ ~Owner(SPI)
        BY <1>1, <4>1 DEF SpiInv, Involved, ArbNext, ClientRequests
      <4> QED
        BY <3>2, <4>1 DEF SpiRequest
    <3>3. CASE \E abort \in BOOLEAN : Holds(c) /\ SpiRelease(c, abort)
      <4>1. UNCHANGED arbVars \/ Release(SPI)
        BY <3>3 DEF SpiRelease, HandOn, GiveBack, busVars
      <4> QED
        BY <1>1, <4>1 DEF Release, ArbNext, ClientReleases
    <3> QED
      BY <2>3, <3>1, <3>2, <3>3 DEF SpiOperation
  <2>4. CASE AttemptRelease
    BY <1>1, <2>2, <2>4 DEF AttemptRelease
  <2>5. CASE SpiGranted
    BY <1>1, <2>5 DEF SpiGranted, ArbNext
  <2>6. CASE CongestedInInterrupt
    <3>1. CASE Owner(SPI)
      BY <2>2, <2>6, <3>1 DEF CongestedInInterrupt
    <3>2. CASE ~Owner(SPI)
      BY <1>1, <2>6, <3>2 DEF CongestedInInterrupt, CanTakeNow, Service!busVars, Holder,
                              Waiting, Queued, Promised
    <3> QED
      BY <3>1, <3>2
  <2>7. CASE \E c \in Others : \/ ClientRequests(c) \/ ClientTriesAtOnce(c)
                               \/ ClientReleases(c) \/ GrantedTask(c)
    BY <2>7 DEF Others, ArbNext
  <2> QED
    BY <2>1, <2>3, <2>4, <2>5, <2>6, <2>7 DEF BusStep, UnseenOnSpi, busVars
<1> QED
  BY <1>1, <1>2, StepRefines

\* With the radio on it, and any other clients beside it, USART0 is a bus service:
\* the radio never takes it from a client, and never releases what is not its own.
THEOREM UsartIsABusService == Spec => Service!BusSafety
<1>1. Inv /\ [Next]_vars => Inv'
  BY NextInv
<1>2. Inv /\ [Next]_vars => [Service!BusNext]_(Service!busVars)
  BY NextUsesBuses, UsartStepMaps, InvParts
<1>3. Init => Inv /\ Service!BusInit
  BY InitInv DEF Init, SpiInit, ArbInit, Service!BusInit, Holder, Waiting, Promised, Queued
<1> QED
  BY <1>1, <1>2, <1>3, PTL DEF Spec, Service!BusSafety
=============================================================================
